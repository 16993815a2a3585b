---------------------------- MODULE IngestProofs ----------------------------
(***************************************************************************)
(* What the hub's tables hold of the events it has answered, proved for    *)
(* any number of proxies, envelopes, threads, crashes and posts given up.  *)
(***************************************************************************)
EXTENDS Ingest, DataLemmas

USE IngestAssumption

\* The stages in which an event's row is in the table.
Inserted == {"derive", "answered"}

\* A worker posts in order, and goes on only from a post that has ended or
\* that it has given up on.
PostsInOrder ==
    \A p \in Proxies : \A i \in DOMAIN Outbox[p] :
        /\ i > next[p] => at[Outbox[p][i]] = "unsent"
        /\ i < next[p] => Outbox[p][i] \notin InFlight \ gaveUp

\* The statements a handler has left are its event's own, and the session
\* comes first.
StatementsLeft ==
    \A e \in Events :
        /\ \A s \in Range(todo[e]) : Applies(e, s)
        /\ \A i \in DOMAIN todo[e] : todo[e][i] = "session" => i = 1

\* The statements run so far have left their rows.
RowsAreIn ==
    \A e \in Events : at[e] \in Inserted =>
        /\ e \in events
        /\ e \notin failed =>
            /\ ThreadOf[e] # None /\ "session" \notin Range(todo[e])
                 => sessions[ThreadOf[e]] # None
            /\ /\ KindOf[e] = "call" /\ RequestOf[e] # None
               /\ "call" \notin Range(todo[e])
               => calls[RequestOf[e]] # None

\* A row is of a client that has sent an event of the thread, or a call under
\* the request id.
RowsHaveSenders ==
    /\ \A t \in Threads : sessions[t] # None =>
          \E f \in events \cap OfThread(t) : sessions[t].source = SourceOf(f)
    /\ \A r \in Requests : calls[r] # None =>
          \E f \in events \cap Calls(r) : calls[r].proxy = ProxyOf(f)

PublishedAreAnswered == \A e \in published : at[e] = "answered"

\* An answer whose row statement has run has completed the call before it.
CompletionsAreIn ==
    \A p \in Proxies : \A i, j \in DOMAIN Outbox[p] :
        LET e == Outbox[p][i]
            f == Outbox[p][j]
        IN  /\ i < j /\ KindOf[e] = "call" /\ KindOf[f] = "reply"
            /\ RequestOf[e] = RequestOf[f] /\ RequestOf[e] # None
            /\ at[e] = "answered" /\ e \notin gaveUp /\ e \notin failed
            /\ at[f] \in Inserted /\ f \notin failed
            /\ "complete" \notin Range(todo[f])
            => calls[RequestOf[e]] # None /\ calls[RequestOf[e]].completed

\* A rename whose statement has run has left its title, when no other rename
\* of the thread can have come after it.
Latest(p, i) ==
    \A f \in Renames(ThreadOf[Outbox[p][i]]) \ {Outbox[p][i]} :
        \/ at[f] \in {"unsent", "refused"}
        \/ f \notin gaveUp /\ \E j \in 1 .. i - 1 : Outbox[p][j] = f

RenamesAreIn ==
    \A p \in Proxies : \A i \in DOMAIN Outbox[p] :
        LET e == Outbox[p][i] IN
        /\ KindOf[e] = "rename" /\ ThreadOf[e] # None /\ TitleOf[e] # None
        /\ at[e] \in Inserted /\ e \notin failed
        /\ "title" \notin Range(todo[e])
        /\ Latest(p, i)
        => /\ sessions[ThreadOf[e]] # None
           /\ sessions[ThreadOf[e]].title = TitleOf[e]

Inv ==
    /\ TypeOK
    /\ PostsInOrder
    /\ StatementsLeft
    /\ RowsAreIn
    /\ RowsHaveSenders
    /\ PublishedAreAnswered
    /\ CompletionsAreIn
    /\ RenamesAreIn

-----------------------------------------------------------------------------
(* The steps of one event, and what a step does to the tables.             *)

\* An event's own statements, each once, the session first.
LEMMA OwnStatements ==
    ASSUME NEW e \in Events
    PROVE  /\ DerivedRows(e) \in Seq(Statements)
           /\ \A s \in Statements : s \in Range(DerivedRows(e)) <=> Applies(e, s)
           /\ \A s \in Range(DerivedRows(e)) : s \in Statements
           /\ \A i \in DOMAIN DerivedRows(e) :
                 DerivedRows(e)[i] = "session" => i = 1
<1> DEFINE row(s) == IF Applies(e, s) THEN <<s>> ELSE << >>
           two   == row("session") \o row("title")
           three == two \o row("call")
<1>1. ASSUME NEW s \in Statements
      PROVE  /\ row(s) \in Seq(Statements)
             /\ Range(row(s)) = IF Applies(e, s) THEN {s} ELSE {}
             /\ \A i \in DOMAIN row(s) : i = 1
  BY DEF Range
<1>2. {"session", "title", "call", "complete"} = Statements
  BY DEF Statements
<1>3. DerivedRows(e) = three \o row("complete")
  BY DEF DerivedRows
<1> HIDE DEF row
<1>4. /\ two \in Seq(Statements)
      /\ Range(two) = Range(row("session")) \cup Range(row("title"))
  BY <1>1, <1>2, ConcatElems
<1> HIDE DEF two
<1>5. /\ three \in Seq(Statements)
      /\ Range(three) = Range(two) \cup Range(row("call"))
  BY <1>1, <1>2, <1>4, ConcatElems
<1> HIDE DEF three
<1>6. /\ DerivedRows(e) \in Seq(Statements)
      /\ Range(DerivedRows(e)) = Range(three) \cup Range(row("complete"))
  BY <1>1, <1>2, <1>3, <1>5, ConcatElems
<1>7. /\ Range(row("session"))  = IF Applies(e, "session") THEN {"session"} ELSE {}
      /\ Range(row("title"))    = IF Applies(e, "title") THEN {"title"} ELSE {}
      /\ Range(row("call"))     = IF Applies(e, "call") THEN {"call"} ELSE {}
      /\ Range(row("complete")) = IF Applies(e, "complete") THEN {"complete"} ELSE {}
  BY <1>1, <1>2
<1>10. Range(DerivedRows(e)) = {s \in Statements : Applies(e, s)}
  <2>2. ASSUME NEW s PROVE s \in Range(DerivedRows(e)) <=>
                              /\ s \in {"session", "title", "call", "complete"}
                              /\ Applies(e, s)
    BY <1>7, <1>4, <1>5, <1>6
  <2>. QED BY <2>2, <1>2
<1>8. ASSUME NEW s \in Seq(Statements), NEW t \in Seq(Statements),
             \A i \in DOMAIN s : s[i] = "session" => i = 1,
             "session" \notin Range(t)
      PROVE  \A i \in DOMAIN (s \o t) : (s \o t)[i] = "session" => i = 1
  <2> SUFFICES ASSUME NEW i \in DOMAIN (s \o t), (s \o t)[i] = "session"
               PROVE  i = 1
    OBVIOUS
  <2>1. /\ Len(s) \in Nat /\ Len(t) \in Nat /\ DOMAIN s = 1 .. Len(s)
        /\ DOMAIN t = 1 .. Len(t) /\ i \in 1 .. Len(s) + Len(t)
    OBVIOUS
  <2>2. CASE i <= Len(s)
    BY <1>8, <2>1, <2>2
  <2>3. CASE i > Len(s)
    <3>1. i - Len(s) \in DOMAIN t /\ t[i - Len(s)] = "session"
      BY <2>1, <2>3
    <3>. QED BY <3>1, <1>8 DEF Range
  <2>. QED BY <2>1, <2>2, <2>3
<1>9. \A i \in DOMAIN DerivedRows(e) : DerivedRows(e)[i] = "session" => i = 1
  <2>1. /\ "session" \notin Range(row("title"))
        /\ "session" \notin Range(row("call"))
        /\ "session" \notin Range(row("complete"))
    BY <1>7
  <2>2. \A i \in DOMAIN row("session") : row("session")[i] = "session" => i = 1
    BY <1>1, <1>2 DEF Statements
  <2>3. \A i \in DOMAIN two : two[i] = "session" => i = 1
    BY <1>1, <1>2, <1>8, <2>1, <2>2 DEF two
  <2>4. \A i \in DOMAIN three : three[i] = "session" => i = 1
    BY <1>1, <1>2, <1>4, <1>8, <2>1, <2>3 DEF three
  <2>5. row("complete") \in Seq(Statements)
    BY <1>1, <1>2
  <2>6. \A i \in DOMAIN (three \o row("complete")) :
           (three \o row("complete"))[i] = "session" => i = 1
    BY <1>5, <1>8, <2>1, <2>4, <2>5
  <2>. QED BY <1>3, <2>6
<1>. QED BY <1>6, <1>9, <1>10

\* What a step does to the stage of one event.
EventStep(e) ==
    \/ at'[e] = at[e] /\ todo'[e] = todo[e]
    \/ /\ at[e] = "unsent" /\ at'[e] \in {"insert", "refused"} /\ todo'[e] = << >>
       /\ \E p \in Proxies : Post(p) /\ e = Outbox[p][next[p] + 1]
    \/ at[e] = "insert" /\ at'[e] = "rejected" /\ todo'[e] = << >>
    \/ /\ at[e] = "insert" /\ at'[e] = "derive"
       /\ todo'[e] = DerivedRows(e)
       /\ e \in events'
    \/ at[e] = "derive" /\ at'[e] = "derive" /\ Derive(e)
    \/ at[e] = "derive" /\ at'[e] = "answered" /\ todo[e] = << >> /\ todo'[e] = << >>
    \/ at[e] \in {"insert", "derive"} /\ at'[e] = "dead" /\ todo'[e] = << >>

LEMMA EventSteps ==
    ASSUME TypeOK, PostsInOrder, [Next]_vars, NEW e \in Events
    PROVE  EventStep(e)
<1> USE DEF TypeOK
<1>1. ASSUME NEW p \in Proxies, Post(p) PROVE EventStep(e)
  <2> DEFINE g == Outbox[p][next[p] + 1]
  <2>1. next[p] \in Nat /\ next[p] + 1 \in DOMAIN Outbox[p] /\ g \in Events
    BY <1>1 DEF Post
  <2>2. at[g] = "unsent" /\ todo[g] = << >>
    <3>1. next[p] + 1 > next[p]
      BY <2>1
    <3>2. at[g] = "unsent"
      BY <2>1, <3>1 DEF PostsInOrder
    <3>. QED BY <2>1, <3>2
  <2>3. /\ todo' = todo
        /\ at' = [at EXCEPT ![g] = IF up THEN "insert" ELSE "refused"]
    BY <1>1 DEF Post
  <2>4. e = g => \E q \in Proxies : Post(q) /\ e = Outbox[q][next[q] + 1]
    BY <1>1
  <2> HIDE DEF g
  <2>. QED BY <2>1, <2>2, <2>3, <2>4 DEF EventStep
<1>2. ASSUME NEW g \in Events, GiveUp(g) \/ ContextCancelled(g) PROVE EventStep(e)
  BY <1>2 DEF GiveUp, ContextCancelled, handlerVars, EventStep
<1>3. ASSUME NEW g \in Events, InsertEvent(g) PROVE EventStep(e)
  <2>1. at[g] = "insert" /\ todo[g] = << >>
    BY <1>3 DEF InsertEvent
  <2>2. CASE at' = [at EXCEPT ![g] = "rejected"] /\ UNCHANGED todo
    BY <2>1, <2>2 DEF EventStep
  <2>3. CASE /\ events' = events \cup {g}
             /\ todo' = [todo EXCEPT ![g] = DerivedRows(g)]
             /\ at' = [at EXCEPT ![g] = "derive"]
    BY <2>1, <2>3 DEF EventStep
  <2>. QED BY <1>3, <2>2, <2>3 DEF InsertEvent
<1>4. ASSUME NEW g \in Events, Derive(g) PROVE EventStep(e)
  <2>1. at[g] = "derive" /\ at' = at /\ todo' = [todo EXCEPT ![g] = Tail(@)]
    BY <1>4 DEF Derive
  <2>2. CASE e = g
    BY <1>4, <2>1, <2>2 DEF EventStep
  <2>3. CASE e # g
    BY <2>1, <2>3 DEF EventStep
  <2>. QED BY <2>2, <2>3
<1>5. ASSUME NEW g \in Events, PublishAndRespond(g) PROVE EventStep(e)
  BY <1>5 DEF PublishAndRespond, EventStep
<1>6. CASE Crash
  BY <1>6 DEF Crash, InFlight, EventStep
<1>7. CASE Start
  BY <1>7 DEF Start, handlerVars, EventStep
<1>8. CASE UNCHANGED vars
  BY <1>8 DEF vars, handlerVars, EventStep
<1>. QED BY <1>1, <1>2, <1>3, <1>4, <1>5, <1>6, <1>7, <1>8 DEF Next, Handler

\* A handler's next statement succeeds.
StatementRan(g) ==
    \/ Head(todo[g]) = "session"  /\ UpsertSession(g)
    \/ Head(todo[g]) = "title"    /\ SetTitle(g)
    \/ Head(todo[g]) = "call"     /\ UpsertMCPCall(g)
    \/ Head(todo[g]) = "complete" /\ CompleteMCPCall(g)

\* What is left after a statement, and what the statement does.
LEMMA DeriveStep ==
    ASSUME TypeOK, StatementsLeft, NEW g \in Events, Derive(g)
    PROVE  /\ Applies(g, Head(todo[g]))
           /\ todo[g] \in Seq(Statements) /\ todo[g] # << >>
           /\ Tail(todo[g]) \in Seq(Statements)
           /\ todo' = [todo EXCEPT ![g] = Tail(todo[g])]
           /\ "session" \notin Range(Tail(todo[g]))
           /\ Range(todo[g]) = {Head(todo[g])} \cup Range(Tail(todo[g]))
           /\ \/ g \in failed' /\ UNCHANGED <<sessions, calls>>
              \/ StatementRan(g)
<1>1. todo[g] \in Seq(Statements) /\ todo[g] # << >>
  BY DEF TypeOK, Derive
<1>2. PICK s : s = todo[g]
  OBVIOUS
<1>3. /\ Head(s) \in Statements
      /\ Tail(s) \in Seq(Statements)
      /\ Len(Tail(s)) = Len(s) - 1
      /\ Range(s) = {Head(s)} \cup Range(Tail(s))
  BY <1>1, <1>2, TailElems
<1>4. Applies(g, Head(s))
  BY <1>2, <1>3 DEF StatementsLeft
<1>5. "session" \notin Range(Tail(s))
  <2>1. /\ DOMAIN Tail(s) = 1 .. Len(s) - 1
        /\ \A i \in 1 .. Len(s) - 1 : Tail(s)[i] = s[i + 1]
        /\ DOMAIN s = 1 .. Len(s) /\ Len(s) \in Nat
    BY <1>1, <1>2, HeadTailProperties, LenProperties
  <2>2. ASSUME NEW i \in 1 .. Len(s) - 1 PROVE s[i + 1] # "session"
    <3>1. i + 1 \in DOMAIN s /\ i + 1 # 1
      BY <2>1
    <3>. QED BY <3>1, <1>2 DEF StatementsLeft
  <2>. QED BY <2>1, <2>2 DEF Range
<1>6. todo' = [todo EXCEPT ![g] = Tail(todo[g])]
  BY DEF Derive
<1>7. ASSUME Run(g, Head(todo[g])) PROVE StatementRan(g)
  BY <1>2, <1>3, <1>7 DEF Run, Statements, StatementRan
<1>8. \/ g \in failed' /\ UNCHANGED <<sessions, calls>>
      \/ StatementRan(g)
  BY <1>7 DEF Derive
<1>. QED BY <1>1, <1>2, <1>3, <1>4, <1>5, <1>6, <1>7, <1>8

\* What may become of the title of a listed thread.
TitleStands(t) ==
    \/ sessions'[t].title = sessions[t].title
    \/ sessions[t].title = None
    \/ \E g \in Renames(t) : /\ at[g] = "derive"
                             /\ sessions'[t].title = TitleOf[g]

\* No step takes a thread or a call off its table, or a completion back.
LEMMA TablesGrow ==
    ASSUME TypeOK, StatementsLeft, [Next]_vars
    PROVE  /\ sessions' \in [Threads -> SessionRows \cup {None}]
           /\ calls' \in [Requests -> CallRows \cup {None}]
           /\ \A t \in Threads : sessions[t] # None =>
                 sessions'[t] # None /\ TitleStands(t)
           /\ \A r \in Requests : calls[r] # None =>
                 calls'[r] # None /\ (calls[r].completed => calls'[r].completed)
<1> DEFINE Goal ==
       /\ sessions' \in [Threads -> SessionRows \cup {None}]
       /\ calls' \in [Requests -> CallRows \cup {None}]
       /\ \A t \in Threads : sessions[t] # None =>
             sessions'[t] # None /\ TitleStands(t)
       /\ \A r \in Requests : calls[r] # None =>
             calls'[r] # None /\ (calls[r].completed => calls'[r].completed)
<1>1. /\ sessions \in [Threads -> SessionRows \cup {None}]
      /\ calls \in [Requests -> CallRows \cup {None}]
  BY DEF TypeOK
<1>2. ASSUME UNCHANGED <<sessions, calls>> PROVE Goal
  BY <1>1, <1>2 DEF TitleStands
<1>3. ASSUME NEW g \in Events, Derive(g), StatementRan(g) PROVE Goal
  <2>1. /\ Applies(g, Head(todo[g]))
        /\ \/ Head(todo[g]) = "session"  /\ UpsertSession(g)
           \/ Head(todo[g]) = "title"    /\ SetTitle(g)
           \/ Head(todo[g]) = "call"     /\ UpsertMCPCall(g)
           \/ Head(todo[g]) = "complete" /\ CompleteMCPCall(g)
    BY <1>3, DeriveStep DEF StatementRan
  <2>2. ProxyOf(g) \in Proxies
    BY DEF ProxyOf
  <2>3. ASSUME Applies(g, "session"), UpsertSession(g) PROVE Goal
    <3>1. ThreadOf[g] \in Threads
      BY <2>3 DEF Applies
    <3>2. calls' = calls
      BY <2>3 DEF UpsertSession
    <3>3. sessions' = [sessions EXCEPT ![ThreadOf[g]] =
                         [source |-> SourceOf(g),
                          title  |-> IF sessions[ThreadOf[g]] = None THEN None
                                     ELSE sessions[ThreadOf[g]].title]]
      BY <2>3 DEF UpsertSession
    <3>4. [source |-> SourceOf(g),
           title  |-> IF sessions[ThreadOf[g]] = None THEN None
                      ELSE sessions[ThreadOf[g]].title] \in SessionRows
      BY <1>1, <2>2, <3>1 DEF SourceOf, SessionRows
    <3>5. sessions' \in [Threads -> SessionRows \cup {None}]
      BY <1>1, <3>3, <3>4
    <3>6. ASSUME NEW t \in Threads, sessions[t] # None
          PROVE  sessions'[t] # None /\ TitleStands(t)
      BY <1>1, <3>1, <3>3, <3>4, <3>6 DEF TitleStands
    <3>. QED BY <1>1, <3>2, <3>5, <3>6
  <2>4. ASSUME Applies(g, "title"), SetTitle(g) PROVE Goal
    <3>1. ThreadOf[g] \in Threads /\ TitleOf[g] \in Titles
      BY <2>4 DEF Applies
    <3>2. calls' = calls
      BY <2>4 DEF SetTitle
    <3>3. CASE UNCHANGED sessions
      BY <1>2, <3>2, <3>3
    <3>4. CASE /\ sessions[ThreadOf[g]] # None
               /\ KindOf[g] = "rename" \/ sessions[ThreadOf[g]].title = None
               /\ sessions' = [sessions EXCEPT ![ThreadOf[g]].title = TitleOf[g]]
      <4> DEFINE row == [sessions[ThreadOf[g]] EXCEPT !.title = TitleOf[g]]
      <4>1. sessions[ThreadOf[g]] \in SessionRows
        BY <1>1, <3>1, <3>4
      <4>2. row \in SessionRows /\ row.title = TitleOf[g]
        BY <3>1, <4>1 DEF SessionRows
      <4>3. sessions' = [sessions EXCEPT ![ThreadOf[g]] = row]
        BY <3>4
      <4> HIDE DEF row
      <4>4. sessions' \in [Threads -> SessionRows \cup {None}]
        BY <1>1, <3>1, <4>2, <4>3
      <4>5. ASSUME NEW t \in Threads, sessions[t] # None
            PROVE  sessions'[t] # None /\ TitleStands(t)
        <5>1. CASE t # ThreadOf[g]
          BY <1>1, <3>1, <4>3, <4>5, <5>1 DEF TitleStands
        <5>2. CASE t = ThreadOf[g]
          <6>1. sessions'[t] = row
            BY <1>1, <3>1, <4>3, <5>2
          <6>2. sessions'[t] # None /\ sessions'[t].title = TitleOf[g]
            BY <4>2, <6>1
          <6>3. at[g] = "derive"
            BY <1>3 DEF Derive
          <6>. QED BY <1>3, <3>4, <5>2, <6>2, <6>3 DEF TitleStands, Renames
        <5>. QED BY <5>1, <5>2
      <4>. QED BY <1>1, <3>2, <4>4, <4>5
    <3>. QED BY <2>4, <3>3, <3>4 DEF SetTitle
  <2>5. ASSUME Applies(g, "call"), UpsertMCPCall(g) PROVE Goal
    <3>1. RequestOf[g] \in Requests
      BY <2>5 DEF Applies
    <3>2. /\ sessions' = sessions
          /\ calls' = [calls EXCEPT ![RequestOf[g]] =
                         IF @ = None
                         THEN [proxy |-> ProxyOf(g), completed |-> FALSE]
                         ELSE @]
      BY <2>5 DEF UpsertMCPCall
    <3>3. [proxy |-> ProxyOf(g), completed |-> FALSE] \in CallRows
      BY <2>2 DEF CallRows
    <3>4. calls' \in [Requests -> CallRows \cup {None}]
      BY <1>1, <3>1, <3>2, <3>3
    <3>. QED BY <1>1, <3>1, <3>2, <3>4 DEF TitleStands
  <2>6. ASSUME Applies(g, "complete"), CompleteMCPCall(g) PROVE Goal
    <3>1. RequestOf[g] \in Requests
      BY <2>6 DEF Applies
    <3>2. sessions' = sessions
      BY <2>6 DEF CompleteMCPCall
    <3>3. CASE UNCHANGED calls
      BY <1>2, <3>2, <3>3
    <3>4. CASE /\ calls[RequestOf[g]] # None
               /\ calls' = [calls EXCEPT ![RequestOf[g]].completed = TRUE]
      <4> DEFINE row == [calls[RequestOf[g]] EXCEPT !.completed = TRUE]
      <4>1. calls[RequestOf[g]] \in CallRows
        BY <1>1, <3>1, <3>4
      <4>2. row \in CallRows /\ row.completed = TRUE
        BY <4>1 DEF CallRows
      <4>3. calls' = [calls EXCEPT ![RequestOf[g]] = row]
        BY <3>4
      <4> HIDE DEF row
      <4>4. calls' \in [Requests -> CallRows \cup {None}]
        BY <1>1, <3>1, <4>2, <4>3
      <4>5. ASSUME NEW r \in Requests, calls[r] # None
            PROVE  calls'[r] # None /\ (calls[r].completed => calls'[r].completed)
        <5>1. CASE r # RequestOf[g]
          BY <1>1, <3>1, <4>3, <4>5, <5>1
        <5>2. CASE r = RequestOf[g]
          <6>1. calls'[r] = row
            BY <1>1, <3>1, <4>3, <5>2
          <6>. QED BY <4>2, <6>1
        <5>. QED BY <5>1, <5>2
      <4>. QED BY <1>1, <3>2, <4>4, <4>5 DEF TitleStands
    <3>. QED BY <2>6, <3>3, <3>4 DEF CompleteMCPCall
  <2>. QED BY <2>1, <2>3, <2>4, <2>5, <2>6
<1>4. ASSUME Start PROVE Goal
  <2>1. calls' = calls
    BY <1>4 DEF Start
  <2>2. CASE UNCHANGED sessions
    BY <1>2, <2>1, <2>2
  <2>3. CASE sessions' = Backfilled /\ \A t \in Threads : sessions[t] = None
    <3>1. sessions' =
            [t \in Threads |->
               IF \E e \in events : ThreadOf[e] = t
               THEN [source |-> SourceOf(CHOOSE e \in events : ThreadOf[e] = t),
                     title  |-> None]
               ELSE None]
      BY <2>3 DEF Backfilled
    <3>2. ASSUME NEW t \in Threads, NEW e \in events, ThreadOf[e] = t
          PROVE  SourceOf(CHOOSE x \in events : ThreadOf[x] = t) \in Proxies
      BY <3>2 DEF SourceOf, ProxyOf, TypeOK
    <3>3. sessions' \in [Threads -> SessionRows \cup {None}]
      BY <3>1, <3>2 DEF SessionRows
    <3>. QED BY <1>1, <2>1, <2>3, <3>3
  <2>. QED BY <1>4, <2>2, <2>3 DEF Start, Backfilled
<1>5. ASSUME NEW g \in Events, Derive(g), ~ StatementRan(g) PROVE Goal
  BY <1>2, <1>5, DeriveStep
<1>6. CASE \/ \E p \in Proxies : Post(p)
           \/ \E e \in Events : \/ InsertEvent(e) \/ PublishAndRespond(e)
                                \/ GiveUp(e) \/ ContextCancelled(e)
           \/ Crash
           \/ UNCHANGED vars
  <2>1. UNCHANGED <<sessions, calls>>
    BY <1>6 DEF Post, InsertEvent, PublishAndRespond, GiveUp,
                ContextCancelled, Crash, vars, tables
  <2>. QED BY <2>1, <1>2
<1>. QED BY <1>3, <1>4, <1>5, <1>6 DEF Next, Handler

-----------------------------------------------------------------------------
(* The invariant.                                                          *)

LEMMA InvInit == Init => Inv
<1> SUFFICES ASSUME Init PROVE Inv
  OBVIOUS
<1>1. TypeOK
  BY DEF Init, TypeOK
<1>2. Range(<< >>) = {}
  BY DEF Range
<1>3. ASSUME NEW p \in Proxies, NEW i \in DOMAIN Outbox[p]
      PROVE  Outbox[p][i] \in Events /\ at[Outbox[p][i]] = "unsent" /\ i \in Nat \ {0}
  BY <1>3 DEF Init
<1>4. PostsInOrder
  BY <1>3 DEF PostsInOrder, Init
<1>5. StatementsLeft
  BY <1>2 DEF StatementsLeft, Init
<1>6. RowsAreIn /\ RowsHaveSenders /\ PublishedAreAnswered
  BY DEF RowsAreIn, RowsHaveSenders, PublishedAreAnswered, Inserted, Init
<1>7. CompletionsAreIn
  BY <1>3 DEF CompletionsAreIn
<1>8. RenamesAreIn
  BY <1>3 DEF RenamesAreIn, Inserted
<1>. QED BY <1>1, <1>4, <1>5, <1>6, <1>7, <1>8 DEF Inv

LEMMA NextOrPost ==
    ASSUME TypeOK, [Next]_vars, NEW p \in Proxies
    PROVE  next'[p] = next[p] \/ Post(p)
<1>1. ASSUME NEW q \in Proxies, Post(q) PROVE next'[p] = next[p] \/ Post(p)
  <2>1. next' = [next EXCEPT ![q] = next[q] + 1]
    BY <1>1 DEF Post
  <2>. QED BY <1>1, <2>1 DEF TypeOK
<1>2. (\E q \in Proxies : Post(q)) \/ UNCHANGED next
  BY DEF Next, Handler, InsertEvent, Derive, PublishAndRespond, GiveUp,
         ContextCancelled, Crash, Start, vars, clientVars
<1>. QED BY <1>1, <1>2

\* What is given up on or has failed stays so.
LEMMA GivenUpStays ==
    [Next]_vars => gaveUp \subseteq gaveUp' /\ failed \subseteq failed'
BY DEF Next, Handler, Post, InsertEvent, Derive, PublishAndRespond, GiveUp,
       ContextCancelled, Crash, Start, vars, clientVars

LEMMA TypeStep == Inv /\ [Next]_vars => TypeOK'
<1> SUFFICES ASSUME Inv, [Next]_vars PROVE TypeOK'
  OBVIOUS
<1> USE DEF Inv
<1>1. /\ sessions' \in [Threads -> SessionRows \cup {None}]
      /\ calls' \in [Requests -> CallRows \cup {None}]
  BY TablesGrow
<1>2. /\ next' \in [Proxies -> Nat]
      /\ \A p \in Proxies : next'[p] <= Len(Outbox[p])
  <2>1. ASSUME NEW p \in Proxies, Post(p)
        PROVE  /\ next' \in [Proxies -> Nat]
               /\ \A q \in Proxies : next'[q] <= Len(Outbox[q])
    <3>1. next' = [next EXCEPT ![p] = next[p] + 1] /\ next[p] < Len(Outbox[p])
      BY <2>1 DEF Post
    <3>2. next[p] \in Nat /\ Len(Outbox[p]) \in Nat
      BY DEF TypeOK
    <3>3. ASSUME NEW q \in Proxies PROVE next'[q] <= Len(Outbox[q])
      BY <3>1, <3>2 DEF TypeOK
    <3>. QED BY <3>1, <3>2, <3>3 DEF TypeOK
  <2>2. CASE UNCHANGED next
    BY <2>2 DEF TypeOK
  <2>3. (\E p \in Proxies : Post(p)) \/ UNCHANGED next
    BY DEF Next, Handler, InsertEvent, Derive, PublishAndRespond, GiveUp,
           ContextCancelled, Crash, Start, vars, clientVars
  <2>. QED BY <2>1, <2>2, <2>3
<1> DEFINE Types ==
         /\ at' \in [Events -> {"unsent", "refused", "insert", "rejected", "derive",
                                "answered", "dead"}]
         /\ todo' \in [Events -> Seq(Statements)]
         /\ gaveUp' \subseteq Events /\ cancelled' \subseteq gaveUp'
         /\ events' \subseteq Events /\ published' \subseteq events'
         /\ up' \in BOOLEAN /\ crashes' \in 0 .. MaxCrashes
         /\ failed' \subseteq Events
<1>3. Types
  <2> USE DEF TypeOK
  <2>1. ASSUME NEW p \in Proxies, Post(p) PROVE Types
    <3>1. Outbox[p][next[p] + 1] \in Events
      BY <2>1 DEF Post
    <3>. QED BY <2>1, <3>1 DEF Post, tables
  <2>2. ASSUME NEW e \in Events, GiveUp(e) PROVE Types
    BY <2>2 DEF GiveUp, handlerVars, tables
  <2>3. ASSUME NEW e \in Events, ContextCancelled(e) PROVE Types
    BY <2>3 DEF ContextCancelled, clientVars, handlerVars, tables
  <2>4. ASSUME NEW e \in Events, InsertEvent(e) PROVE Types
    <3>0. UNCHANGED <<gaveUp, cancelled, published, up, crashes>>
      BY <2>4 DEF InsertEvent, clientVars
    <3>1. CASE /\ at' = [at EXCEPT ![e] = "rejected"]
               /\ failed' = failed \cup {e}
               /\ UNCHANGED <<events, todo>>
      BY <3>0, <3>1
    <3>2. CASE /\ events' = events \cup {e}
               /\ todo' = [todo EXCEPT ![e] = DerivedRows(e)]
               /\ at' = [at EXCEPT ![e] = "derive"]
               /\ UNCHANGED failed
      <4>2. DerivedRows(e) \in Seq(Statements)
        BY OwnStatements
      <4>3. todo' \in [Events -> Seq(Statements)]
        BY <3>2, <4>2
      <4>4. at' \in [Events -> {"unsent", "refused", "insert", "rejected", "derive",
                                "answered", "dead"}]
        BY <3>2
      <4>. QED BY <3>0, <3>2, <4>3, <4>4
    <3>. QED BY <2>4, <3>1, <3>2 DEF InsertEvent
  <2>5. ASSUME NEW e \in Events, Derive(e) PROVE Types
    <3>1. todo' = [todo EXCEPT ![e] = Tail(todo[e])] /\ Tail(todo[e]) \in Seq(Statements)
      BY <2>5, DeriveStep
    <3>2. failed' \subseteq Events
      BY <2>5 DEF Derive
    <3>3. UNCHANGED <<at, gaveUp, cancelled, events, published, up, crashes>>
      BY <2>5 DEF Derive, clientVars
    <3>. QED BY <3>1, <3>2, <3>3
  <2>6. ASSUME NEW e \in Events, PublishAndRespond(e) PROVE Types
    <3>1. e \in events
      BY <2>6 DEF PublishAndRespond, RowsAreIn, Inserted
    <3>2. /\ at' = [at EXCEPT ![e] = "answered"]
          /\ published' = published \cup {e}
          /\ UNCHANGED <<todo, events, gaveUp, cancelled, up, crashes, failed>>
      BY <2>6 DEF PublishAndRespond, clientVars, tables
    <3>. QED BY <3>1, <3>2
  <2>7. CASE Crash
    <3>1. crashes + 1 \in 0 .. MaxCrashes
      BY <2>7 DEF Crash
    <3>2. << >> \in Seq(Statements)
      OBVIOUS
    <3>3. todo' \in [Events -> Seq(Statements)]
      BY <2>7, <3>2 DEF Crash
    <3>4. at' \in [Events -> {"unsent", "refused", "insert", "rejected", "derive",
                              "answered", "dead"}]
      BY <2>7 DEF Crash
    <3>5. /\ gaveUp' = gaveUp /\ cancelled' = cancelled /\ events' = events
          /\ failed' = failed
          /\ published' = {} /\ up' = FALSE /\ crashes' = crashes + 1
      BY <2>7 DEF Crash, clientVars, tables
    <3>. QED BY <3>1, <3>3, <3>4, <3>5
  <2>8. CASE Start
    BY <2>8 DEF Start, clientVars, handlerVars
  <2>9. CASE UNCHANGED vars
    BY <2>9 DEF vars, clientVars, handlerVars, tables
  <2>. QED BY <2>1, <2>2, <2>3, <2>4, <2>5, <2>6, <2>7, <2>8, <2>9 DEF Next, Handler
<1>4. ASSUME NEW e \in Events, todo'[e] # << >> PROVE at'[e] = "derive"
  <2>1. EventStep(e)
    BY EventSteps
  <2>2. CASE at'[e] = at[e] /\ todo'[e] = todo[e]
    BY <1>4, <2>2 DEF TypeOK
  <2>. QED BY <1>4, <2>1, <2>2 DEF EventStep
<1>. QED BY <1>1, <1>2, <1>3, <1>4 DEF TypeOK

LEMMA PostsStep == Inv /\ [Next]_vars => PostsInOrder'
<1> SUFFICES ASSUME Inv, [Next]_vars,
                    NEW p \in Proxies, NEW i \in DOMAIN Outbox[p]
             PROVE  /\ i > next'[p] => at'[Outbox[p][i]] = "unsent"
                    /\ i < next'[p] => Outbox[p][i] \notin InFlight' \ gaveUp'
  BY DEF PostsInOrder
<1> DEFINE e == Outbox[p][i]
<1> USE DEF Inv
<1>1. /\ e \in Events /\ i \in Nat /\ next[p] \in Nat
      /\ i > next[p] => at[e] = "unsent"
      /\ i < next[p] => e \notin InFlight \ gaveUp
  BY DEF TypeOK, PostsInOrder
<1> HIDE DEF e
<1>2. CASE Post(p)
  <2> DEFINE g == Outbox[p][next[p] + 1]
  <2>1. /\ next' = [next EXCEPT ![p] = next[p] + 1]
        /\ at' = [at EXCEPT ![g] = IF up THEN "insert" ELSE "refused"]
        /\ gaveUp' = gaveUp
        /\ next[p] + 1 \in DOMAIN Outbox[p]
        /\ Settled(p)
    BY <1>1, <1>2 DEF Post
  <2>2. next'[p] = next[p] + 1
    BY <2>1 DEF TypeOK
  <2>3. i # next[p] + 1 => e # g
    BY <2>1 DEF e
  <2>4. i = next[p] => e \notin InFlight \ gaveUp
    BY <2>1, <1>1 DEF Settled, e
  <2>5. i # next[p] + 1 => at'[e] = at[e]
    <3> HIDE DEF g
    <3>. QED BY <1>1, <2>1, <2>3 DEF TypeOK
  <2>6. i > next'[p] => at'[e] = "unsent"
    BY <1>1, <2>2, <2>5
  <2>7. i < next'[p] => e \notin InFlight' \ gaveUp'
    BY <1>1, <2>1, <2>2, <2>4, <2>5 DEF InFlight
  <2>. QED BY <2>6, <2>7 DEF e
<1>3. ASSUME ~ Post(p)
      PROVE  /\ i > next'[p] => at'[e] = "unsent"
             /\ i < next'[p] => e \notin InFlight' \ gaveUp'
  <2>1. next'[p] = next[p]
    BY <1>3, NextOrPost
  <2>2. gaveUp \subseteq gaveUp'
    BY GivenUpStays
  <2>3. ~ \E q \in Proxies : Post(q) /\ e = Outbox[q][next[q] + 1]
    <3> SUFFICES ASSUME NEW q \in Proxies, Post(q), e = Outbox[q][next[q] + 1]
                 PROVE  FALSE
      OBVIOUS
    <3>1. next[q] + 1 \in DOMAIN Outbox[q]
      BY DEF Post, TypeOK
    <3>2. q = p
      BY <3>1 DEF e
    <3>. QED BY <3>2, <1>3
  <2>4. EventStep(e)
    BY <1>1, EventSteps
  <2>5. at[e] = "unsent" => at'[e] = "unsent"
    BY <2>3, <2>4 DEF EventStep
  <2>6. e \notin InFlight => e \notin InFlight'
    BY <1>1, <2>3, <2>4 DEF EventStep, InFlight
  <2>. QED BY <1>1, <2>1, <2>2, <2>5, <2>6
<1>. QED BY <1>2, <1>3 DEF e

LEMMA StatementsStep == Inv /\ [Next]_vars => StatementsLeft'
<1> SUFFICES ASSUME Inv, [Next]_vars, NEW e \in Events
             PROVE  /\ \A s \in Range(todo'[e]) : Applies(e, s)
                    /\ \A i \in DOMAIN todo'[e] : todo'[e][i] = "session" => i = 1
  BY DEF StatementsLeft
<1> USE DEF Inv
<1>1. EventStep(e)
  BY EventSteps
<1>2. CASE todo'[e] = todo[e]
  BY <1>2 DEF StatementsLeft
<1>3. CASE todo'[e] = << >>
  BY <1>3 DEF Range
<1>4. CASE todo'[e] = DerivedRows(e)
  BY <1>4, OwnStatements
<1>5. CASE Derive(e)
  <2>1. /\ todo' = [todo EXCEPT ![e] = Tail(todo[e])]
        /\ "session" \notin Range(Tail(todo[e]))
        /\ Range(todo[e]) = {Head(todo[e])} \cup Range(Tail(todo[e]))
    BY <1>5, DeriveStep
  <2>2. todo'[e] = Tail(todo[e])
    BY <2>1 DEF TypeOK
  <2>3. \A s \in Range(Tail(todo[e])) : Applies(e, s)
    BY <2>1 DEF StatementsLeft
  <2>4. \A i \in DOMAIN Tail(todo[e]) : Tail(todo[e])[i] # "session"
    BY <2>1 DEF Range
  <2>. QED BY <2>2, <2>3, <2>4
<1>. QED BY <1>1, <1>2, <1>3, <1>4, <1>5 DEF EventStep

\* An event's row stays in the table.
LEMMA EventsStay == [Next]_vars => events \subseteq events'
<1>1. ASSUME NEW e \in Events, InsertEvent(e) PROVE events \subseteq events'
  BY <1>1 DEF InsertEvent
<1>2. UNCHANGED vars => UNCHANGED events
  BY DEF vars, tables
<1>3. ASSUME [Next]_vars, ~ \E e \in Events : InsertEvent(e) PROVE UNCHANGED events
  BY <1>2, <1>3 DEF Next, Handler, Post, Derive, PublishAndRespond, GiveUp,
                    ContextCancelled, Crash, Start, tables
<1>. QED BY <1>1, <1>3

LEMMA RowsStep == Inv /\ [Next]_vars => RowsAreIn'
<1> SUFFICES ASSUME Inv, [Next]_vars, NEW e \in Events, at'[e] \in Inserted
             PROVE  /\ e \in events'
                    /\ e \notin failed' =>
                        /\ ThreadOf[e] # None /\ "session" \notin Range(todo'[e])
                             => sessions'[ThreadOf[e]] # None
                        /\ /\ KindOf[e] = "call" /\ RequestOf[e] # None
                           /\ "call" \notin Range(todo'[e])
                           => calls'[RequestOf[e]] # None
  BY DEF RowsAreIn, Inserted
<1> USE DEF Inv
<1>1. EventStep(e)
  BY EventSteps
<1>2. /\ events \subseteq events' /\ failed \subseteq failed'
      /\ \A t \in Threads : sessions[t] # None => sessions'[t] # None
      /\ \A r \in Requests : calls[r] # None => calls'[r] # None
  BY EventsStay, GivenUpStays, TablesGrow
<1>3. CASE /\ at[e] = "insert" /\ at'[e] = "derive"
           /\ todo'[e] = DerivedRows(e) /\ e \in events'
  <2>1. ThreadOf[e] # None => "session" \in Range(todo'[e])
    BY <1>3, OwnStatements DEF Applies, Statements
  <2>2. RequestOf[e] # None /\ KindOf[e] = "call" => "call" \in Range(todo'[e])
    BY <1>3, OwnStatements DEF Applies, Statements
  <2>. QED BY <1>3, <2>1, <2>2
<1>4. CASE at[e] \in Inserted /\ todo'[e] = todo[e]
  BY <1>2, <1>4 DEF RowsAreIn
<1>5. CASE at[e] = "derive" /\ Derive(e)
  <2>1. /\ todo' = [todo EXCEPT ![e] = Tail(todo[e])]
        /\ Range(todo[e]) = {Head(todo[e])} \cup Range(Tail(todo[e]))
        /\ e \notin failed' => StatementRan(e)
    BY <1>5, DeriveStep
  <2>2. todo'[e] = Tail(todo[e])
    BY <2>1 DEF TypeOK
  <2>3. e \in events'
    BY <1>2, <1>5 DEF RowsAreIn, Inserted
  <2>4. ASSUME e \notin failed', ThreadOf[e] # None,
               "session" \notin Range(todo'[e])
        PROVE  sessions'[ThreadOf[e]] # None
    <3>1. CASE Head(todo[e]) = "session"
      <4>1. UpsertSession(e)
        BY <2>1, <2>4, <3>1 DEF StatementRan
      <4>2. sessions'[ThreadOf[e]] # None
        <5> DEFINE row == [source |-> SourceOf(e),
                           title  |-> IF sessions[ThreadOf[e]] = None THEN None
                                      ELSE sessions[ThreadOf[e]].title]
        <5>1. sessions' = [sessions EXCEPT ![ThreadOf[e]] = row]
          BY <4>1 DEF UpsertSession
        <5>2. row \in SessionRows
          BY <2>4 DEF SessionRows, SourceOf, ProxyOf, TypeOK
        <5> HIDE DEF row
        <5>3. sessions'[ThreadOf[e]] = row
          BY <5>1, <2>4 DEF TypeOK
        <5>. QED BY <5>2, <5>3
      <4>. QED BY <4>2
    <3>2. CASE Head(todo[e]) # "session"
      BY <1>2, <1>5, <2>1, <2>2, <2>4, <3>2 DEF RowsAreIn, Inserted
    <3>. QED BY <3>1, <3>2
  <2>5. ASSUME e \notin failed', KindOf[e] = "call", RequestOf[e] # None,
               "call" \notin Range(todo'[e])
        PROVE  calls'[RequestOf[e]] # None
    <3>1. CASE Head(todo[e]) = "call"
      <4>1. UpsertMCPCall(e)
        BY <2>1, <2>5, <3>1 DEF StatementRan
      <4>2. [proxy |-> ProxyOf(e), completed |-> FALSE] \in CallRows
        BY DEF CallRows, ProxyOf
      <4>. QED BY <4>1, <4>2, <2>5 DEF UpsertMCPCall, TypeOK
    <3>2. CASE Head(todo[e]) # "call"
      BY <1>2, <1>5, <2>1, <2>2, <2>5, <3>2 DEF RowsAreIn, Inserted
    <3>. QED BY <3>1, <3>2
  <2>. QED BY <2>3, <2>4, <2>5
<1>. QED BY <1>1, <1>3, <1>4, <1>5 DEF EventStep, Inserted

LEMMA SendersStep == Inv /\ [Next]_vars => RowsHaveSenders'
<1> DEFINE Sent(t) == \E f \in events' \cap OfThread(t) :
                          sessions'[t].source = SourceOf(f)
           Called(r) == \E f \in events' \cap Calls(r) :
                          calls'[r].proxy = ProxyOf(f)
<1> SUFFICES ASSUME Inv, [Next]_vars
             PROVE  /\ \A t \in Threads : sessions'[t] # None => Sent(t)
                    /\ \A r \in Requests : calls'[r] # None => Called(r)
  BY DEF RowsHaveSenders, OfThread, Calls
<1> USE DEF Inv
<1>1. events \subseteq events'
  BY EventsStay
<1>2. ASSUME NEW t \in Threads, sessions'[t] # None PROVE Sent(t)
  <2>1. CASE sessions'[t] = sessions[t]
    BY <1>1, <1>2, <2>1 DEF RowsHaveSenders
  <2>2. ASSUME NEW g \in Events, Derive(g), sessions'[t] # sessions[t]
        PROVE  Sent(t)
    <3>1. g \in events' /\ Applies(g, Head(todo[g])) /\ StatementRan(g)
      BY <1>1, <2>2, DeriveStep DEF Derive, RowsAreIn, Inserted
    <3>2. CASE Head(todo[g]) = "session" /\ UpsertSession(g)
      <4>1. t = ThreadOf[g] /\ sessions'[t].source = SourceOf(g)
        BY <1>2, <2>2, <3>2 DEF UpsertSession, TypeOK
      <4>. QED BY <3>1, <4>1 DEF OfThread
    <3>3. CASE Head(todo[g]) = "title" /\ SetTitle(g)
      <4>1. /\ sessions[t] \in SessionRows
            /\ sessions' = [sessions EXCEPT ![ThreadOf[g]].title = TitleOf[g]]
            /\ t = ThreadOf[g]
        BY <1>2, <2>2, <3>3 DEF SetTitle, TypeOK
      <4>2. sessions[t] # None /\ sessions'[t].source = sessions[t].source
        BY <4>1 DEF SessionRows, TypeOK
      <4>. QED BY <1>1, <4>2 DEF RowsHaveSenders
    <3>. QED BY <2>2, <3>1, <3>2, <3>3 DEF StatementRan, UpsertMCPCall, CompleteMCPCall
  <2>3. CASE Start /\ sessions'[t] # sessions[t]
    <3>5. ~ \E u \in Threads : sessions[u] # None
      BY <2>3 DEF Start, Backfilled
    <3>6. sessions' =
            [u \in Threads |->
               IF \E e \in events : ThreadOf[e] = u
               THEN [source |-> SourceOf(CHOOSE e \in events : ThreadOf[e] = u),
                     title  |-> None]
               ELSE None]
      BY <2>3, <3>5 DEF Start, Backfilled
    <3>1. sessions'[t] =
            IF \E e \in events : ThreadOf[e] = t
            THEN [source |-> SourceOf(CHOOSE e \in events : ThreadOf[e] = t),
                  title  |-> None]
            ELSE None
      BY <3>6
    <3>2. PICK f \in events : /\ ThreadOf[f] = t
                              /\ f = CHOOSE e \in events : ThreadOf[e] = t
      BY <1>2, <3>1
    <3>3. sessions'[t].source = SourceOf(f)
      BY <3>1, <3>2
    <3>4. f \in events' \cap OfThread(t)
      BY <1>1, <3>2 DEF OfThread, TypeOK
    <3>. QED BY <3>3, <3>4
  <2>4. (\E g \in Events : Derive(g)) \/ Start \/ UNCHANGED sessions
    BY DEF Next, Handler, Post, InsertEvent, PublishAndRespond, GiveUp,
           ContextCancelled, Crash, vars, tables
  <2>. QED BY <2>1, <2>2, <2>3, <2>4
<1>3. ASSUME NEW r \in Requests, calls'[r] # None PROVE Called(r)
  <2>1. CASE calls'[r] = calls[r]
    BY <1>1, <1>3, <2>1 DEF RowsHaveSenders
  <2>2. ASSUME NEW g \in Events, Derive(g), calls'[r] # calls[r]
        PROVE  Called(r)
    <3>1. g \in events' /\ Applies(g, Head(todo[g])) /\ StatementRan(g)
      BY <1>1, <2>2, DeriveStep DEF Derive, RowsAreIn, Inserted
    <3>2. CASE Head(todo[g]) = "call" /\ UpsertMCPCall(g)
      <4>1. r = RequestOf[g] /\ calls'[r].proxy = ProxyOf(g)
        BY <1>3, <2>2, <3>2 DEF UpsertMCPCall, TypeOK
      <4>2. KindOf[g] = "call"
        BY <3>1, <3>2 DEF Applies
      <4>. QED BY <3>1, <4>1, <4>2 DEF Calls
    <3>3. CASE Head(todo[g]) = "complete" /\ CompleteMCPCall(g)
      <4>1. /\ calls[r] \in CallRows
            /\ calls' = [calls EXCEPT ![RequestOf[g]].completed = TRUE]
            /\ r = RequestOf[g]
        BY <1>3, <2>2, <3>3 DEF CompleteMCPCall, TypeOK
      <4>2. calls[r] # None /\ calls'[r].proxy = calls[r].proxy
        BY <4>1 DEF CallRows, TypeOK
      <4>. QED BY <1>1, <4>2 DEF RowsHaveSenders
    <3>. QED BY <2>2, <3>1, <3>2, <3>3 DEF StatementRan, UpsertSession, SetTitle
  <2>3. (\E g \in Events : Derive(g)) \/ UNCHANGED calls
    BY DEF Next, Handler, Post, InsertEvent, PublishAndRespond, GiveUp,
           ContextCancelled, Crash, Start, vars, tables
  <2>. QED BY <2>1, <2>2, <2>3
<1>. QED BY <1>2, <1>3

LEMMA PublishedStep == Inv /\ [Next]_vars => PublishedAreAnswered'
<1> SUFFICES ASSUME Inv, [Next]_vars, NEW e \in published'
             PROVE  at'[e] = "answered"
  BY DEF PublishedAreAnswered
<1> USE DEF Inv
<1>1. ASSUME e \in published PROVE at'[e] = "answered"
  <2>1. e \in Events /\ at[e] = "answered"
    BY <1>1 DEF TypeOK, PublishedAreAnswered
  <2>2. EventStep(e)
    BY <2>1, EventSteps
  <2>. QED BY <2>1, <2>2 DEF EventStep
<1>2. ASSUME NEW g \in Events, PublishAndRespond(g) PROVE at'[e] = "answered"
  <2>1. published' = published \cup {g} /\ at' = [at EXCEPT ![g] = "answered"]
    BY <1>2 DEF PublishAndRespond
  <2>2. e = g \/ e \in published
    BY <2>1
  <2>. QED BY <1>1, <2>1, <2>2 DEF TypeOK
<1>3. ASSUME ~ \E g \in Events : PublishAndRespond(g)
      PROVE  published' \in {{}, published}
  <2>1. UNCHANGED vars => UNCHANGED published
    BY DEF vars
  <2>2. Crash => published' = {}
    BY DEF Crash
  <2>3. ASSUME ~ Crash, ~ UNCHANGED vars PROVE UNCHANGED published
    BY <1>3, <2>3 DEF Next, Handler, Post, InsertEvent, Derive, GiveUp,
                      ContextCancelled, Start
  <2>. QED BY <2>1, <2>2, <2>3
<1>. QED BY <1>1, <1>2, <1>3

\* The worker has ended or given up on every post before one that has begun.
LEMMA EarlierPostsEnded ==
    ASSUME Inv, NEW p \in Proxies, NEW i \in DOMAIN Outbox[p],
           NEW j \in DOMAIN Outbox[p], i < j, at[Outbox[p][j]] # "unsent"
    PROVE  Outbox[p][i] \notin InFlight \ gaveUp
<1>1. i \in Nat /\ j \in Nat /\ next[p] \in Nat
  BY DEF Inv, TypeOK
<1>2. ~ (j > next[p])
  BY DEF Inv, PostsInOrder
<1>3. i < next[p]
  BY <1>1, <1>2
<1>. QED BY <1>3 DEF Inv, PostsInOrder

LEMMA CompletionsStep == Inv /\ [Next]_vars => CompletionsAreIn'
<1> SUFFICES ASSUME Inv, [Next]_vars, NEW p \in Proxies,
                    NEW i \in DOMAIN Outbox[p], NEW j \in DOMAIN Outbox[p],
                    NEW e, e = Outbox[p][i], NEW f, f = Outbox[p][j],
                    i < j, KindOf[e] = "call", KindOf[f] = "reply",
                    RequestOf[e] = RequestOf[f], RequestOf[e] # None,
                    at'[e] = "answered", e \notin gaveUp', e \notin failed',
                    at'[f] \in Inserted, f \notin failed',
                    "complete" \notin Range(todo'[f])
             PROVE  calls'[RequestOf[e]] # None /\ calls'[RequestOf[e]].completed
  BY DEF CompletionsAreIn, Inserted
<1> USE DEF Inv
<1>1. /\ e \in Events /\ f \in Events /\ RequestOf[e] \in Requests
      /\ EventStep(e) /\ EventStep(f)
  <2>1. e \in Events /\ f \in Events
    OBVIOUS
  <2>. QED BY <2>1, EventSteps
<1>2. gaveUp \subseteq gaveUp' /\ failed \subseteq failed'
  BY GivenUpStays
<1>3. at[e] = "answered" /\ todo[e] = << >> /\ e \notin failed
  <2>1. at[f] # "unsent"
    BY <1>1 DEF EventStep, Inserted
  <2>2. e \notin InFlight
    BY <1>2, <2>1, EarlierPostsEnded
  <2>3. at[e] = "answered"
    BY <1>1, <2>2 DEF EventStep, InFlight
  <2>. QED BY <1>1, <1>2, <2>3 DEF TypeOK
<1>4. calls[RequestOf[e]] # None
  <2>1. "call" \notin Range(todo[e])
    BY <1>3 DEF Range
  <2>. QED BY <1>1, <1>3, <2>1 DEF RowsAreIn, Inserted
<1>5. CASE at[f] \in Inserted /\ "complete" \notin Range(todo[f])
  <2>1. calls[RequestOf[e]].completed
    BY <1>2, <1>3, <1>5 DEF CompletionsAreIn
  <2>. QED BY <1>1, <1>4, <2>1, TablesGrow
<1>6. CASE todo'[f] = DerivedRows(f)
  BY <1>1, <1>6, OwnStatements DEF Applies, Statements
<1>7. CASE at[f] = "derive" /\ Derive(f) /\ "complete" \in Range(todo[f])
  <2>1. /\ todo' = [todo EXCEPT ![f] = Tail(todo[f])]
        /\ Range(todo[f]) = {Head(todo[f])} \cup Range(Tail(todo[f]))
        /\ f \notin failed' => StatementRan(f)
    BY <1>1, <1>7, DeriveStep
  <2>2. todo'[f] = Tail(todo[f])
    BY <1>1, <2>1 DEF TypeOK
  <2>3. CompleteMCPCall(f)
    BY <1>7, <2>1, <2>2 DEF StatementRan
  <2> DEFINE row == [calls[RequestOf[e]] EXCEPT !.completed = TRUE]
  <2>4. calls' = [calls EXCEPT ![RequestOf[e]] = row]
    BY <1>4, <2>3 DEF CompleteMCPCall
  <2>5. row \in CallRows /\ row.completed
    <3>1. calls[RequestOf[e]] \in CallRows
      BY <1>1, <1>4 DEF TypeOK
    <3>. QED BY <3>1 DEF CallRows
  <2> HIDE DEF row
  <2>6. calls'[RequestOf[e]] = row
    BY <1>1, <2>4 DEF TypeOK
  <2>. QED BY <2>5, <2>6
<1>8. CASE todo'[f] = todo[f] /\ at[f] \in Inserted
  BY <1>5, <1>8
<1>. QED BY <1>1, <1>5, <1>6, <1>7, <1>8 DEF EventStep, Inserted

LEMMA RenamesStep == Inv /\ [Next]_vars => RenamesAreIn'
<1> SUFFICES ASSUME Inv, [Next]_vars, NEW p \in Proxies,
                    NEW i \in DOMAIN Outbox[p],
                    NEW e, e = Outbox[p][i],
                    KindOf[e] = "rename", ThreadOf[e] # None, TitleOf[e] # None,
                    at'[e] \in Inserted, e \notin failed',
                    "title" \notin Range(todo'[e]), Latest(p, i)'
             PROVE  /\ sessions'[ThreadOf[e]] # None
                    /\ sessions'[ThreadOf[e]].title = TitleOf[e]
  BY DEF RenamesAreIn, Inserted
<1> USE DEF Inv
<1>1. /\ e \in Events /\ ThreadOf[e] \in Threads
      /\ EventStep(e)
  <2>1. e \in Events
    OBVIOUS
  <2>. QED BY <2>1, EventSteps
<1>2. gaveUp \subseteq gaveUp' /\ failed \subseteq failed'
  BY GivenUpStays
<1>3. at[e] # "unsent"
  BY <1>1 DEF EventStep, Inserted
<1>4. Latest(p, i)
  <2> SUFFICES ASSUME NEW f \in Renames(ThreadOf[e]) \ {e}
               PROVE  \/ at[f] \in {"unsent", "refused"}
                      \/ f \notin gaveUp /\ \E j \in 1 .. i - 1 : Outbox[p][j] = f
    BY DEF Latest
  <2>1. f \in Events /\ EventStep(f)
    BY EventSteps DEF Renames
  <2>2. \/ at'[f] \in {"unsent", "refused"}
        \/ f \notin gaveUp' /\ \E j \in 1 .. i - 1 : Outbox[p][j] = f
    BY DEF Latest, Renames
  <2>3. at'[f] \in {"unsent", "refused"} => at[f] \in {"unsent", "refused"}
    BY <2>1 DEF EventStep
  <2>. QED BY <1>2, <2>2, <2>3
<1>5. ASSUME NEW f \in Renames(ThreadOf[e]), at[f] = "derive" PROVE f = e
  <2> SUFFICES ASSUME f # e PROVE FALSE
    OBVIOUS
  <2>1. PICK j \in 1 .. i - 1 : Outbox[p][j] = f /\ f \notin gaveUp
    BY <1>4, <1>5 DEF Latest
  <2>2. j \in DOMAIN Outbox[p] /\ j < i
    OBVIOUS
  <2>3. f \notin InFlight
    BY <1>3, <2>1, <2>2, EarlierPostsEnded
  <2>. QED BY <1>5, <2>3 DEF InFlight, Renames
<1>6. CASE at[e] \in Inserted /\ "title" \notin Range(todo[e])
  <2>1. sessions[ThreadOf[e]] # None /\ sessions[ThreadOf[e]].title = TitleOf[e]
    BY <1>2, <1>4, <1>6 DEF RenamesAreIn
  <2>2. sessions'[ThreadOf[e]] # None /\ TitleStands(ThreadOf[e])
    BY <1>1, <2>1, TablesGrow
  <2>. QED BY <1>5, <2>1, <2>2 DEF TitleStands
<1>7. CASE todo'[e] = DerivedRows(e)
  BY <1>1, <1>7, OwnStatements DEF Applies, Statements
<1>8. CASE at[e] = "derive" /\ Derive(e) /\ "title" \in Range(todo[e])
  <2>1. /\ todo' = [todo EXCEPT ![e] = Tail(todo[e])]
        /\ Range(todo[e]) = {Head(todo[e])} \cup Range(Tail(todo[e]))
        /\ "session" \notin Range(Tail(todo[e]))
        /\ e \notin failed' => StatementRan(e)
    BY <1>1, <1>8, DeriveStep
  <2>2. todo'[e] = Tail(todo[e])
    BY <1>1, <2>1 DEF TypeOK
  <2>3. Head(todo[e]) = "title"
    BY <1>8, <2>1, <2>2
  <2>4. SetTitle(e)
    BY <2>1, <2>3 DEF StatementRan
  <2>5. sessions[ThreadOf[e]] # None
    BY <1>1, <1>2, <1>8, <2>1, <2>3 DEF RowsAreIn, Inserted
  <2> DEFINE row == [sessions[ThreadOf[e]] EXCEPT !.title = TitleOf[e]]
  <2>6. sessions' = [sessions EXCEPT ![ThreadOf[e]] = row]
    BY <2>4, <2>5 DEF SetTitle
  <2>7. row \in SessionRows /\ row.title = TitleOf[e]
    <3>1. sessions[ThreadOf[e]] \in SessionRows
      BY <1>1, <2>5 DEF TypeOK
    <3>2. TitleOf[e] \in Titles
      BY <1>1
    <3>. QED BY <3>1, <3>2 DEF SessionRows
  <2> HIDE DEF row
  <2>8. sessions'[ThreadOf[e]] = row
    BY <1>1, <2>6 DEF TypeOK
  <2>. QED BY <2>7, <2>8
<1>9. CASE todo'[e] = todo[e] /\ at[e] \in Inserted
  BY <1>6, <1>9
<1>. QED BY <1>1, <1>6, <1>7, <1>8, <1>9 DEF EventStep, Inserted

-----------------------------------------------------------------------------
(* The theorems.                                                           *)

\* The inductive invariant holds of every reachable state of the ingest path.
THEOREM InvHolds == Spec => []Inv
<1>1. Inv /\ [Next]_vars => Inv'
  BY TypeStep, PostsStep, StatementsStep, RowsStep, SendersStep, PublishedStep,
     CompletionsStep, RenamesStep DEF Inv
<1>. QED BY InvInit, <1>1, PTL DEF Spec

\* The tables, the handlers and the posts keep their types, and nothing is
\* published that is not in the store.
THEOREM TypeCorrect == Spec => []TypeOK
BY InvHolds, PTL DEF Inv

\* An event answered with 200 is stored, and has its rows unless a statement of
\* its own failed: the row of its thread is of a client of the thread, and the
\* row under its request id of a client that called under it. No interleaving
\* of handlers, failure of another event's statements, crash or restart takes
\* that back.
THEOREM AcknowledgedIsIndexed == Spec => []AcknowledgedEventsAreIndexed
<1>1. Inv => AcknowledgedEventsAreIndexed
  <2> SUFFICES ASSUME Inv, NEW e \in Events, at[e] = "answered"
               PROVE  /\ e \in events
                      /\ ThreadOf[e] # None /\ e \notin failed =>
                            /\ sessions[ThreadOf[e]] # None
                            /\ sessions[ThreadOf[e]].source \in
                                 {SourceOf(f) : f \in events \cap OfThread(ThreadOf[e])}
                      /\ KindOf[e] = "call" /\ RequestOf[e] # None /\ e \notin failed =>
                            /\ calls[RequestOf[e]] # None
                            /\ calls[RequestOf[e]].proxy \in
                                 {ProxyOf(f) : f \in events \cap Calls(RequestOf[e])}
    BY DEF AcknowledgedEventsAreIndexed
  <2>1. todo[e] = << >>
    BY DEF Inv, TypeOK
  <2>2. Range(todo[e]) = {}
    BY <2>1 DEF Range
  <2>3. /\ e \in events
        /\ ThreadOf[e] # None /\ e \notin failed => sessions[ThreadOf[e]] # None
        /\ KindOf[e] = "call" /\ RequestOf[e] # None /\ e \notin failed
             => calls[RequestOf[e]] # None
    BY <2>2 DEF Inv, RowsAreIn, Inserted
  <2>. QED BY <2>3 DEF Inv, RowsHaveSenders
<1>. QED BY InvHolds, <1>1, PTL

\* The broker is handed an event only after UpsertSession ran for it, so that
\* its thread has a row unless a statement of the event failed.
THEOREM LiveIsListed == Spec => []LiveThreadsAreListed
<1>1. Inv => LiveThreadsAreListed
  <2> SUFFICES ASSUME Inv, NEW e \in published \ failed, ThreadOf[e] # None
               PROVE  sessions[ThreadOf[e]] # None
    BY DEF LiveThreadsAreListed
  <2>1. e \in Events /\ at[e] = "answered" /\ todo[e] = << >>
    BY DEF Inv, TypeOK, PublishedAreAnswered
  <2>2. Range(todo[e]) = {}
    BY <2>1 DEF Range
  <2>. QED BY <2>1, <2>2 DEF Inv, RowsAreIn, Inserted
<1>. QED BY InvHolds, <1>1, PTL

\* writeSessionTitle and UpsertSession never take a title away but for a
\* rename of the same thread.
THEOREM TitlesYieldToRenames == Spec => TitleGivesWayToRenamesOnly
<1> DEFINE Stands(t) == sessions[t] # None /\ sessions[t].title # None =>
               /\ sessions'[t] # None
               /\ sessions'[t].title \in
                    {sessions[t].title} \cup {TitleOf[e] : e \in Renames(t)}
<1>1. Inv /\ [Next]_vars => \A t \in Threads : Stands(t)
  <2> SUFFICES ASSUME Inv, [Next]_vars, NEW t \in Threads,
                      sessions[t] # None, sessions[t].title # None
               PROVE  /\ sessions'[t] # None
                      /\ sessions'[t].title \in
                           {sessions[t].title} \cup {TitleOf[e] : e \in Renames(t)}
    OBVIOUS
  <2>1. sessions'[t] # None /\ TitleStands(t)
    BY TablesGrow DEF Inv
  <2>. QED BY <2>1 DEF TitleStands
<1>. QED BY InvHolds, <1>1, PTL DEF Spec, TitleGivesWayToRenamesOnly

\* The latest rename of a thread, if no statement of it failed, stands for any
\* other titles that race it.
THEOREM LatestRenameWins == Spec => []LatestRenameStands
<1>1. Inv => LatestRenameStands
  <2> SUFFICES ASSUME Inv, NEW p \in Proxies, NEW i \in DOMAIN Outbox[p],
                      NEW e, e = Outbox[p][i],
                      KindOf[e] = "rename", ThreadOf[e] # None, TitleOf[e] # None,
                      at[e] = "answered", e \notin failed, Latest(p, i)
               PROVE  sessions[ThreadOf[e]].title = TitleOf[e]
    BY DEF LatestRenameStands, Latest
  <2>1. e \in Events
    OBVIOUS
  <2>2. todo[e] = << >>
    BY <2>1 DEF Inv, TypeOK
  <2>3. Range(todo[e]) = {}
    BY <2>2 DEF Range
  <2>. QED BY <2>2, <2>3 DEF Inv, RenamesAreIn, Inserted
<1>. QED BY InvHolds, <1>1, PTL

\* UpsertMCPCall never takes back what CompleteMCPCall wrote, and no answer's
\* statement runs before its call's: if none of the two's fails, the row is
\* completed.
THEOREM AnsweredIsCompleted == Spec => []AnsweredCallsAreCompleted
<1>1. Inv => AnsweredCallsAreCompleted
  <2> SUFFICES ASSUME Inv, NEW p \in Proxies,
                      NEW i \in DOMAIN Outbox[p], NEW j \in DOMAIN Outbox[p],
                      NEW e, e = Outbox[p][i], NEW f, f = Outbox[p][j],
                      i < j, KindOf[e] = "call", KindOf[f] = "reply",
                      RequestOf[e] = RequestOf[f], RequestOf[e] # None,
                      e \notin gaveUp,
                      \A g \in {e, f} : at[g] = "answered" /\ g \notin failed
               PROVE  calls[RequestOf[e]] # None /\ calls[RequestOf[e]].completed
    BY DEF AnsweredCallsAreCompleted
  <2>1. f \in Events
    OBVIOUS
  <2>2. todo[f] = << >>
    BY <2>1 DEF Inv, TypeOK
  <2>3. Range(todo[f]) = {}
    BY <2>2 DEF Range
  <2>. QED BY <2>2, <2>3 DEF Inv, CompletionsAreIn, Inserted
<1>. QED BY InvHolds, <1>1, PTL
=============================================================================
