------------------------------- MODULE Ingest -------------------------------
(***************************************************************************)
(* The hub's ingest path (src/internal/hub/http/ingest.go) over its SQLite *)
(* store: every handler runs its statements one by one, each committed on  *)
(* its own, under the request's context, with the errors of the derived    *)
(* rows swallowed.  A statement fails when that context is cancelled, and  *)
(* may fail for reasons of the store's own: a busy database, a full disk.  *)
(* Handlers of several proxies interleave; a proxy posts its events in     *)
(* order and gives up on a post after 2 s; the hub may crash between any   *)
(* two statements and be started again (app.go).                           *)
(***************************************************************************)
EXTENDS Integers, Sequences, FiniteSets

CONSTANTS
    Events,      \* envelopes
    Proxies,
    Threads,
    Requests,    \* JSON-RPC ids: every client counts its own from the start
    Titles,
    None,        \* the empty thread, request, title; a missing row
    Outbox,      \* per proxy, the envelopes its worker ships, in order
    KindOf,      \* call, reply, rename, configured, message, other
    ThreadOf,
    RequestOf,
    TitleOf,     \* the thread name, or the summary of the message
    MaxCrashes,  \* bound
    MaxGiveUps,  \* bound
    Faulty       \* bound: the events that a fault of the store's own may hit

\* What the derived tables hold of a thread and of a call.
SessionRows == [source : Proxies, title : Titles \cup {None}]
CallRows    == [proxy : Proxies, completed : BOOLEAN]

Kinds == {"call", "reply", "rename", "configured", "message", "other"}

ASSUME IngestAssumption ==
    /\ Outbox \in [Proxies -> Seq(Events)]
    /\ \A p, q \in Proxies : \A i \in DOMAIN Outbox[p], j \in DOMAIN Outbox[q] :
          Outbox[p][i] = Outbox[q][j] => p = q /\ i = j
    /\ \A e \in Events : \E p \in Proxies : \E i \in DOMAIN Outbox[p] : e = Outbox[p][i]
    /\ KindOf \in [Events -> Kinds]
    /\ ThreadOf \in [Events -> Threads \cup {None}]
    /\ RequestOf \in [Events -> Requests \cup {None}]
    /\ TitleOf \in [Events -> Titles \cup {None}]
    /\ None \notin Threads \cup Requests \cup Titles \cup SessionRows \cup CallRows
    /\ MaxCrashes \in Nat /\ MaxGiveUps \in Nat /\ Faulty \subseteq Events

VARIABLES
    next,       \* per proxy, how many envelopes its worker has posted
    at,         \* per event, where its handler is
    todo,       \* per event, the derived-row statements still to run
    gaveUp,     \* the posts whose proxy stopped waiting
    cancelled,  \* the requests whose context the server cancelled for it
    events,     \* table events
    sessions,   \* table sessions, by thread
    calls,      \* table mcp_calls, by request id
    published,  \* what this hub process handed to its broker
    up,         \* the hub process runs
    crashes,    \* bound counter
    failed      \* history: the events of which a statement failed

handlerVars == <<at, todo>>
clientVars  == <<next, gaveUp>>
tables      == <<events, sessions, calls>>
vars        == <<clientVars, handlerVars, cancelled, tables, published, up, crashes, failed>>

ProxyOf(e)  == CHOOSE p \in Proxies : \E i \in DOMAIN Outbox[p] : Outbox[p][i] = e
SourceOf(e) == ProxyOf(e)   \* a proxy keeps the source key it registered with
Renames(t)  == {e \in Events : KindOf[e] = "rename" /\ ThreadOf[e] = t}
Calls(r)    == {e \in Events : KindOf[e] = "call" /\ RequestOf[e] = r}
OfThread(t) == {e \in Events : ThreadOf[e] = t}

Statements == {"session", "title", "call", "complete"}

\* Mutant of Applies: sessions start with session_configured only.
AppliesConfiguredOnly(e, s) ==
    CASE s = "session"  -> ThreadOf[e] # None /\ KindOf[e] = "configured"
      [] s = "title"    -> ThreadOf[e] # None /\ TitleOf[e] # None
      [] s = "call"     -> RequestOf[e] # None /\ KindOf[e] = "call"
      [] s = "complete" -> RequestOf[e] # None /\ KindOf[e] = "reply"

\* The conditions of derivePersistentRows and writeSessionTitle.
Applies(e, s) ==
    CASE s = "session"  -> ThreadOf[e] # None
      [] s = "title"    -> ThreadOf[e] # None /\ TitleOf[e] # None
      [] s = "call"     -> RequestOf[e] # None /\ KindOf[e] = "call"
      [] s = "complete" -> RequestOf[e] # None /\ KindOf[e] = "reply"

\* The statements an event runs, in the order of derivePersistentRows.
DerivedRows(e) ==
    LET row(s) == IF Applies(e, s) THEN <<s>> ELSE << >>
    IN  row("session") \o row("title") \o row("call") \o row("complete")

InFlight == {e \in Events : at[e] \in {"insert", "derive"}}

Init ==
    /\ next      = [p \in Proxies |-> 0]
    /\ at        = [e \in Events |-> "unsent"]
    /\ todo      = [e \in Events |-> << >>]
    /\ gaveUp    = {}
    /\ cancelled = {}
    /\ events    = {}
    /\ sessions  = [t \in Threads |-> None]
    /\ calls     = [r \in Requests |-> None]
    /\ published = {}
    /\ up        = TRUE
    /\ crashes   = 0
    /\ failed    = {}

-----------------------------------------------------------------------------
(* The proxies.                                                            *)

Settled(p) ==
    next[p] > 0 => \/ Outbox[p][next[p]] \notin InFlight
                   \/ Outbox[p][next[p]] \in gaveUp

\* The worker posts its next envelope: a handler starts, or, with the hub
\* down, the post fails at once and is not retried.
Post(p) ==
    /\ next[p] < Len(Outbox[p])
    /\ Settled(p)
    /\ LET e == Outbox[p][next[p] + 1] IN
       at' = [at EXCEPT ![e] = IF up THEN "insert" ELSE "refused"]
    /\ next' = [next EXCEPT ![p] = @ + 1]
    /\ UNCHANGED <<todo, gaveUp, cancelled, tables, published, up, crashes, failed>>

\* ship's 2 s are over.
GiveUp(e) ==
    /\ e \in InFlight \ gaveUp
    /\ Cardinality(gaveUp) < MaxGiveUps
    /\ gaveUp' = gaveUp \cup {e}
    /\ UNCHANGED <<next, handlerVars, cancelled, tables, published, up, crashes, failed>>

\* The server notices the closed connection and cancels r.Context(), or never
\* does before the handler ends.
ContextCancelled(e) ==
    /\ e \in (InFlight \cap gaveUp) \ cancelled
    /\ cancelled' = cancelled \cup {e}
    /\ UNCHANGED <<clientVars, handlerVars, tables, published, up, crashes, failed>>

-----------------------------------------------------------------------------
(* eventsHandler.                                                          *)

\* A statement under a live context may succeed; any may fail.
MaySucceed(e) == e \notin cancelled
MayFail(e)    == e \in cancelled \cup Faulty

\* AppendEventReturningID; an error is a 500 and the end.
InsertEvent(e) ==
    /\ at[e] = "insert"
    /\ \/ /\ MaySucceed(e)
          /\ events' = events \cup {e}
          /\ todo'   = [todo EXCEPT ![e] = DerivedRows(e)]
          /\ at'     = [at EXCEPT ![e] = "derive"]
          /\ UNCHANGED failed
       \/ /\ MayFail(e)
          /\ at'     = [at EXCEPT ![e] = "rejected"]
          /\ failed' = failed \cup {e}
          /\ UNCHANGED <<events, todo>>
    /\ UNCHANGED <<clientVars, cancelled, sessions, calls, published, up, crashes>>

\* UpsertSession: the last writer's source wins, the title is kept.
UpsertSession(e) ==
    LET t == ThreadOf[e] IN
    /\ sessions' = [sessions EXCEPT ![t] =
                      [source |-> SourceOf(e),
                       title  |-> IF @ = None THEN None ELSE @.title]]
    /\ UNCHANGED calls

\* Mutant of SetTitle: every title event overwrites.
SetTitleAlways(e) ==
    LET t == ThreadOf[e] IN
    /\ sessions' = IF sessions[t] # None
                   THEN [sessions EXCEPT ![t].title = TitleOf[e]]
                   ELSE sessions
    /\ UNCHANGED calls

\* Mutant of SetTitle: no title event overwrites.
SetTitleIfEmpty(e) ==
    LET t == ThreadOf[e] IN
    /\ sessions' = IF sessions[t] # None /\ sessions[t].title = None
                   THEN [sessions EXCEPT ![t].title = TitleOf[e]]
                   ELSE sessions
    /\ UNCHANGED calls

\* writeSessionTitle: an UPDATE, always for a rename, else if still empty.
SetTitle(e) ==
    LET t == ThreadOf[e] IN
    /\ sessions' = IF /\ sessions[t] # None
                      /\ KindOf[e] = "rename" \/ sessions[t].title = None
                   THEN [sessions EXCEPT ![t].title = TitleOf[e]]
                   ELSE sessions
    /\ UNCHANGED calls

\* Mutant of UpsertMCPCall: a conflict resets the completion.
UpsertMCPCallResets(e) ==
    LET r == RequestOf[e] IN
    /\ calls' = [calls EXCEPT ![r] =
                   IF @ = None THEN [proxy |-> ProxyOf(e), completed |-> FALSE]
                               ELSE [@ EXCEPT !.completed = FALSE]]
    /\ UNCHANGED sessions

\* UpsertMCPCall: a conflict on the request id keeps the row's proxy, tool and
\* start, and COALESCE keeps its completion.
UpsertMCPCall(e) ==
    LET r == RequestOf[e] IN
    /\ calls' = [calls EXCEPT ![r] =
                   IF @ = None THEN [proxy |-> ProxyOf(e), completed |-> FALSE]
                               ELSE @]
    /\ UNCHANGED sessions

\* CompleteMCPCall: an UPDATE by request id alone.
CompleteMCPCall(e) ==
    LET r == RequestOf[e] IN
    /\ calls' = IF calls[r] # None
                THEN [calls EXCEPT ![r].completed = TRUE]
                ELSE calls
    /\ UNCHANGED sessions

Run(e, s) ==
    CASE s = "session"  -> UpsertSession(e)
      [] s = "title"    -> SetTitle(e)
      [] s = "call"     -> UpsertMCPCall(e)
      [] s = "complete" -> CompleteMCPCall(e)

\* One statement of derivePersistentRows; its error is swallowed.
Derive(e) ==
    /\ at[e] = "derive"
    /\ todo[e] # << >>
    /\ todo' = [todo EXCEPT ![e] = Tail(@)]
    /\ \/ /\ MaySucceed(e)
          /\ Run(e, Head(todo[e]))
          /\ UNCHANGED failed
       \/ /\ MayFail(e)
          /\ failed' = failed \cup {e}
          /\ UNCHANGED <<sessions, calls>>
    /\ UNCHANGED <<clientVars, at, cancelled, events, published, up, crashes>>

\* Mutant of PublishAndRespond: the event is published before its rows are in.
PublishEarly(e) ==
    /\ at[e] = "derive"
    /\ published' = published \cup {e}
    /\ at'        = [at EXCEPT ![e] = "answered"]
    /\ UNCHANGED <<clientVars, todo, cancelled, tables, up, crashes, failed>>

\* Publish, then 200: also when the context is cancelled.
PublishAndRespond(e) ==
    /\ at[e] = "derive"
    /\ todo[e] = << >>
    /\ published' = published \cup {e}
    /\ at'        = [at EXCEPT ![e] = "answered"]
    /\ UNCHANGED <<clientVars, todo, cancelled, tables, up, crashes, failed>>

-----------------------------------------------------------------------------
(* The hub process.                                                        *)

\* The handlers die where they are; the broker's ring and channels go too.
Crash ==
    /\ up
    /\ crashes < MaxCrashes
    /\ up'        = FALSE
    /\ crashes'   = crashes + 1
    /\ at'        = [e \in Events |-> IF e \in InFlight THEN "dead" ELSE at[e]]
    /\ todo'      = [e \in Events |-> << >>]
    /\ published' = {}
    /\ UNCHANGED <<clientVars, cancelled, tables, failed>>

\* BackfillSessionsFromEvents does nothing once there is any session.
Backfilled ==
    IF \E t \in Threads : sessions[t] # None
    THEN sessions
    ELSE [t \in Threads |->
            IF \E e \in events : ThreadOf[e] = t
            THEN [source |-> SourceOf(CHOOSE e \in events : ThreadOf[e] = t),
                  title  |-> None]
            ELSE None]

\* NewApp, which goes on when the backfill fails.
Start ==
    /\ ~up
    /\ up' = TRUE
    /\ sessions' \in {Backfilled, sessions}
    /\ UNCHANGED <<clientVars, handlerVars, cancelled, events, calls, published,
                   crashes, failed>>

Handler(e) == InsertEvent(e) \/ Derive(e) \/ PublishAndRespond(e)

Next ==
    \/ \E p \in Proxies : Post(p)
    \/ \E e \in Events : Handler(e) \/ GiveUp(e) \/ ContextCancelled(e)
    \/ Crash
    \/ Start

Spec == Init /\ [][Next]_vars

-----------------------------------------------------------------------------

TypeOK ==
    /\ next \in [Proxies -> Nat] /\ \A p \in Proxies : next[p] <= Len(Outbox[p])
    /\ at \in [Events -> {"unsent", "refused", "insert", "rejected", "derive",
                          "answered", "dead"}]
    /\ todo \in [Events -> Seq(Statements)]
    /\ \A e \in Events : todo[e] # << >> => at[e] = "derive"
    /\ gaveUp \subseteq Events /\ cancelled \subseteq gaveUp
    /\ events \subseteq Events /\ published \subseteq events
    /\ sessions \in [Threads -> SessionRows \cup {None}]
    /\ calls \in [Requests -> CallRows \cup {None}]
    /\ up \in BOOLEAN /\ crashes \in 0 .. MaxCrashes
    /\ failed \subseteq Events

\* An event answered with 200 is in the store, and stays. If none of its own
\* statements failed, its thread is listed under a client that has sent events
\* of it, and there is a row under its call's request id, of a client that has
\* called under that id: the event's own when no other client has, else maybe
\* another's (mcp_calls.sql:6). What other events' failures, handlers of other
\* clients, a crash or a restart do takes none of it back.
AcknowledgedEventsAreIndexed ==
    \A e \in Events : at[e] = "answered" =>
        /\ e \in events
        /\ ThreadOf[e] # None /\ e \notin failed =>
              /\ sessions[ThreadOf[e]] # None
              /\ sessions[ThreadOf[e]].source \in
                    {SourceOf(f) : f \in events \cap OfThread(ThreadOf[e])}
        /\ KindOf[e] = "call" /\ RequestOf[e] # None /\ e \notin failed =>
              /\ calls[RequestOf[e]] # None
              /\ calls[RequestOf[e]].proxy \in
                    {ProxyOf(f) : f \in events \cap Calls(RequestOf[e])}

\* A browser that is told of an event live finds its thread in the sessions
\* list, unless one of the event's own statements failed.
LiveThreadsAreListed ==
    \A e \in published \ failed :
        ThreadOf[e] # None => sessions[ThreadOf[e]] # None

\* A title once set gives way only to a rename of the same thread
\* (store.go:387-403), whatever handlers interleave and wherever they fail.
TitleGivesWayToRenamesOnly ==
    [][\A t \in Threads :
         sessions[t] # None /\ sessions[t].title # None =>
            /\ sessions'[t] # None
            /\ sessions'[t].title \in
                 {sessions[t].title} \cup {TitleOf[e] : e \in Renames(t)}]_vars

\* The thread shows its latest rename, when no statement of it failed, the
\* renames before it were not given up on and none has followed.
LatestRenameStands ==
    \A p \in Proxies : \A i \in DOMAIN Outbox[p] :
        LET e == Outbox[p][i] IN
        /\ KindOf[e] = "rename" /\ ThreadOf[e] # None /\ TitleOf[e] # None
        /\ at[e] = "answered" /\ e \notin failed
        /\ \A f \in Renames(ThreadOf[e]) \ {e} :
              \/ at[f] \in {"unsent", "refused"}
              \/ f \notin gaveUp /\ \E j \in 1 .. i - 1 : Outbox[p][j] = f
        => sessions[ThreadOf[e]].title = TitleOf[e]

\* A call whose request was taken in time and later answered is not shown as
\* running when no statement of the two failed, whoever else uses the same
\* request id.
AnsweredCallsAreCompleted ==
    \A p \in Proxies : \A i, j \in DOMAIN Outbox[p] :
        LET e == Outbox[p][i]
            f == Outbox[p][j]
        IN  /\ i < j /\ KindOf[e] = "call" /\ KindOf[f] = "reply"
            /\ RequestOf[e] = RequestOf[f] /\ RequestOf[e] # None
            /\ e \notin gaveUp
            /\ \A g \in {e, f} : at[g] = "answered" /\ g \notin failed
            => calls[RequestOf[e]] # None /\ calls[RequestOf[e]].completed
=============================================================================
