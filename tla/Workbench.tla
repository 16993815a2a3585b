------------------------------ MODULE Workbench ------------------------------
(***************************************************************************)
(* The dashboard tab over the hub's lists: LiveSessionWorkbench and        *)
(* SessionWorkbench (session-workbench.tsx), resolveThreadSelection        *)
(* (thread-selection.ts), useHashThreadId (use-hash-thread-id.ts), the     *)
(* sidebar and what useSessionHistory hands the pane.                      *)
(*                                                                         *)
(* The tab polls the sources, then one list of sessions per source, in     *)
(* separate requests; it caches the lists under the sources' keys in their *)
(* order; it resolves the hash against those snapshots, and an effect      *)
(* writes the hash when it falls back to another thread.                   *)
(*                                                                         *)
(* A list ordered by last_seen_at is a function from its members to their  *)
(* places, 1 first.  Of a list of sessions the tab's decisions need only   *)
(* the members and the first row.                                          *)
(***************************************************************************)
EXTENDS Naturals, FiniteSets

CONSTANTS
    Sources,     \* client sources, by source_key
    Threads,     \* sessions, by thread_id
    None,        \* no thread
    MaxSteps     \* bound: registrations, events of threads, clicks,
                 \* navigations and failed requests, together

ASSUME WorkbenchAssumption ==
    /\ None \notin Threads
    /\ MaxSteps \in Nat

VARIABLES
    registered,  \* the hub's sources, in their places
    recent,      \* its sessions, in their places over all sources
    home,        \* the source each session was last heard of from
    hash,        \* #thread= in the location
    value,       \* the state of useHashThreadId
    polled,      \* the sources query has data
    sources,     \* that data
    answer,      \* the answer of its request in flight, if the hub has given it
    cache,       \* the data of the sessions queries, by the sources they are for
    fetch,       \* the answers of those in flight
    pollFailed,  \* the sources query is in error
    failed,      \* the sessions queries in error
    view,        \* what is rendered
    due,         \* the effects of that render have not run
    follows,     \* the thread useSessionHistory's effect is for
    hist,        \* the thread of its state
    link,        \* history: the hash the page was loaded with, if it named a
                 \* listed thread that has not moved since, and the user has
                 \* chosen no other; else None
    left         \* what is left of MaxSteps

hubVars   == <<registered, recent, home>>
queryVars == <<polled, sources, answer, cache, fetch, pollFailed, failed>>
histVars  == <<follows, hist>>
vars == <<hubVars, hash, value, queryVars, view, due, histVars, link, left>>

-----------------------------------------------------------------------------
(* Lists.                                                                  *)

\* x is inserted, or updated, with the latest last_seen_at.
MoveToFront(f, x) ==
    [y \in DOMAIN f \cup {x} |->
        CASE y = x -> 1
          [] y # x /\ (x \notin DOMAIN f \/ f[y] < f[x]) -> f[y] + 1
          [] OTHER -> f[y]]

Front(f, S) == CHOOSE x \in S : \A y \in S : f[x] <= f[y]

\* ListSessionsBySource
SessionsForSource(s) ==
    LET S == {t \in DOMAIN home : home[t] = s}
    IN  [threads |-> S, first |-> IF S = {} THEN None ELSE Front(recent, S)]

\* The threads a tab can be told of: those of registered sources.
Listable == {t \in DOMAIN home : home[t] \in DOMAIN registered}

-----------------------------------------------------------------------------
(* Selection.                                                              *)

NoData == [s \in {} |-> None]

\* sessionsBySource: the data of the query for the sources at hand, if any.
Data == IF sources \in DOMAIN cache THEN cache[sources] ELSE NoData

RowsOf(s) == IF s \in DOMAIN Data THEN Data[s].threads ELSE {}

\* Mutant: only the first source is looked through.
FrontHasThread(t) ==
    DOMAIN sources # {} /\ t \in RowsOf(Front(sources, DOMAIN sources))

HasThread(t) == \E s \in DOMAIN sources : t \in RowsOf(s)

FirstAvailableThread ==
    LET S == {s \in DOMAIN sources : RowsOf(s) # {}}
    IN  IF S = {} THEN None ELSE Data[Front(sources, S)].first

Resolved ==
    IF value # None /\ HasThread(value)
    THEN [thread |-> value, write |-> FALSE]
    ELSE [thread |-> FirstAvailableThread,
          write  |-> FirstAvailableThread \notin {None, value}]

SidebarState ==
    IF \/ ~polled /\ ~pollFailed
       \/ sources \notin DOMAIN cache \cup failed /\ DOMAIN sources # {}
    THEN "loading"
    ELSE IF pollFailed \/ sources \in failed THEN "error"
    ELSE IF DOMAIN sources = {} THEN "empty" ELSE "ready"

\* Mutant: the state is shown whoever it is of.
AnyRows(t) == {hist} \ {None}

\* visibleState: another thread's state is not shown.  What historyCache has of
\* t then is left out.
VisibleRows(t) == IF hist = t THEN {hist} \ {None} ELSE {}

\* The detail, if it has come, or the thread's row.
SelectedSession(t, detail) == IF detail = t \/ HasThread(t) THEN t ELSE None

\* Whom the header and the transcript are about.
Described(t, detail) == IF t = None THEN None ELSE SelectedSession(t, detail)

-----------------------------------------------------------------------------

Spend == left > 0 /\ left' = left - 1

\* The page is loaded, over whatever the hub holds.
Init ==
    /\ registered \in UNION {{f \in [S -> 1 .. Cardinality(S)] :
                                \A x, y \in S : f[x] = f[y] => x = y} :
                             S \in SUBSET Sources}
    /\ recent \in UNION {{f \in [S -> 1 .. Cardinality(S)] :
                             \A x, y \in S : f[x] = f[y] => x = y} :
                         S \in SUBSET Threads}
    /\ home \in [DOMAIN recent -> Sources]
    /\ hash \in Threads \cup {None}
    /\ value = hash
    /\ polled = FALSE
    /\ sources = NoData
    /\ answer = {}
    /\ cache = NoData
    /\ fetch = NoData
    /\ pollFailed = FALSE
    /\ failed = {}
    /\ view = [thread |-> None, write |-> FALSE, rows |-> {}, about |-> None,
               sidebar |-> "loading", listed |-> {}]
    /\ due = FALSE
    /\ follows = None
    /\ hist = None
    /\ link = IF hash \in Listable THEN hash ELSE None
    /\ left = MaxSteps

-----------------------------------------------------------------------------
(* The hub.                                                                *)

Register(s) ==
    /\ Spend
    /\ registered' = MoveToFront(registered, s)
    /\ UNCHANGED <<recent, home, hash, value, queryVars, view, due, histVars,
                   link>>

\* An event of thread t from a proxy of source s: UpsertSession.  The proxy's
\* registration may have failed, or failed half way; nobody asks.
SessionEvent(s, t) ==
    /\ Spend
    /\ recent' = MoveToFront(recent, t)
    /\ home' = [u \in DOMAIN home \cup {t} |-> IF u = t THEN s ELSE home[u]]
    /\ link' = IF t = link /\ home[t] # s THEN None ELSE link
    /\ UNCHANGED <<registered, hash, value, queryVars, view, due, histVars>>

-----------------------------------------------------------------------------
(* The user and the browser.                                               *)

SetHash(t) == hash' = t /\ value' = t

\* The sidebar has rows only if there is nothing else to say.
Clickable == IF view.sidebar = "ready" THEN view.listed ELSE {}

Click(t) ==
    /\ t \in Clickable
    /\ Spend
    /\ SetHash(t)
    /\ link' = None
    /\ UNCHANGED <<hubVars, queryVars, view, due, histVars>>

Navigate(t) ==
    /\ Spend
    /\ hash' = t
    /\ link' = None
    /\ UNCHANGED <<hubVars, value, queryVars, view, due, histVars>>

\* Mutant: the hook reads the hash only once.
HashChangeUnheard ==
    /\ value # hash
    /\ UNCHANGED vars

HashChange ==
    /\ value # hash
    /\ value' = hash
    /\ UNCHANGED <<hubVars, hash, queryVars, view, due, histVars, link, left>>

-----------------------------------------------------------------------------
(* The queries.                                                            *)

\* The hub reads the sources for the request in flight.  A poll that brings
\* nothing new changes nothing, whenever it arrives: it is left out.
ReadSources ==
    /\ answer = {}
    /\ ~polled \/ pollFailed \/ registered # sources
    /\ answer' = {registered}
    /\ UNCHANGED <<hubVars, hash, value, polled, sources, cache, fetch, pollFailed,
                   failed, view, due, histVars, link, left>>

\* They arrive, and may be old by then.
SourcesArrive ==
    /\ \E list \in answer : sources' = list
    /\ answer' = {}
    /\ polled' = TRUE
    /\ pollFailed' = FALSE
    /\ UNCHANGED <<hubVars, hash, value, cache, fetch, failed, view, due, histVars,
                   link, left>>

SourcesFail ==
    /\ Spend
    /\ answer' = {}
    /\ pollFailed' = TRUE
    /\ UNCHANGED <<hubVars, hash, value, polled, sources, cache, fetch, failed,
                   view, due, histVars, link>>

\* A query in error that has no data is pending again while it fetches.
StartFetch ==
    /\ DOMAIN sources # {} /\ sources \notin DOMAIN fetch
    /\ fetch' = [k \in DOMAIN fetch \cup {sources} |->
                    IF k = sources THEN NoData ELSE fetch[k]]
    /\ failed' = IF sources \in DOMAIN cache THEN failed ELSE failed \ {sources}
    /\ UNCHANGED <<hubVars, hash, value, polled, sources, answer, cache, pollFailed,
                   view, due, histVars, link, left>>

\* The hub answers one of the requests; they run side by side.
ReadSessions(k, s) ==
    /\ s \in DOMAIN k \ DOMAIN fetch[k]
    /\ fetch' = [fetch EXCEPT ![k] =
                    [r \in DOMAIN fetch[k] \cup {s} |->
                        IF r = s THEN SessionsForSource(s) ELSE fetch[k][r]]]
    /\ UNCHANGED <<hubVars, hash, value, polled, sources, answer, cache, pollFailed,
                   failed, view, due, histVars, link, left>>

Without(f, k) == [j \in DOMAIN f \ {k} |-> f[j]]

\* Mutant: the first answers are taken for all.
SessionsArriveEarly(k) ==
    /\ DOMAIN fetch[k] # {}
    /\ cache' = [j \in DOMAIN cache \cup {k} |->
                    IF j = k THEN fetch[k] ELSE cache[j]]
    /\ fetch' = Without(fetch, k)
    /\ failed' = failed \ {k}
    /\ UNCHANGED <<hubVars, hash, value, polled, sources, answer, pollFailed, view,
                   due, histVars, link, left>>

SessionsArrive(k) ==
    /\ DOMAIN fetch[k] = DOMAIN k
    /\ cache' = [j \in DOMAIN cache \cup {k} |->
                    IF j = k THEN fetch[k] ELSE cache[j]]
    /\ fetch' = Without(fetch, k)
    /\ failed' = failed \ {k}
    /\ UNCHANGED <<hubVars, hash, value, polled, sources, answer, pollFailed, view,
                   due, histVars, link, left>>

\* One failed request rejects Promise.all; what the others answered is lost.
SessionsFail(k) ==
    /\ Spend
    /\ fetch' = Without(fetch, k)
    /\ failed' = failed \cup {k}
    /\ UNCHANGED <<hubVars, hash, value, polled, sources, answer, cache, pollFailed,
                   view, due, histVars, link>>

-----------------------------------------------------------------------------
(* React.                                                                  *)

Rendered(detail) ==
    LET r == Resolved
    IN  [thread |-> r.thread, write |-> r.write, rows |-> VisibleRows(r.thread),
         about |-> Described(r.thread, detail), sidebar |-> SidebarState,
         listed |-> {t \in Threads : HasThread(t)}]

\* The query for the selected thread has its detail or not yet.  The effects of
\* the last render have run; those whose dependencies changed are due.
Commit ==
    /\ ~due
    /\ \E detail \in {None, Resolved.thread} : view' = Rendered(detail)
    /\ view' # view
    /\ due' = (<<view'.thread, view'.write>> # <<view.thread, view.write>>)
    /\ UNCHANGED <<hubVars, hash, value, queryVars, histVars, link,
                   left>>

RunEffects ==
    /\ due
    /\ due' = FALSE
    /\ IF view.write THEN SetHash(view.thread) ELSE UNCHANGED <<hash, value>>
    /\ follows' = view.thread
    /\ UNCHANGED <<hubVars, queryVars, view, hist, link, left>>

\* updateEvents, for the thread of the effect that is alive.
HistoryUpdate ==
    /\ follows # None
    /\ hist' = follows
    /\ UNCHANGED <<hubVars, hash, value, queryVars, view, due, follows, link, left>>

Next ==
    \/ \E s \in Sources : Register(s) \/ \E t \in Threads : SessionEvent(s, t)
    \/ \E t \in Threads : Click(t)
    \/ \E t \in Threads \cup {None} : Navigate(t)
    \/ HashChange
    \/ ReadSources \/ SourcesArrive \/ SourcesFail \/ StartFetch
    \/ \E k \in DOMAIN fetch :
          \/ \E s \in DOMAIN k : ReadSessions(k, s)
          \/ SessionsArrive(k)
          \/ SessionsFail(k)
    \/ Commit \/ RunEffects \/ HistoryUpdate

Spec == Init /\ [][Next]_vars

\* Polls go on, requests are answered, the browser delivers its events and
\* React renders and runs effects.
Fairness ==
    /\ WF_vars(HashChange)
    /\ WF_vars(ReadSources)
    /\ WF_vars(SourcesArrive)
    /\ WF_vars(StartFetch)
    /\ \A s \in Sources : WF_vars(\E k \in DOMAIN fetch :
                                     s \in DOMAIN k /\ ReadSessions(k, s))
    /\ WF_vars(\E k \in DOMAIN fetch : SessionsArrive(k))
    /\ WF_vars(Commit)
    /\ WF_vars(RunEffects)

LiveSpec == Spec /\ Fairness

-----------------------------------------------------------------------------
(* Properties.                                                             *)

\* The rendered selection and the hook's state are threads, the caches only
\* hold answers for the sources they are for.
WorkbenchTypeOK ==
    /\ hash \in Threads \cup {None} /\ value \in Threads \cup {None}
    /\ DOMAIN home = DOMAIN recent
    /\ \A k \in DOMAIN cache : DOMAIN cache[k] = DOMAIN k
    /\ \A k \in DOMAIN fetch : DOMAIN fetch[k] \subseteq DOMAIN k
    /\ view.thread \in Threads \cup {None}
    /\ {follows, hist, link} \subseteq Threads \cup {None}
    /\ due \in BOOLEAN

\* What is on the screen at once is of one thread, however the answers of the
\* thread that was left come in: a selected thread is listed and has a header
\* and a transcript of its own, and no history but the one the hook keeps for
\* it. (What the stream brings into that history is SessionHistory's matter.)
PaneShowsOneThread ==
    /\ view.rows \subseteq {view.thread}
    /\ view.about = view.thread
    /\ view.thread # None => view.thread \in view.listed

\* "Deep links restore the selected session on reload" (README.md:28): while
\* its thread stays with its source and the user picks no other, the link the
\* page was loaded with is neither overwritten nor passed over for another.
DeepLinkRestores ==
    link # None => hash = link /\ view.thread \in {None, link}

\* Once the hub and the user are quiet the sidebar recovers from every failure
\* and the pane shows a thread if the hub has one of a registered source, that
\* of the hash if it is such a one.
SelectionSettles ==
    <>[](Listable # {} =>
            /\ view.sidebar = "ready"
            /\ view.thread # None
            /\ hash \in Listable => view.thread = hash)
=============================================================================
