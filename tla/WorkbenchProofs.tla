--------------------------- MODULE WorkbenchProofs ---------------------------
(***************************************************************************)
(* Workbench's safety properties, for all sets of sources and threads and  *)
(* any number of steps.                                                    *)
(***************************************************************************)
EXTENDS Workbench, DataLemmas

NoneOrThread == Threads \cup {None}

-----------------------------------------------------------------------------
(* Lists.                                                                  *)

PlacesOK(f, U) == DOMAIN f \subseteq U /\ \A x \in DOMAIN f : f[x] \in Nat

ListOK(l) == /\ l.threads \subseteq Threads
             /\ l.threads # {} => l.first \in l.threads

\* A list that is not empty has a first row.
LEMMA FrontIsMember ==
    ASSUME NEW f, NEW S, S # {}, \A x \in S : f[x] \in Nat
    PROVE  Front(f, S) \in S
BY LeastValue DEF Front

\* Touching an element keeps a list a list.
LEMMA MoveToFrontKeepsPlaces ==
    ASSUME NEW f, NEW U, NEW x \in U, PlacesOK(f, U)
    PROVE  /\ PlacesOK(MoveToFront(f, x), U)
           /\ DOMAIN MoveToFront(f, x) = DOMAIN f \cup {x}
BY DEF PlacesOK, MoveToFront

\* The hub's answer for a source is a list of its threads.
LEMMA AnswersAreLists ==
    ASSUME PlacesOK(recent, Threads), DOMAIN home = DOMAIN recent, NEW s
    PROVE  ListOK(SessionsForSource(s))
<1> DEFINE S == {t \in DOMAIN home : home[t] = s}
<1>1. S \subseteq Threads /\ \A x \in S : recent[x] \in Nat
  BY DEF PlacesOK
<1>2. S # {} => Front(recent, S) \in S
  BY <1>1, FrontIsMember
<1> QED BY <1>1, <1>2 DEF ListOK, SessionsForSource

-----------------------------------------------------------------------------
(* The inductive invariant.                                                *)

HubInv ==
    /\ PlacesOK(registered, Sources)
    /\ PlacesOK(recent, Threads)
    /\ DOMAIN home = DOMAIN recent

QueryInv ==
    /\ PlacesOK(sources, Sources)
    /\ \A list \in answer : PlacesOK(list, Sources)
    /\ ~polled => DOMAIN sources = {}
    /\ \A k \in DOMAIN cache :
          DOMAIN cache[k] = DOMAIN k /\ \A s \in DOMAIN k : ListOK(cache[k][s])
    /\ \A k \in DOMAIN fetch :
          /\ DOMAIN fetch[k] \subseteq DOMAIN k
          /\ \A s \in DOMAIN fetch[k] : ListOK(fetch[k][s])

PaneInv ==
    /\ hash \in NoneOrThread /\ value \in NoneOrThread
    /\ view.thread \in NoneOrThread
    /\ {follows, hist, link} \subseteq NoneOrThread
    /\ due \in BOOLEAN
    /\ PaneShowsOneThread

\* The linked thread is in every list of its source that the tab has or is
\* about to have, and its source in every list of sources.
LinkInv ==
    link # None =>
        /\ hash = link /\ value = link
        /\ link \in DOMAIN home /\ home[link] \in DOMAIN registered
        /\ polled => home[link] \in DOMAIN sources
        /\ \A list \in answer : home[link] \in DOMAIN list
        /\ \A k \in DOMAIN fetch :
              /\ home[link] \in DOMAIN k
              /\ home[link] \in DOMAIN fetch[k]
                     => link \in fetch[k][home[link]].threads
        /\ \A k \in DOMAIN cache :
              /\ home[link] \in DOMAIN k
              /\ link \in cache[k][home[link]].threads
        /\ view.thread \in {None, link}
        /\ ~view.write

Inv == HubInv /\ QueryInv /\ PaneInv /\ LinkInv

-----------------------------------------------------------------------------
(* Selection.                                                              *)

\* The fallback is a thread some listed source has.
LEMMA FallbackIsListed ==
    ASSUME QueryInv, FirstAvailableThread # None
    PROVE  FirstAvailableThread \in Threads /\ HasThread(FirstAvailableThread)
<1> DEFINE S == {s \in DOMAIN sources : RowsOf(s) # {}}
           s0 == Front(sources, S)
<1>1. S # {} /\ FirstAvailableThread = Data[s0].first
  BY DEF FirstAvailableThread
<1>2. s0 \in S
  BY <1>1, FrontIsMember DEF QueryInv, PlacesOK
<1>3. sources \in DOMAIN cache /\ s0 \in DOMAIN cache[sources]
      /\ Data = cache[sources]
  BY <1>2 DEF RowsOf, Data, NoData
<1>4. ListOK(Data[s0]) /\ Data[s0].threads # {} /\ RowsOf(s0) = Data[s0].threads
  BY <1>2, <1>3 DEF RowsOf, QueryInv
<1> QED BY <1>1, <1>2, <1>4 DEF ListOK, HasThread

\* So is whatever is selected.
LEMMA SelectedIsListed ==
    ASSUME QueryInv, value \in NoneOrThread, Resolved.thread # None
    PROVE  Resolved.thread \in Threads /\ HasThread(Resolved.thread)
BY FallbackIsListed DEF Resolved, NoneOrThread

\* The linked thread is selected as soon as any thread is.
LEMMA LinkIsSelected ==
    ASSUME QueryInv, LinkInv, link # None
    PROVE  Resolved.thread \in {None, link} /\ ~Resolved.write
<1>1. CASE sources \in DOMAIN cache
  <2>1. polled
    BY <1>1 DEF QueryInv, LinkInv
  <2>2. HasThread(link)
    BY <1>1, <2>1 DEF LinkInv, QueryInv, HasThread, RowsOf, Data
  <2> QED BY <2>2 DEF LinkInv, Resolved
<1>2. CASE sources \notin DOMAIN cache
  <2>1. \A s : RowsOf(s) = {}
    BY <1>2 DEF RowsOf, Data, NoData
  <2>2. FirstAvailableThread = None /\ ~HasThread(value)
    BY <2>1 DEF FirstAvailableThread, HasThread
  <2> QED BY <2>2 DEF Resolved
<1> QED BY <1>1, <1>2

-----------------------------------------------------------------------------
(* The steps.                                                              *)

LEMMA InitInv == Init => Inv
<1> SUFFICES ASSUME Init PROVE Inv
  OBVIOUS
<1>1. HubInv
  <2>1. \A U : \A n \in 1 .. Cardinality(U) : n \in Nat
    OBVIOUS
  <2> QED BY <2>1 DEF Init, HubInv, PlacesOK
<1>2. QueryInv
  BY DEF Init, QueryInv, PlacesOK, NoData
<1>3. PaneInv
  BY DEF Init, PaneInv, PaneShowsOneThread, NoneOrThread
<1>4. LinkInv
  BY DEF Init, LinkInv, NoData, Listable
<1> QED BY <1>1, <1>2, <1>3, <1>4 DEF Inv

\* The hub registers a source.
LEMMA RegisterInv ==
    ASSUME Inv, NEW s \in Sources, Register(s)
    PROVE  Inv'
<1> DEFINE after == MoveToFront(registered, s)
<1>1. HubInv' /\ DOMAIN registered \subseteq DOMAIN registered'
  <2>1. PlacesOK(after, Sources) /\ DOMAIN after = DOMAIN registered \cup {s}
    BY MoveToFrontKeepsPlaces DEF Inv, HubInv
  <2>2. registered' = after
    BY DEF Register
  <2> HIDE DEF after
  <2> QED BY <2>1, <2>2 DEF Inv, HubInv, PlacesOK, Register
<1>2. QueryInv'
  BY DEF Inv, QueryInv, Register, queryVars
<1>3. PaneInv'
  BY DEF Inv, PaneInv, PaneShowsOneThread, Register, histVars
<1>4. LinkInv'
  BY <1>1 DEF Inv, LinkInv, Register, queryVars
<1> QED BY <1>1, <1>2, <1>3, <1>4 DEF Inv

\* The hub hears of a thread, from its source or from another.
LEMMA SessionEventInv ==
    ASSUME Inv, NEW s \in Sources, NEW t \in Threads, SessionEvent(s, t)
    PROVE  Inv'
<1>1. HubInv'
  BY MoveToFrontKeepsPlaces DEF Inv, HubInv, SessionEvent
<1>2. QueryInv'
  BY DEF Inv, QueryInv, SessionEvent, queryVars
<1>3. PaneInv'
  BY DEF Inv, PaneInv, PaneShowsOneThread, NoneOrThread, SessionEvent, histVars
<1>4. LinkInv'
  <2>1. link' # None =>
            link' = link /\ link \in DOMAIN home' /\ home'[link] = home[link]
    BY DEF Inv, LinkInv, SessionEvent
  <2> QED BY <2>1 DEF Inv, LinkInv, SessionEvent, queryVars
<1> QED BY <1>1, <1>2, <1>3, <1>4 DEF Inv

\* The user clicks, or the hash changes.
LEMMA UserInv ==
    ASSUME Inv,
           \/ \E t \in Threads : Click(t)
           \/ \E t \in Threads \cup {None} : Navigate(t)
           \/ HashChange
    PROVE  Inv'
<1> USE DEF Click, SetHash, Navigate, HashChange, hubVars, queryVars, histVars
<1>1. HubInv'
  BY DEF Inv, HubInv
<1>2. QueryInv'
  BY DEF Inv, QueryInv
<1>3. PaneInv'
  BY DEF Inv, PaneInv, PaneShowsOneThread, NoneOrThread
<1>4. LinkInv'
  BY DEF Inv, LinkInv
<1> QED BY <1>1, <1>2, <1>3, <1>4 DEF Inv

\* The sources are read, they arrive, or the request fails.
LEMMA PollInv ==
    ASSUME Inv, ReadSources \/ SourcesArrive \/ SourcesFail
    PROVE  Inv'
<1> USE DEF ReadSources, SourcesArrive, SourcesFail, hubVars, histVars
<1>1. HubInv'
  BY DEF Inv, HubInv
<1>2. QueryInv'
  BY DEF Inv, HubInv, QueryInv
<1>3. PaneInv'
  BY DEF Inv, PaneInv, PaneShowsOneThread, NoneOrThread
<1>4. LinkInv'
  BY DEF Inv, LinkInv
<1> QED BY <1>1, <1>2, <1>3, <1>4 DEF Inv

\* The lists of sessions are asked for.
LEMMA StartFetchInv ==
    ASSUME Inv, StartFetch
    PROVE  Inv'
<1> USE DEF StartFetch, hubVars, histVars
<1>1. HubInv'
  BY DEF Inv, HubInv
<1>2. QueryInv'
  BY DEF Inv, QueryInv, NoData
<1>3. PaneInv'
  BY DEF Inv, PaneInv, PaneShowsOneThread
<1>4. LinkInv'
  BY DEF Inv, LinkInv, QueryInv, NoData
<1> QED BY <1>1, <1>2, <1>3, <1>4 DEF Inv

\* The hub reads one list.
LEMMA ReadSessionsInv ==
    ASSUME Inv, NEW k \in DOMAIN fetch, NEW s \in DOMAIN k, ReadSessions(k, s)
    PROVE  Inv'
<1> DEFINE answers == [r \in DOMAIN fetch[k] \cup {s} |->
                          IF r = s THEN SessionsForSource(s) ELSE fetch[k][r]]
<1>1. /\ DOMAIN fetch' = DOMAIN fetch
      /\ fetch'[k] = answers
      /\ \A j \in DOMAIN fetch \ {k} : fetch'[j] = fetch[j]
  BY DEF ReadSessions
<1>2. HubInv'
  BY DEF Inv, HubInv, ReadSessions, hubVars
<1>3. QueryInv'
  <2>1. ListOK(SessionsForSource(s))
    BY AnswersAreLists DEF Inv, HubInv
  <2>2. /\ DOMAIN answers \subseteq DOMAIN k
        /\ \A r \in DOMAIN answers : ListOK(answers[r])
    BY <2>1 DEF Inv, QueryInv
  <2> QED BY <1>1, <2>2 DEF Inv, QueryInv, ReadSessions
<1>4. PaneInv'
  BY DEF Inv, PaneInv, PaneShowsOneThread, ReadSessions, histVars
<1>5. LinkInv'
  <2> SUFFICES ASSUME link # None PROVE LinkInv'
    BY DEF LinkInv, ReadSessions
  <2>1. s = home[link] => link \in SessionsForSource(s).threads
    BY DEF Inv, LinkInv, SessionsForSource
  <2>2. home[link] \in DOMAIN answers => link \in answers[home[link]].threads
    BY <2>1 DEF Inv, LinkInv
  <2> QED BY <1>1, <2>2 DEF Inv, LinkInv, ReadSessions, hubVars
<1> QED BY <1>2, <1>3, <1>4, <1>5 DEF Inv

\* The lists have all come, or one of the requests has failed.
LEMMA AnsweredInv ==
    ASSUME Inv, NEW k \in DOMAIN fetch, SessionsArrive(k) \/ SessionsFail(k)
    PROVE  Inv'
<1> USE DEF SessionsArrive, SessionsFail, hubVars, histVars
<1>1. HubInv'
  BY DEF Inv, HubInv
<1>2. QueryInv'
  BY DEF Inv, QueryInv, Without
<1>3. PaneInv'
  BY DEF Inv, PaneInv, PaneShowsOneThread
<1>4. LinkInv'
  BY DEF Inv, LinkInv, Without
<1> QED BY <1>1, <1>2, <1>3, <1>4 DEF Inv

\* React renders.
LEMMA CommitInv ==
    ASSUME Inv, Commit
    PROVE  Inv'
<1>1. PICK detail \in {None, Resolved.thread} : view' = Rendered(detail)
  BY DEF Commit
<1>2. HubInv'
  BY DEF Inv, HubInv, Commit, hubVars
<1>3. QueryInv'
  BY DEF Inv, QueryInv, Commit, queryVars
<1>4. PaneInv'
  <2>1. /\ view'.thread = Resolved.thread
        /\ view'.rows = VisibleRows(Resolved.thread)
        /\ view'.about = Described(Resolved.thread, detail)
        /\ view'.listed = {t \in Threads : HasThread(t)}
    BY <1>1 DEF Rendered
  <2>2. Resolved.thread # None =>
            Resolved.thread \in Threads /\ HasThread(Resolved.thread)
    BY SelectedIsListed DEF Inv, PaneInv
  <2>3. PaneShowsOneThread'
    BY <2>1, <2>2
    DEF PaneShowsOneThread, VisibleRows, Described, SelectedSession
  <2> QED BY <2>1, <2>2, <2>3 DEF Inv, PaneInv, NoneOrThread, Commit, histVars
<1>5. LinkInv'
  <2>1. view'.thread = Resolved.thread /\ view'.write = Resolved.write
    BY <1>1 DEF Rendered
  <2> QED BY <2>1, LinkIsSelected DEF Inv, LinkInv, Commit, hubVars, queryVars
<1> QED BY <1>2, <1>3, <1>4, <1>5 DEF Inv

\* The effects run, and the history hook updates its state.
LEMMA EffectsInv ==
    ASSUME Inv, RunEffects \/ HistoryUpdate
    PROVE  Inv'
<1> USE DEF RunEffects, HistoryUpdate, SetHash, hubVars, queryVars, histVars
<1>1. HubInv'
  BY DEF Inv, HubInv
<1>2. QueryInv'
  BY DEF Inv, QueryInv
<1>3. PaneInv'
  BY DEF Inv, PaneInv, PaneShowsOneThread, NoneOrThread
<1>4. LinkInv'
  BY DEF Inv, LinkInv
<1> QED BY <1>1, <1>2, <1>3, <1>4 DEF Inv

LEMMA NextInv == Inv /\ [Next]_vars => Inv'
<1> SUFFICES ASSUME Inv, [Next]_vars PROVE Inv'
  OBVIOUS
<1>1. CASE UNCHANGED vars
  BY <1>1 DEF Inv, HubInv, QueryInv, PaneInv, LinkInv, PaneShowsOneThread,
              vars, hubVars, queryVars, histVars
<1>2. ASSUME Next PROVE Inv'
  BY <1>2, RegisterInv, SessionEventInv, UserInv, PollInv, StartFetchInv,
     ReadSessionsInv, AnsweredInv, CommitInv, EffectsInv DEF Next
<1> QED BY <1>1, <1>2

-----------------------------------------------------------------------------
(* The theorems.                                                           *)

\* Every state the tab can reach satisfies the invariant.
THEOREM InvHolds == Spec => []Inv
BY InitInv, NextInv, PTL DEF Spec

\* The selection is a thread or none, and the lists of sessions are of the
\* sources they are cached for, whichever requests fail or overtake others.
THEOREM TypeCorrect == Spec => []WorkbenchTypeOK
<1>1. Inv => WorkbenchTypeOK
  BY DEF Inv, HubInv, QueryInv, PaneInv, WorkbenchTypeOK, NoneOrThread
<1> QED BY <1>1, InvHolds, PTL

\* Sidebar, header, transcript and rows are of one thread at a time.
THEOREM OneThreadIsShown == Spec => []PaneShowsOneThread
<1>1. Inv => PaneShowsOneThread
  BY DEF Inv, PaneInv
<1> QED BY <1>1, InvHolds, PTL

\* The link the page was loaded with is neither overwritten nor passed over.
THEOREM LinkIsRestored == Spec => []DeepLinkRestores
<1>1. Inv => DeepLinkRestores
  BY DEF Inv, LinkInv, DeepLinkRestores
<1> QED BY <1>1, InvHolds, PTL
=============================================================================
