----------------------------- MODULE Multicast ------------------------------
(***************************************************************************)
(* What the broker promises its listeners, with no ring, channel or lock:  *)
(* a lossy multicast.  A listener that joins is owed the events announced  *)
(* after some point, then every event announced while it listens.  It      *)
(* hears what it is owed in any order, misses some of it, and never hears  *)
(* an event twice nor one it was not owed.                                 *)
(***************************************************************************)
EXTENDS Integers, Sequences

CONSTANTS Events, Listeners

VARIABLES
    sent,    \* the events announced, in order
    state,   \* absent, listening or gone
    owed,    \* what a listener may still hear
    heard    \* what it has heard, in order

mvars == <<sent, state, owed, heard>>

Announced == {sent[i] : i \in DOMAIN sent}

Init ==
    /\ sent  = << >>
    /\ state = [c \in Listeners |-> "absent"]
    /\ owed  = [c \in Listeners |-> {}]
    /\ heard = [c \in Listeners |-> << >>]

Announce(e) ==
    /\ e \notin Announced
    /\ sent' = Append(sent, e)
    /\ owed' = [c \in Listeners |->
                  IF state[c] = "listening" THEN owed[c] \cup {e} ELSE owed[c]]
    /\ UNCHANGED <<state, heard>>

\* The backlog is a suffix of what was announced, possibly empty.
Join(c, from) ==
    /\ state[c] = "absent"
    /\ state' = [state EXCEPT ![c] = "listening"]
    /\ owed'  = [owed EXCEPT ![c] = {sent[i] : i \in from + 1 .. Len(sent)}]
    /\ UNCHANGED <<sent, heard>>

Hear(c, e) ==
    /\ state[c] = "listening"
    /\ e \in owed[c]
    /\ heard' = [heard EXCEPT ![c] = Append(@, e)]
    /\ owed'  = [owed EXCEPT ![c] = @ \ {e}]
    /\ UNCHANGED <<sent, state>>

Miss(c, e) ==
    /\ e \in owed[c]
    /\ owed' = [owed EXCEPT ![c] = @ \ {e}]
    /\ UNCHANGED <<sent, state, heard>>

Leave(c) ==
    /\ state[c] = "listening"
    /\ state' = [state EXCEPT ![c] = "gone"]
    /\ owed'  = [owed EXCEPT ![c] = {}]
    /\ UNCHANGED <<sent, heard>>

Next ==
    \/ \E e \in Events : Announce(e)
    \/ \E c \in Listeners :
          \/ \E from \in 0 .. Len(sent) : Join(c, from)
          \/ \E e \in Events : Hear(c, e) \/ Miss(c, e)
          \/ Leave(c)

Spec == Init /\ [][Next]_mvars
=============================================================================
