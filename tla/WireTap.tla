------------------------------ MODULE WireTap -------------------------------
(***************************************************************************)
(* What the proxy promises the two ends it stands between, and the hub     *)
(* that listens in, with no goroutine, queue or deadline: wires with a     *)
(* lossy tap.  A wire passes the frames it is given one by one, in order,  *)
(* until it is cut, and each one only after it was shown to the tap.  The  *)
(* listener hears of a frame at most once, later or never, and nothing it  *)
(* does or fails to do holds a wire up.                                    *)
(***************************************************************************)
EXTENDS Naturals, Sequences

CONSTANTS Wires, Frames

VARIABLES
    line,     \* per wire, the frames that have yet to pass, in order
    shown,    \* the wires whose first frame has been shown to the tap
    passed,   \* per wire, the frames that came out, in order
    cut,      \* the wires that pass nothing any more
    copies,   \* the copies on their way to the listener
    heard     \* what the listener heard of, in order

wvars == <<line, shown, passed, cut, copies, heard>>

Init ==
    /\ line   = [w \in Wires |-> << >>]
    /\ shown  = {}
    /\ passed = [w \in Wires |-> << >>]
    /\ cut    = {}
    /\ copies = {}
    /\ heard  = << >>

Given(w) == {line[w][i] : i \in DOMAIN line[w]} \cup {passed[w][i] : i \in DOMAIN passed[w]}

Offer(w, f) ==
    /\ f \notin Given(w)
    /\ line' = [line EXCEPT ![w] = Append(@, f)]
    /\ UNCHANGED <<shown, passed, cut, copies, heard>>

Show(w) ==
    /\ w \notin shown \cup cut
    /\ line[w] # << >>
    /\ shown' = shown \cup {w}
    /\ copies' \in {copies, copies \cup {Head(line[w])}}
    /\ UNCHANGED <<line, passed, cut, heard>>

Pass(w) ==
    /\ w \in shown \ cut
    /\ passed' = [passed EXCEPT ![w] = Append(@, Head(line[w]))]
    /\ line'   = [line EXCEPT ![w] = Tail(@)]
    /\ shown'  = shown \ {w}
    /\ UNCHANGED <<cut, copies, heard>>

\* A frame that is shown may be lost with its wire.
Cut(w) ==
    /\ w \notin cut
    /\ cut'   = cut \cup {w}
    /\ shown' = shown \ {w}
    /\ line'  = IF w \in shown THEN [line EXCEPT ![w] = Tail(@)] ELSE line
    /\ UNCHANGED <<passed, copies, heard>>

Hear(f) ==
    /\ f \in copies
    /\ copies' = copies \ {f}
    /\ heard'  = Append(heard, f)
    /\ UNCHANGED <<line, shown, passed, cut>>

Miss(f) ==
    /\ f \in copies
    /\ copies' = copies \ {f}
    /\ UNCHANGED <<line, shown, passed, cut, heard>>

Next ==
    \/ \E w \in Wires : (\E f \in Frames : Offer(w, f)) \/ Show(w) \/ Pass(w) \/ Cut(w)
    \/ \E f \in Frames : Hear(f) \/ Miss(f)

Spec == Init /\ [][Next]_wvars
=============================================================================
