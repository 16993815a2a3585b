------------------------------ MODULE MCIngest ------------------------------
(* A small instance of Ingest for TLC: two clients that both start counting *)
(* their requests at the same id, and share a thread.                       *)
EXTENDS Ingest, TLC

CONSTANTS call1, rename1, reply1, rename2, call2, message2,
          p1, p2, t1, t2, r1, again, first, second

\* p1 calls, is told a name of t1, is answered, and is told another name; p2
\* calls about t2 under the same request id, then writes to t1.
IndexOutbox == p1 :> <<call1, rename1, reply1, rename2>> @@
               p2 :> <<call2, message2>>

MCKindOf == [e \in Events |->
    CASE e \in {call1, call2}     -> "call"
      [] e = message2             -> "message"
      [] e \in {rename1, rename2} -> "rename"
      [] e = reply1               -> "reply"]

MCThreadOf == [e \in Events |->
    CASE e = call1 -> None [] e = call2 -> t2 [] OTHER -> t1]

MCRequestOf == [e \in Events |-> IF e \in {call1, reply1, call2} THEN r1 ELSE None]

MCTitleOf == [e \in Events |->
    CASE e = message2 -> again [] e = rename1 -> first [] e = rename2 -> second
      [] OTHER -> None]
=============================================================================
