---------------------------- MODULE ClientChannel ---------------------------
(***************************************************************************)
(* What a diag can rely on when it sends to the client that called it      *)
(* (agent/core/wa_diag.h, WA_DIAG_Send): messages may be lost, but those   *)
(* that arrive do so once, in the order they were sent, and over the       *)
(* connection the call came from.                                          *)
(***************************************************************************)
EXTENDS SequencesExt, Integers

CONSTANTS Conns, Answers,   \* an answer has the connection it is for
          None

VARIABLES transit,  \* sent, neither lost nor delivered yet
          last,     \* what was delivered last
          open      \* the connection there is (0: none)

Init == transit = <<>> /\ last = None /\ open = 0

Send ==
    \E a \in Answers : transit' = Append(transit, a) /\ UNCHANGED <<last, open>>

Deliver ==
    /\ transit # <<>>
    /\ Head(transit).conn = open
    /\ last' = Head(transit)
    /\ transit' = Tail(transit)
    /\ UNCHANGED open

Lose ==
    \E k \in DOMAIN transit : transit' = RemoveAt(transit, k) /\ UNCHANGED <<last, open>>

\* An answer that is half sent is lost with its connection.
Reconnect ==
    /\ open' \in Conns \cup {0} /\ open' # open
    /\ \/ UNCHANGED transit
       \/ transit # <<>> /\ transit' = Tail(transit)
    /\ UNCHANGED last

Next == Send \/ Deliver \/ Lose \/ Reconnect

Spec == Init /\ [][Next]_<<transit, last, open>>
=============================================================================
