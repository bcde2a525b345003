--------------------------- MODULE ControlChannel ---------------------------
(***************************************************************************)
(* What the transport promises its user: at each end, the messages sent    *)
(* are taken by the peer's transport one by one in the order they were     *)
(* sent, handed to the peer's user in that order without gap or repeat,    *)
(* and reported as acknowledged only once the peer's transport took them.  *)
(***************************************************************************)
EXTENDS Naturals, Sequences

CONSTANTS End, peer(_)

VARIABLES
    sent,       \* sent[e]: the messages sent by e, in order
    taken,      \* taken[e]: how many of the peer's messages e has taken
    delivered,  \* delivered[e]: the messages handed to the user of e
    acked       \* acked[e]: the messages e knows to be acknowledged

chanVars == <<sent, taken, delivered, acked>>

Init ==
    /\ sent = [e \in End |-> <<>>]
    /\ taken = [e \in End |-> 0]
    /\ delivered = [e \in End |-> <<>>]
    /\ acked = [e \in End |-> {}]

\* Any message that has not been sent before.
Send(e) ==
    /\ Len(sent'[e]) = Len(sent[e]) + 1
    /\ LET m == sent'[e][Len(sent'[e])] IN
          /\ \A i \in DOMAIN sent[e] : sent[e][i] # m
          /\ sent' = [sent EXCEPT ![e] = Append(@, m)]
    /\ UNCHANGED <<taken, delivered, acked>>

Take(e) ==
    /\ taken[e] < Len(sent[peer(e)])
    /\ taken' = [taken EXCEPT ![e] = @ + 1]
    /\ UNCHANGED <<sent, delivered, acked>>

Deliver(e) ==
    LET n == Len(delivered[e]) + 1 IN
    /\ n <= taken[e]
    /\ delivered' = [delivered EXCEPT ![e] = Append(@, sent[peer(e)][n])]
    /\ UNCHANGED <<sent, taken, acked>>

Ack(e) ==
    /\ \E n \in 1 .. taken[peer(e)] :
          acked' = [acked EXCEPT ![e] = @ \cup {sent[e][n]}]
    /\ UNCHANGED <<sent, taken, delivered>>

Next == \E e \in End : Send(e) \/ Take(e) \/ Deliver(e) \/ Ack(e)

Spec == Init /\ [][Next]_chanVars
=============================================================================
