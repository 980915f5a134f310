-------------------------------- MODULE Feed --------------------------------
(***************************************************************************)
(* What a WebSocket client may rely on: the updates of one publisher reach   *)
(* it in the order they were published, each at most once.  Updates may be   *)
(* missing (a slow consumer is not waited for), but none is late, repeated   *)
(* or invented.                                                              *)
(***************************************************************************)
EXTENDS Naturals

CONSTANTS Conns, Publishers

VARIABLES sent,   \* updates each publisher has published
          last    \* the newest update of each publisher a client has received

Init ==
  /\ sent = [p \in Publishers |-> 0]
  /\ last = [c \in Conns |-> [p \in Publishers |-> 0]]

Publish(p) ==
  /\ sent' = [sent EXCEPT ![p] = @ + 1]
  /\ UNCHANGED last

Receive(c, p) ==
  /\ \E n \in last[c][p] + 1 .. sent[p] : last' = [last EXCEPT ![c][p] = n]
  /\ UNCHANGED sent

Next ==
  \E p \in Publishers : Publish(p) \/ \E c \in Conns : Receive(c, p)

Spec == Init /\ [][Next]_<<sent, last>>
=============================================================================
