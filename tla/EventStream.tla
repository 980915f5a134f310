----------------------------- MODULE EventStream -----------------------------
(***************************************************************************)
(* What the gateway client promises about Discord's dispatch events,        *)
(* whatever happens to its connections: within one session the handlers see *)
(* event 1, then 2, and so on, none skipped and none twice.  Only a new     *)
(* session starts over.                                                     *)
(***************************************************************************)
EXTENDS Naturals, Sequences

VARIABLES epoch,    \* sessions started so far
          emitted,  \* events Discord has emitted in the current session
          done      \* the sequence numbers handled, in the order they were

Init == epoch = 0 /\ emitted = 0 /\ done = <<>>

Emit ==
  /\ emitted' > emitted
  /\ UNCHANGED <<epoch, done>>

Deliver ==
  /\ Len(done) < emitted
  /\ done' = Append(done, Len(done) + 1)
  /\ UNCHANGED <<epoch, emitted>>

NewSession ==
  /\ epoch' = epoch + 1
  /\ emitted' \in Nat
  /\ done' = <<>>

Next == Emit \/ Deliver \/ NewSession

Spec == Init /\ [][Next]_<<epoch, emitted, done>>
=============================================================================
