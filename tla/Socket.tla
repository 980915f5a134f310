------------------------------- MODULE Socket -------------------------------
(***************************************************************************)
(* The WebSocket connections of clients (internal/socket) and the fan-out    *)
(* that feeds them.  A connection has a reader (the HTTP handler, which ends *)
(* in cleanup), a writer goroutine, and between the fan-out and the writer a *)
(* channel of Cap messages.  A peer may stop reading for as long as it       *)
(* likes, or go away at any moment.                                          *)
(*                                                                           *)
(* One monitored user.  A publisher is a goroutine that runs applySync; its  *)
(* updates are numbered.  What INIT_STATE shows is the subject of Presence,  *)
(* here it is a message like any other.  Opcode 3 changes nothing.  One      *)
(* action is one critical section of Conn.mu or Presence.mu, one channel     *)
(* operation, or one call on the socket.                                     *)
(***************************************************************************)
EXTENDS Naturals, Sequences, FiniteSets

CONSTANTS Conns, Publishers,
          Restless,   \* bound: connections that unsubscribe, leave, or
                      \* subscribe again
          Cap,        \* the capacity of sendCh, 256 in the code
          MaxUpdates  \* bound: updates of each publisher

ASSUME SocketAssumption ==
  /\ Cap \in Nat \ {0} /\ MaxUpdates \in Nat /\ Restless \subseteq Conns
  /\ "server" \notin Publishers      \* it marks what is not an update

VARIABLES
  subs,      \* the subscriber set of the user
  sent,      \* updates published so far, by each publisher
  list,      \* the copied subscribers a publisher has not called yet
  pc,        \* where the reader of each connection is
  closed,    \* Conn.closed
  chanOpen,  \* sendCh has not been closed
  queue,     \* the messages in sendCh
  writer,    \* where writeLoop is
  out,       \* the message it is writing
  open,      \* the socket is open
  last,      \* the newest update of each publisher the peer has received
  full,      \* ghost: a message has found the channel full
  due,       \* ghost: until then, the messages handed to SendEvent before
             \* closed was set that the peer has not received
  panicked   \* a send on a closed channel, which ends the process

fan == <<subs, sent, list>>
channel == <<closed, chanOpen, queue, due, full, panicked>>
peer == <<open, last>>
vars == <<fan, pc, channel, writer, out, peer>>

Messages == [from : Publishers, n : 1..MaxUpdates] \cup [from : {"server"}, n : {0}]
ServerMsg == [from |-> "server", n |-> 0]      \* HELLO and INIT_STATE

Init ==
  /\ subs = {} /\ panicked = FALSE
  /\ sent = [p \in Publishers |-> 0] /\ list = [p \in Publishers |-> {}]
  /\ pc = [c \in Conns |-> "hello"]
  /\ closed = [c \in Conns |-> FALSE] /\ chanOpen = [c \in Conns |-> TRUE]
  /\ queue = [c \in Conns |-> <<>>]
  /\ writer = [c \in Conns |-> "wait"] /\ out = [c \in Conns |-> <<>>]
  /\ open = [c \in Conns |-> TRUE]
  /\ last = [c \in Conns |-> [p \in Publishers |-> 0]]
  /\ due = [c \in Conns |-> <<>>] /\ full = [c \in Conns |-> FALSE]

-----------------------------------------------------------------------------
(* SendEvent, called by the fan-out and by the reader. *)

\* The select: a full channel drops the message, a closed one panics.
Enqueue(c, m) ==
  \/ ~chanOpen[c] /\ panicked' = TRUE /\ UNCHANGED <<queue, due, full>>
  \/ /\ chanOpen[c] /\ Len(queue[c]) < Cap
     /\ queue' = [queue EXCEPT ![c] = Append(@, m)]
     /\ due' = [due EXCEPT ![c] = IF full[c] \/ ~open[c] THEN <<>> ELSE Append(@, m)]
     /\ UNCHANGED <<full, panicked>>
  \/ /\ chanOpen[c] /\ Len(queue[c]) >= Cap
     /\ full' = [full EXCEPT ![c] = TRUE] /\ due' = [due EXCEPT ![c] = <<>>]
     /\ UNCHANGED <<queue, panicked>>

\* Mutant: the closed flag is not looked at.
SendEventUnchecked(c, m) == Enqueue(c, m) /\ UNCHANGED <<closed, chanOpen>>

\* Mutant: a send without the default case waits for room.
SendEventBlocking(c, m) ==
  /\ closed[c] \/ Len(queue[c]) < Cap
  /\ IF closed[c] THEN UNCHANGED <<queue, due, full, panicked>> ELSE Enqueue(c, m)
  /\ UNCHANGED <<closed, chanOpen>>

\* Mutant: a full channel makes room by losing its oldest message, unnoticed.
SendEventEvicting(c, m) ==
  /\ IF closed[c] THEN UNCHANGED <<queue, due>>
     ELSE /\ due' = [due EXCEPT ![c] = Append(@, m)]
          /\ queue' = [queue EXCEPT ![c] = Append(IF Len(@) < Cap THEN @ ELSE Tail(@), m)]
  /\ UNCHANGED <<closed, chanOpen, full, panicked>>

\* One critical section of c.mu.
SendEvent(c, m) ==
  /\ IF closed[c] THEN UNCHANGED <<queue, due, full, panicked>> ELSE Enqueue(c, m)
  /\ UNCHANGED <<closed, chanOpen>>

-----------------------------------------------------------------------------
(* The publishers: applySync. *)

\* The merge, and the copy of the subscriber list, under p.mu.
Publish(p) ==
  /\ list[p] = {} /\ sent[p] < MaxUpdates
  /\ sent' = [sent EXCEPT ![p] = @ + 1]
  /\ list' = [list EXCEPT ![p] = subs]
  /\ UNCHANGED <<subs, pc, channel, writer, out, peer>>

\* The fan-out over the copy, in the order a map iteration gives.
Tell(p) ==
  \E c \in list[p] :
    /\ SendEvent(c, [from |-> p, n |-> sent[p]])
    /\ list' = [list EXCEPT ![p] = @ \ {c}]
    /\ UNCHANGED <<subs, sent, pc, writer, out, peer>>

-----------------------------------------------------------------------------
(* The reader: Handle. *)

Goto(c, l) == pc' = [pc EXCEPT ![c] = l]

\* HELLO is queued before anything is read.
Hello(c) ==
  /\ pc[c] = "hello"
  /\ SendEvent(c, ServerMsg) /\ Goto(c, "read")
  /\ UNCHANGED <<fan, writer, out, peer>>

\* Opcode 2 for the user: it is looked up and built ...
Initialize(c) ==
  /\ pc[c] = "read" /\ open[c] /\ (c \in Restless \/ c \notin subs)
  /\ Goto(c, "add")
  /\ UNCHANGED <<fan, channel, writer, out, peer>>

\* ... the connection becomes a subscriber ...
AddSubscriber(c) ==
  /\ pc[c] = "add"
  /\ subs' = subs \cup {c} /\ Goto(c, "init")
  /\ UNCHANGED <<sent, list, channel, writer, out, peer>>

\* ... and INIT_STATE goes the way of every message.
InitState(c) ==
  /\ pc[c] = "init"
  /\ SendEvent(c, ServerMsg) /\ Goto(c, "read")
  /\ UNCHANGED <<fan, writer, out, peer>>

\* Opcode 4.
Unsubscribe(c) ==
  /\ pc[c] = "read" /\ open[c] /\ c \in subs \cap Restless
  /\ subs' = subs \ {c}
  /\ UNCHANGED <<sent, list, pc, channel, writer, out, peer>>

\* Anything else: closeWith, and the reader returns.
BadMessage(c) ==
  /\ pc[c] = "read" /\ open[c] /\ c \in Restless
  /\ open' = [open EXCEPT ![c] = FALSE] /\ Goto(c, "cleanup")
  /\ UNCHANGED <<fan, channel, writer, out, last>>

\* ws.Read fails once the socket is closed.
ReadFails(c) ==
  /\ pc[c] = "read" /\ ~open[c]
  /\ Goto(c, "cleanup")
  /\ UNCHANGED <<fan, channel, writer, out, peer>>

\* Mutant: the channel is left open.
CleanupKeepsChannel(c) ==
  /\ pc[c] = "cleanup"
  /\ closed' = [closed EXCEPT ![c] = TRUE] /\ Goto(c, "leave")
  /\ UNCHANGED <<fan, chanOpen, queue, due, full, panicked, writer,
                 out, peer>>

\* cleanup: the flag and the channel in one critical section ...
Cleanup(c) ==
  /\ pc[c] = "cleanup"
  /\ closed' = [closed EXCEPT ![c] = TRUE]
  /\ chanOpen' = [chanOpen EXCEPT ![c] = FALSE]
  /\ Goto(c, "leave")
  /\ UNCHANGED <<fan, queue, due, full, panicked, writer, out, peer>>

\* ... then the subscriptions ...
Leave(c) ==
  /\ pc[c] = "leave"
  /\ subs' = subs \ {c}
  /\ Goto(c, "closenow")
  /\ UNCHANGED <<sent, list, channel, writer, out, peer>>

\* ... and handleSocket's deferred CloseNow.
CloseNow(c) ==
  /\ pc[c] = "closenow"
  /\ open' = [open EXCEPT ![c] = FALSE] /\ Goto(c, "done")
  /\ UNCHANGED <<fan, channel, writer, out, last>>

-----------------------------------------------------------------------------
(* The writer: writeLoop. *)

\* A closed channel still gives what it holds.
Take(c) ==
  /\ writer[c] = "wait" /\ queue[c] # <<>>
  /\ out' = [out EXCEPT ![c] = <<Head(queue[c])>>]
  /\ queue' = [queue EXCEPT ![c] = Tail(@)]
  /\ writer' = [writer EXCEPT ![c] = "write"]
  /\ UNCHANGED <<fan, pc, closed, chanOpen, due, full, panicked, peer>>

\* Mutant: a write that takes too long is put back, behind what has come since.
WrittenOrPutBack(c) ==
  LET m == out[c][1] IN
  /\ writer[c] = "write" /\ open[c]
  /\ \/ /\ last' = IF m.from = "server" THEN last ELSE [last EXCEPT ![c][m.from] = m.n]
        /\ UNCHANGED queue
     \/ Len(queue[c]) < Cap /\ queue' = [queue EXCEPT ![c] = Append(@, m)] /\ UNCHANGED last
  /\ writer' = [writer EXCEPT ![c] = "wait"] /\ out' = [out EXCEPT ![c] = <<>>]
  /\ UNCHANGED <<fan, pc, closed, chanOpen, due, full, panicked, open>>

\* Write returns when the peer has taken the message, which it may never do.
Written(c) ==
  LET m == out[c][1] IN
  /\ writer[c] = "write" /\ open[c]
  /\ last' = IF m.from = "server" THEN last ELSE [last EXCEPT ![c][m.from] = m.n]
  /\ due' = [due EXCEPT ![c] = IF @ = <<>> THEN @ ELSE Tail(@)]
  /\ out' = [out EXCEPT ![c] = <<>>]
  /\ writer' = [writer EXCEPT ![c] = "wait"]
  /\ UNCHANGED <<fan, pc, closed, chanOpen, queue, full, panicked, open>>

\* An error of Write, or the end of the channel, ends the loop.
WriterEnds(c) ==
  /\ \/ writer[c] = "write" /\ ~open[c]
     \/ writer[c] = "wait" /\ queue[c] = <<>> /\ ~chanOpen[c]
  /\ out' = [out EXCEPT ![c] = <<>>]
  /\ writer' = [writer EXCEPT ![c] = "done"]
  /\ UNCHANGED <<fan, pc, channel, peer>>

-----------------------------------------------------------------------------
(* The peer. *)

GoAway(c) ==
  /\ open[c] /\ c \in Restless /\ open' = [open EXCEPT ![c] = FALSE]
  /\ UNCHANGED <<fan, pc, channel, writer, out, last>>

-----------------------------------------------------------------------------
\* What the reader does without waiting for the peer.
Proceed(c) ==
  Hello(c) \/ AddSubscriber(c) \/ InitState(c) \/ ReadFails(c) \/ Cleanup(c)
    \/ Leave(c) \/ CloseNow(c)

Write(c) == Take(c) \/ WriterEnds(c)

Next ==
  \/ \E p \in Publishers : Publish(p) \/ Tell(p)
  \/ \E c \in Conns : \/ Proceed(c) \/ Initialize(c) \/ Unsubscribe(c) \/ BadMessage(c)
                      \/ Write(c) \/ Written(c) \/ GoAway(c)

Spec == Init /\ [][Next]_vars

\* The goroutines of the server are scheduled; peers promise nothing.
Fairness ==
  /\ \A p \in Publishers : WF_vars(Tell(p))
  /\ \A c \in Conns : WF_vars(Proceed(c)) /\ WF_vars(Write(c))

FairSpec == Spec /\ Fairness

-----------------------------------------------------------------------------
(* Correctness. *)

\* The types of the state; the channel never holds more than its capacity.
TypeOK ==
  /\ subs \subseteq Conns /\ sent \in [Publishers -> 0..MaxUpdates]
  /\ list \in [Publishers -> SUBSET Conns]
  /\ pc \in [Conns -> {"hello", "read", "add", "init", "cleanup", "leave",
                       "closenow", "done"}]
  /\ closed \in [Conns -> BOOLEAN] /\ chanOpen \in [Conns -> BOOLEAN]
  /\ queue \in [Conns -> Seq(Messages)] /\ \A c \in Conns : Len(queue[c]) <= Cap
  /\ writer \in [Conns -> {"wait", "write", "done"}]
  /\ out \in [Conns -> Seq(Messages)] /\ open \in [Conns -> BOOLEAN]
  /\ last \in [Conns -> [Publishers -> 0..MaxUpdates]]
  /\ due \in [Conns -> Seq(Messages)] /\ full \in [Conns -> BOOLEAN]
  /\ panicked \in BOOLEAN

\* A fan-out that copied its list before a cleanup never sends on the channel
\* that the cleanup has closed: SendEvent "is safe to call concurrently".
NoSendOnClosed == ~panicked

\* The channel loses nothing by itself: as long as no message has found it full
\* and the socket is open, what was handed to SendEvent and not yet received is
\* on its way, in order and once each.
OnlyOverflowLoses ==
  \A c \in Conns : (open[c] /\ ~full[c]) => out[c] \o queue[c] = due[c]

\* The updates a client receives are those of Feed: several publishers fill its
\* channel in any order, messages find it full, and the client unsubscribes and
\* subscribes again in between, but no update of a publisher overtakes an earlier
\* one of the same publisher or comes twice.
F == INSTANCE Feed
FeedSpec == F!Spec

\* "drop rather than stall the fan-out" (handler.go:68): a fan-out ends although
\* no peer ever reads again.
FanOutEnds == \A p \in Publishers : list[p] # {} ~> list[p] = {}

\* When the handler of a connection has returned, its writer goroutine ends too,
\* also when it was blocked writing to a peer that does not read.
NoWriterLeak == \A c \in Conns : pc[c] = "done" ~> writer[c] = "done"

=============================================================================
