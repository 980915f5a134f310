------------------------------- MODULE Gateway -------------------------------
(***************************************************************************)
(* The Discord gateway client (internal/gateway/client.go) and, as far as   *)
(* the client relies on it, the service it talks to.                        *)
(*                                                                          *)
(* Client goroutines: the reader (Run, connectAndServe and the dispatch     *)
(* handlers it calls) and one heartbeat goroutine per connection.  They     *)
(* share the websocket, the session's sequence number and ackCh.  A closed  *)
(* or stopped heartbeat goroutine can only touch its own dead socket, so    *)
(* the state keeps the one of the current connection.                       *)
(*                                                                          *)
(* A connection is up, cut (lost, and perhaps nobody has noticed) or down.  *)
(* The service numbers the events of a session; an event is known by its    *)
(* number and its effect on the set of monitored users.                     *)
(***************************************************************************)
EXTENDS Naturals, Sequences, FiniteSets

CONSTANTS Users,
          MaxGuild,      \* bound: guild changes and other events
          MaxLosses      \* bound: cuts, reconnects, invalidations, late ACKs,
                         \* and the end of the resume host

ASSUME GatewayAssumption == MaxGuild \in Nat /\ MaxLosses \in Nat

VARIABLES
  phase,      \* of the reader: "dial", "read", "handle"
  got,        \* the message it handles
  sid,        \* session.sessionID, 0 when empty
  url,        \* session.resumeURL is set
  seq,        \* session.seq
  hasSeq,     \* session.hasSeq
  monitored,  \* users in the presence registry
  hb,         \* heartbeat goroutine: "off", "wait" in its select, "closed"
  ack,        \* its local ack
  ackCh,      \* messages in ackCh, capacity 1
  timer,      \* "fired" or "running"
  link,       \* "down", "up", "cut"
  wire,       \* messages on the way to the client
  out,        \* messages on the way to Discord
  session,    \* Discord: the last session it created, 0 for none
  valid,      \* Discord still keeps that session
  attached,   \* the session is served on the current connection
  log,        \* Discord: the events of the session, log[i] has number i
  members,    \* Discord: the members of the guild
  hostDead,   \* the resume host has gone away
  changes, losses,  \* guild changes and losses so far
  done,       \* ghost: the event numbers of this session handled, in order
  missed,     \* ghost: a member request of this session was lost
  gap         \* ghost: users monitored since an older session who have left

sessionVars == <<sid, url, seq, hasSeq>>
reader == <<phase, got>>
heart == <<hb, ack, ackCh, timer>>
net == <<link, wire, out>>
service == <<session, valid, attached, log, members, hostDead>>
counters == <<changes, losses>>
ghosts == <<done, missed, gap>>
vars == <<reader, sessionVars, monitored, heart, net, service, counters, ghosts>>

\* A message: its opcode, and for a dispatch its sequence number, for a resume
\* the session and the number sent, for a member request the users asked for.
Msg(op, n, s, us) == [op |-> op, n |-> n, sid |-> s, users |-> us]
Plain(op) == Msg(op, 0, 0, {})
Dispatch(n) == Msg("dispatch", n, 0, {})

Event(kind, us) == [kind |-> kind, users |-> us]

Init ==
  /\ phase = "dial" /\ got = Plain("none")
  /\ sid = 0 /\ url = FALSE /\ seq = 0 /\ hasSeq = FALSE
  /\ monitored = {}
  /\ hb = "off" /\ ack = TRUE /\ ackCh = 0 /\ timer = "running"
  /\ link = "down" /\ wire = <<>> /\ out = <<>>
  /\ session = 0 /\ valid = FALSE /\ attached = FALSE /\ log = <<>>
  /\ members \in SUBSET Users
  /\ hostDead = FALSE
  /\ changes = 0 /\ losses = 0
  /\ done = <<>> /\ missed = FALSE /\ gap = {}

Requests(q) == {i \in 1..Len(q) : q[i].op = "request"}

\* gwConn.send: an error is ignored, so on a lost connection nothing is sent.
Send(m) ==
  IF link = "up"
  THEN out' = Append(out, m) /\ UNCHANGED missed
  ELSE missed' = (missed \/ m.op = "request") /\ UNCHANGED out

\* The deferred calls of connectAndServe: the heartbeat stops, the socket closes.
Hangup ==
  /\ phase' = "dial" /\ got' = Plain("none")
  /\ hb' = "off" /\ ack' = TRUE /\ ackCh' = 0 /\ timer' = "running"
  /\ link' = "down" /\ wire' = <<>> /\ out' = <<>>
  /\ attached' = FALSE
  /\ missed' = (missed \/ Requests(out) # {})
  /\ UNCHANGED <<session, valid, log, members, hostDead>>

-----------------------------------------------------------------------------
(* The reader. *)

\* websocket.Dial of gatewayURL; the service answers with HELLO.
Dial ==
  /\ phase = "dial" /\ ~(url /\ hostDead)
  /\ phase' = "read"
  /\ link' = "up" /\ wire' = <<Plain("hello")>>
  /\ UNCHANGED <<got, sessionVars, monitored, heart, out, service, counters,
                 ghosts>>

\* A failed dial changes nothing: Run sleeps and dials the same URL again.
DialFails == phase = "dial" /\ UNCHANGED vars

\* Mutant: the sequence number of an event is not kept.
ReadKeepsNoSeq ==
  /\ phase = "read" /\ wire # <<>>
  /\ got' = Head(wire) /\ wire' = Tail(wire)
  /\ phase' = "handle"
  /\ UNCHANGED <<sessionVars, monitored, heart, link, out, service, counters,
                 ghosts>>

\* ws.Read returns a message: setSeq comes before the handler.  What arrived
\* before a cut can still be read.
Read ==
  /\ phase = "read" /\ wire # <<>>
  /\ got' = Head(wire) /\ wire' = Tail(wire)
  /\ phase' = "handle"
  /\ IF got'.op = "dispatch" THEN seq' = got'.n /\ hasSeq' = TRUE
                             ELSE UNCHANGED <<seq, hasSeq>>
  /\ UNCHANGED <<sid, url, monitored, heart, link, out, service, counters,
                 ghosts>>

\* ws.Read fails: connectAndServe returns, the session is kept.
ReadError ==
  /\ phase = "read" /\ link = "cut"
  /\ Hangup
  /\ UNCHANGED <<sessionVars, monitored, counters, done, gap>>

Handling(op) == phase = "handle" /\ got.op = op
Handled == phase' = "read" /\ got' = Plain("none")

\* HELLO: start the heartbeat, whose timer fires at once; resume or identify.
OnHello ==
  /\ Handling("hello") /\ Handled
  /\ hb' = "wait" /\ ack' = TRUE /\ timer' = "fired" /\ UNCHANGED ackCh
  /\ Send(IF sid # 0 /\ url
          THEN Msg("resume", IF hasSeq THEN seq ELSE 0, sid, {})
          ELSE Plain("identify"))
  /\ UNCHANGED <<sessionVars, monitored, link, wire, service, counters, done,
                 gap>>

\* Heartbeat ACK: pass it on, or drop it when ackCh is full.
OnAck ==
  /\ Handling("ack") /\ Handled
  /\ ackCh' = 1
  /\ UNCHANGED <<sessionVars, monitored, hb, ack, timer, net, service, counters,
                 ghosts>>

\* Reconnect: connectAndServe returns and the session is kept.
OnReconnect ==
  /\ Handling("reconnect")
  /\ Hangup
  /\ UNCHANGED <<sessionVars, monitored, counters, done, gap>>

\* Mutant: the session outlives Discord's refusal of it.
OnInvalidKeepsSession ==
  /\ Handling("invalid")
  /\ Hangup
  /\ UNCHANGED <<sessionVars, monitored, counters, done, gap>>

\* Invalid Session: connectAndServe returns and Run clears the resume data.
OnInvalid ==
  /\ Handling("invalid")
  /\ Hangup
  /\ sid' = 0 /\ url' = FALSE /\ hasSeq' = FALSE
  /\ UNCHANGED <<seq, monitored, counters, done, gap>>

\* handleDispatch of event number got.n.
Handles(kind) ==
  /\ Handling("dispatch") /\ log[got.n].kind = kind
  /\ Handled
  /\ done' = Append(done, got.n)

EventUsers == log[got.n].users

OnReady ==
  /\ Handles("ready")
  /\ sid' = session /\ url' = TRUE
  /\ UNCHANGED <<seq, hasSeq, monitored, heart, net, service, counters, missed,
                 gap>>

\* GUILD_CREATE: start the presences listed, then ask for every member.
OnGuildCreate ==
  /\ Handles("create")
  /\ monitored' = monitored \cup EventUsers
  /\ Send(Msg("request", 0, 0, Users))
  /\ UNCHANGED <<sessionVars, heart, link, wire, service, counters, gap>>

OnChunk ==
  /\ Handles("chunk")
  /\ monitored' = monitored \cup EventUsers
  /\ UNCHANGED <<sessionVars, heart, net, service, counters, missed, gap>>

\* GUILD_MEMBER_ADD: only asks for the member, with its presence.
OnMemberAdd ==
  /\ Handles("add")
  /\ Send(Msg("request", 0, 0, EventUsers))
  /\ UNCHANGED <<sessionVars, monitored, heart, link, wire, service, counters,
                 gap>>

\* Mutant: a member who leaves stays monitored.
OnMemberRemoveIgnored ==
  /\ Handles("remove")
  /\ gap' = gap \ EventUsers
  /\ UNCHANGED <<sessionVars, monitored, heart, net, service, counters, missed>>

\* GUILD_MEMBER_REMOVE: Registry.Stop.
OnMemberRemove ==
  /\ Handles("remove")
  /\ monitored' = monitored \ EventUsers
  /\ gap' = gap \ EventUsers
  /\ UNCHANGED <<sessionVars, heart, net, service, counters, missed>>

\* PRESENCE_UPDATE, GUILD_MEMBER_UPDATE and MESSAGE_CREATE start no presence.
OnOther ==
  /\ Handles("other")
  /\ UNCHANGED <<sessionVars, monitored, heart, net, service, counters, missed,
                 gap>>

OnDispatch == OnReady \/ OnGuildCreate \/ OnChunk \/ OnMemberAdd
              \/ OnMemberRemove \/ OnOther

-----------------------------------------------------------------------------
(* The heartbeat goroutine: one action per case of its select, which takes   *)
(* any case that is ready.                                                   *)

TakeAck ==
  /\ hb = "wait" /\ ackCh = 1
  /\ ackCh' = 0 /\ ack' = TRUE
  /\ UNCHANGED <<reader, sessionVars, monitored, hb, timer, net, service,
                 counters, ghosts>>

\* Mutant: the goroutine does not note that it now waits for an ACK.
BeatKeepsAck ==
  /\ hb = "wait" /\ timer = "fired" /\ ack
  /\ timer' = "running"
  /\ Send(Plain("beat"))
  /\ UNCHANGED <<reader, sessionVars, monitored, hb, ack, ackCh, link, wire,
                 service, counters, done, gap>>

\* Mutant: the missing ACK is noticed only at the second beat without one.
BeatUnacked ==
  /\ hb = "wait" /\ timer = "fired" /\ (ack \/ ackCh = 0)
  /\ ack' = FALSE /\ timer' = "running"
  /\ Send(Plain("beat"))
  /\ UNCHANGED <<reader, sessionVars, monitored, hb, ackCh, link, wire, service,
                 counters, done, gap>>

Beat ==
  /\ hb = "wait" /\ timer = "fired" /\ ack
  /\ ack' = FALSE /\ timer' = "running"
  /\ Send(Plain("beat"))
  /\ UNCHANGED <<reader, sessionVars, monitored, hb, ackCh, link, wire, service,
                 counters, done, gap>>

\* No ACK since the last beat: close the socket and return.
Stale ==
  /\ hb = "wait" /\ timer = "fired" /\ ~ack
  /\ hb' = "closed"
  /\ link' = "cut" /\ attached' = FALSE
  /\ UNCHANGED <<reader, sessionVars, monitored, ack, ackCh, timer, wire, out,
                 session, valid, log, members, hostDead, counters, ghosts>>

\* The interval passes.  On a good connection it is long enough for the ACK to
\* be handled, save for as many late ACKs as losses are left.
Tick ==
  LET late == ~ack /\ link = "up" IN
  /\ hb = "wait" /\ timer = "running"
  /\ late => losses < MaxLosses
  /\ timer' = "fired"
  /\ losses' = IF late THEN losses + 1 ELSE losses
  /\ UNCHANGED <<reader, sessionVars, monitored, hb, ack, ackCh, net, service,
                 changes, ghosts>>

-----------------------------------------------------------------------------
(* Discord, as the client relies on it. *)

\* Append an event to the session, and to the wire when it is attached.
Emit(e) ==
  IF valid
  THEN /\ log' = Append(log, e)
       /\ wire' = IF attached THEN Append(wire, Dispatch(Len(log) + 1)) ELSE wire
  ELSE UNCHANGED <<log, wire>>

Receives(op) == link = "up" /\ out # <<>> /\ Head(out).op = op /\ out' = Tail(out)

Acknowledge ==
  /\ Receives("beat")
  /\ wire' = Append(wire, Plain("ack"))
  /\ UNCHANGED <<reader, sessionVars, monitored, heart, link, service, counters,
                 ghosts>>

\* Identify: a new session.  GUILD_CREATE of a large guild lists some members.
Identified ==
  /\ Receives("identify")
  /\ session' = session + 1 /\ valid' = TRUE /\ attached' = TRUE
  /\ \E S \in SUBSET members :
       log' = <<Event("ready", {}), Event("create", S)>>
  /\ wire' = wire \o <<Dispatch(1), Dispatch(2)>>
  /\ done' = <<>> /\ missed' = FALSE /\ gap' = monitored \ members
  /\ UNCHANGED <<reader, sessionVars, monitored, heart, link, members, hostDead,
                 counters>>

\* Resume: replay what the client has not seen, or refuse the session.
Resumed ==
  /\ Receives("resume")
  /\ LET m == Head(out) IN
     IF valid /\ m.sid = session
     THEN /\ wire' = wire \o [i \in 1..(Len(log) - m.n) |-> Dispatch(m.n + i)]
          /\ attached' = TRUE
     ELSE /\ wire' = Append(wire, Plain("invalid"))
          /\ UNCHANGED attached
  /\ UNCHANGED <<reader, sessionVars, monitored, heart, link, session, valid,
                 log, members, hostDead, counters, ghosts>>

\* Request Guild Members: answered with a chunk of those who are members.
Requested ==
  /\ Receives("request")
  /\ Emit(Event("chunk", Head(out).users \cap members))
  /\ UNCHANGED <<reader, sessionVars, monitored, heart, link, session, valid,
                 attached, members, hostDead, counters, ghosts>>

GuildChange(u) ==
  /\ changes < MaxGuild /\ changes' = changes + 1
  /\ \/ u \notin members /\ members' = members \cup {u} /\ Emit(Event("add", {u}))
     \/ u \in members /\ members' = members \ {u} /\ Emit(Event("remove", {u}))
     \/ UNCHANGED members /\ Emit(Event("other", {u}))
  /\ UNCHANGED <<reader, sessionVars, monitored, heart, link, out, session,
                 valid, attached, hostDead, losses, ghosts>>

\* The connection is lost without a word.
Cut ==
  /\ link = "up" /\ losses < MaxLosses /\ losses' = losses + 1
  /\ link' = "cut" /\ attached' = FALSE
  /\ UNCHANGED <<reader, sessionVars, monitored, heart, wire, out, session,
                 valid, log, members, hostDead, changes, ghosts>>

\* Discord asks for a reconnect.
AskReconnect ==
  /\ attached /\ losses < MaxLosses /\ losses' = losses + 1
  /\ wire' = Append(wire, Plain("reconnect"))
  /\ UNCHANGED <<reader, sessionVars, monitored, heart, link, out, service,
                 changes, ghosts>>

\* Discord gives the session up, and says so on a connection that serves it.
Invalidate ==
  /\ valid /\ losses < MaxLosses /\ losses' = losses + 1
  /\ valid' = FALSE /\ attached' = FALSE
  /\ wire' = IF attached THEN Append(wire, Plain("invalid")) ELSE wire
  /\ UNCHANGED <<reader, sessionVars, monitored, heart, link, out, session, log,
                 members, hostDead, changes, ghosts>>

\* The host named in READY goes away for good.
HostDies ==
  /\ ~hostDead /\ losses < MaxLosses /\ losses' = losses + 1
  /\ hostDead' = TRUE
  /\ UNCHANGED <<reader, sessionVars, monitored, heart, net, session, valid,
                 attached, log, members, changes, ghosts>>

-----------------------------------------------------------------------------
Reader == Read \/ OnHello \/ OnAck \/ OnReconnect \/ OnInvalid \/ OnDispatch

Service == Acknowledge \/ Identified \/ Resumed \/ Requested

Next ==
  \/ Dial \/ DialFails \/ Reader \/ ReadError
  \/ TakeAck \/ Beat \/ Stale \/ Tick
  \/ Service \/ Cut \/ AskReconnect \/ Invalidate \/ HostDies
  \/ \E u \in Users : GuildChange(u)

Spec == Init /\ [][Next]_vars

\* A lost connection is reported by the transport while it is set up, and once
\* our side has closed it.  In between it may stay silent for ever.
ReadErrorReported == hb # "wait" /\ ReadError

\* The goroutines run, time passes, dials succeed, Discord answers.
Fairness ==
  /\ WF_vars(Dial) /\ WF_vars(Reader) /\ WF_vars(ReadErrorReported)
  /\ WF_vars(TakeAck) /\ WF_vars(Beat \/ Stale) /\ WF_vars(Tick)
  /\ WF_vars(Service)

FairSpec == Spec /\ Fairness

-----------------------------------------------------------------------------
(* Correctness. *)

MaxSession == MaxLosses + 1
MaxLog == 3 + 2 * MaxGuild

Messages(ops) == [op : ops, n : 0..MaxLog, sid : 0..MaxSession,
                  users : SUBSET Users]
ToClient == {"hello", "ack", "reconnect", "invalid", "dispatch"}
ToDiscord == {"beat", "identify", "resume", "request"}

\* The types of the state.
TypeOK ==
  /\ phase \in {"dial", "read", "handle"} /\ got \in Messages(ToClient \cup {"none"})
  /\ sid \in 0..MaxSession /\ url \in BOOLEAN
  /\ seq \in 0..MaxLog /\ hasSeq \in BOOLEAN
  /\ monitored \subseteq Users /\ members \subseteq Users /\ gap \subseteq Users
  /\ hb \in {"off", "wait", "closed"} /\ ack \in BOOLEAN /\ ackCh \in 0..1
  /\ timer \in {"fired", "running"}
  /\ link \in {"down", "up", "cut"}
  /\ wire \in Seq(Messages(ToClient)) /\ out \in Seq(Messages(ToDiscord))
  /\ session \in 0..MaxSession
  /\ valid \in BOOLEAN /\ attached \in BOOLEAN /\ hostDead \in BOOLEAN
  /\ log \in Seq([kind : {"ready", "create", "chunk", "add", "remove", "other"},
                  users : SUBSET Users])
  /\ changes \in 0..MaxGuild /\ losses \in 0..MaxLosses
  /\ done \in Seq(1..MaxLog) /\ Len(done) <= MaxLog /\ missed \in BOOLEAN

\* connected: between a dial and the return of connectAndServe.
Connected == phase # "dial"

\* Every event Discord has emitted has been handled, on a live connection.
CaughtUp == attached /\ Len(done) = Len(log)

\* Reconnecting loses and repeats nothing: the session's sequence number, kept
\* before a message is handled and sent with every resume, makes the handlers
\* see each session's events once and in order.
Stream == INSTANCE EventStream WITH epoch <- session, emitted <- Len(log)
StreamSpec == Stream!Spec

\* With nothing left to handle or to answer, every member of the guild is
\* monitored, unless the connection was lost with a member request on it (its
\* loss is ignored and a resume does not repeat it); and who is monitored but
\* no member left between two sessions.
MembersMonitored ==
  (CaughtUp /\ Requests(out) = {}) =>
    /\ missed \/ members \subseteq monitored
    /\ monitored \subseteq members \cup gap

Acks == Cardinality({i \in 1..Len(wire) : wire[i].op = "ack"})
        + (IF got.op = "ack" THEN 1 ELSE 0) + ackCh
Beats == Cardinality({i \in 1..Len(out) : out[i].op = "beat"})

\* At most one heartbeat is unanswered, and none once its ACK is taken: ackCh is
\* never full when an ACK arrives, so none is dropped for want of room.
OneBeatInFlight ==
  /\ Beats + Acks <= 1
  /\ (hb = "wait" /\ ack) => Beats + Acks = 0

\* Run keeps going: the client catches up with Discord again and again, through
\* lost connections, reconnects, refused resumes and late ACKs, as long as the
\* host it resumes at exists.
CatchesUp == []<>(CaughtUp \/ hostDead)

\* A connection that goes silent after HELLO is dropped: the heartbeat goroutine
\* closes it and the reader returns.
SilenceNoticed == (link = "cut" /\ hb = "wait") ~> link = "down"

\* "closes the socket (to trigger a resume) if Discord stops acknowledging"
\* (client.go:233-234): no socket is closed whose last heartbeat was answered.
ClosesOnlyUnacknowledged ==
  [][(hb = "wait" /\ hb' = "closed") => Acks = 0]_vars

\* "Run connects to Discord and keeps the connection alive, resuming or
\* re-identifying as needed" (client.go:101-102).
KeepsConnection == []<>Connected

=============================================================================
