------------------------------- MODULE IpcSocket -------------------------------
(***************************************************************************)
(* The IPC socket (src/src/ipc_socket.c): clients connect to a Unix stream  *)
(* socket, send requests of a header and a payload, and are sent a reply to *)
(* each and the events they subscribed to.                                  *)
(*                                                                          *)
(* A stream is a sequence of units, each a piece of a header or a payload.  *)
(* A read takes some of the units that are there; a sendmsg() puts as many  *)
(* as there is room for.  The event loop's handlers run one at a time, but  *)
(* the peers are other processes: they write, read and hang up at any time, *)
(* also between two calls of sendmsg() in one handler.                      *)
(*                                                                          *)
(* Left out here: what commands do to windows (WMBindings) and the text of  *)
(* replies, payloads above 65536 bytes, a subscribe request without a       *)
(* payload, interrupted calls, failures of accept(), shutdown.              *)
(***************************************************************************)
EXTENDS Integers, Sequences

CONSTANTS
  Connections, NoConnection,
  Topics,      (* what can be subscribed to                                 *)
  Zero,        (* a unit of a payload buffer never written                  *)
  Requests,    (* the requests clients send                                 *)
  HeaderSize,  (* IPC_HEADER_SIZE, in units                                 *)
  MsgSize,     (* the units of a reply or an event                          *)
  EventsMax,   (* the broadcasts one command may cause                      *)
  BufMax,      (* the units a socket takes before its reader must read      *)
  InboxMax     (* the same in the other direction                           *)

(* `magic` is false for what does not begin with IPC_MAGIC; a payload is a  *)
(* sequence of words, among them the names of topics.                       *)
ASSUME ConstantsAssumption ==
  /\ NoConnection \notin Connections
  /\ Zero \notin Topics
  /\ \A r \in Requests :
       /\ r.magic \in BOOLEAN
       /\ r.type \in {"command", "subscribe", "other"}
       /\ r.payload \in Seq(STRING)
       /\ r.type = "subscribe" => r.payload # <<>>
  /\ HeaderSize \in Nat \ {0} /\ MsgSize \in Nat \ {0}
  /\ BufMax \in Nat \ {0} /\ InboxMax \in Nat /\ EventsMax \in Nat

Size(r) == HeaderSize + Len(r.payload)

Unit == [of : Requests, at : Nat \ {0}]

Units(r) == [i \in 1..Size(r) |-> [of |-> r, at |-> i]]

VARIABLES
  ipc_clients, (* the connections accepted                                  *)
  conn,        (* the fields of each struct ipc_client                      *)
  inbox,       (* what each peer has written and nobody has read            *)
  gone,        (* the peers that have closed their end                      *)
  unread,      (* the number of units a peer has not read                   *)
  events,      (* the broadcasts still to come in the handler that runs     *)
  audience,    (* the connections the one going on has yet to send to       *)
  replying,    (* the connection to be sent a reply after them              *)
  current,     (* the one ipc_send_raw() is sending to                      *)
  sent, pos,   (* its `sent`, and how far it has advanced the iovecs        *)
  heard,       (* history: the last unit of a message put into each stream, *)
               (* 0 after a whole one                                       *)
  torn,        (* history: the streams that have units missing or doubled   *)
  cut          (* history: those to which a message was given up half-way,  *)
               (* or resumed twice                                          *)

input == <<ipc_clients, conn, inbox, gone>>
output == <<unread, sent, pos, current, heard, torn, cut>>
handler == <<events, audience, replying>>
vars == <<input, handler, output>>

(* calloc()ed: msg_type 0 is IPC_COMMAND.                                   *)
FreshConn ==
  [hdr |-> <<>>, header_done |-> FALSE, payload |-> <<>>, payload_len |-> 0,
   payload_size |-> 0, msg_type |-> "command", subscribed |-> {}]

Init ==
  /\ ipc_clients = {}
  /\ conn = [k \in Connections |-> FreshConn]
  /\ inbox = [k \in Connections |-> <<>>]
  /\ gone = {}
  /\ unread = [k \in Connections |-> 0]
  /\ events = 0 /\ audience = {} /\ replying = NoConnection
  /\ current = NoConnection
  /\ sent = 0 /\ pos = 0
  /\ heard = [k \in Connections |-> 0]
  /\ torn = {} /\ cut = {}

(* No handler is in the middle of sending.                                  *)
Idle == events = 0 /\ audience = {} /\ replying = NoConnection

-----------------------------------------------------------------------------
(* The peers.                                                               *)

Post(k, r) ==
  /\ k \in ipc_clients \ gone
  /\ Len(inbox[k]) + Size(r) =< InboxMax
  /\ inbox' = [inbox EXCEPT ![k] = @ \o Units(r)]
  /\ UNCHANGED <<ipc_clients, conn, gone, handler, output>>

Drain(k) ==
  /\ unread[k] > 0
  /\ unread' = [unread EXCEPT ![k] = @ - 1]
  /\ UNCHANGED <<input, handler, current, sent, pos, heard, torn, cut>>

HangUp(k) ==
  /\ k \in ipc_clients \ gone
  /\ gone' = gone \cup {k}
  /\ UNCHANGED <<ipc_clients, conn, inbox, handler, output>>

-----------------------------------------------------------------------------
(* ipc_handle_accept(), ipc_client_close().                                 *)

Accept(k) ==
  /\ Idle
  /\ k \notin ipc_clients
  /\ ipc_clients' = ipc_clients \cup {k}
  /\ UNCHANGED <<conn, inbox, gone, handler, output>>

Close(k) ==
  /\ ipc_clients' = ipc_clients \ {k}
  /\ conn' = [conn EXCEPT ![k] = FreshConn]
  /\ inbox' = [inbox EXCEPT ![k] = <<>>]
  /\ gone' = gone \ {k}
  /\ unread' = [unread EXCEPT ![k] = 0]
  /\ heard' = [heard EXCEPT ![k] = 0]
  /\ torn' = torn \ {k} /\ cut' = cut \ {k}
  /\ UNCHANGED <<handler, current, sent, pos>>

(* WL_EVENT_HANGUP comes first: what is unread then is not looked at.       *)
CloseHungUp(k) ==
  /\ Idle
  /\ k \in ipc_clients \cap gone
  /\ Close(k)

-----------------------------------------------------------------------------
(* ipc_client_handle_readable(): as much of the header as is missing, then  *)
(* as much of the payload, then the request is dispatched.                  *)

Readable(k) == Idle /\ k \in ipc_clients \ gone /\ inbox[k] # <<>>

Take(q, n) == SubSeq(q, 1, n)
Rest(q, n) == SubSeq(q, n + 1, Len(q))

HeaderMissing(c) == IF c.header_done THEN 0 ELSE HeaderSize - Len(c.hdr)

WithHeader(c, units) == [c EXCEPT !.hdr = @ \o units]

MagicOK(c) == c.hdr[1].at = 1 /\ c.hdr[1].of.magic

(* Mutant of Parsed: the size is taken to count the terminator.             *)
ParsedOneMore(c) ==
  LET r == c.hdr[HeaderSize].of
      size == Len(r.payload) + 1
  IN  [c EXCEPT !.header_done = TRUE,
                !.msg_type = r.type,
                !.payload_size = size,
                !.payload_len = 0,
                !.payload = IF size > Len(@) THEN [i \in 1..(size + 1) |-> Zero] ELSE @]

(* The payload goes into the buffer there is, if it is long enough.         *)
Parsed(c) ==
  LET r == c.hdr[HeaderSize].of
      size == Len(r.payload)
  IN  [c EXCEPT !.header_done = TRUE,
                !.msg_type = r.type,
                !.payload_size = size,
                !.payload_len = IF size > 0 THEN 0 ELSE @,
                !.payload = IF size > Len(@) THEN [i \in 1..(size + 1) |-> Zero] ELSE @]

Word(u) == IF u.at > HeaderSize THEN u.of.payload[u.at - HeaderSize] ELSE Zero

(* Mutant of Filled: every read starts at the front of the buffer.          *)
FilledFromFront(c, units) ==
  [c EXCEPT !.payload_len = @ + Len(units),
            !.payload = [i \in 1..Len(@) |->
               IF i =< Len(units) THEN Word(units[i]) ELSE @[i]]]

Filled(c, units) ==
  [c EXCEPT !.payload_len = @ + Len(units),
            !.payload = [i \in 1..Len(@) |->
               IF i > c.payload_len /\ i =< c.payload_len + Len(units)
               THEN Word(units[i - c.payload_len]) ELSE @[i]]]

(* The connection once the header is complete.                              *)
Headed(c, q) ==
  IF c.header_done THEN c ELSE Parsed(WithHeader(c, Take(q, HeaderMissing(c))))

PayloadMissing(c) == c.payload_size - c.payload_len

ReadHeader(k) ==
  /\ Readable(k)
  /\ \E n \in 1..Len(inbox[k]) :
       /\ n < HeaderMissing(conn[k])
       /\ conn' = [conn EXCEPT ![k] = WithHeader(@, Take(inbox[k], n))]
       /\ inbox' = [inbox EXCEPT ![k] = Rest(@, n)]
  /\ UNCHANGED <<ipc_clients, gone, handler, output>>

BadMagic(k) ==
  /\ Readable(k)
  /\ ~conn[k].header_done
  /\ HeaderMissing(conn[k]) =< Len(inbox[k])
  /\ ~MagicOK(WithHeader(conn[k], Take(inbox[k], HeaderMissing(conn[k]))))
  /\ Close(k)

Complete(k) ==
  /\ HeaderMissing(conn[k]) =< Len(inbox[k])
  /\ conn[k].header_done
     \/ MagicOK(WithHeader(conn[k], Take(inbox[k], HeaderMissing(conn[k]))))

ReadPayload(k) ==
  /\ Readable(k)
  /\ Complete(k)
  /\ LET h == HeaderMissing(conn[k])
         c == Headed(conn[k], inbox[k])
     IN  \E n \in 0..(Len(inbox[k]) - h) :
           /\ n < PayloadMissing(c)
           /\ h + n > 0
           /\ conn' = [conn EXCEPT ![k] = Filled(c, Take(Rest(inbox[k], h), n))]
           /\ inbox' = [inbox EXCEPT ![k] = Rest(@, h + n)]
  /\ UNCHANGED <<ipc_clients, gone, handler, output>>

-----------------------------------------------------------------------------
(* Dispatch: the handlers of the requests.                                  *)

(* Mutant of ForNext: the header's length is not reset.                     *)
ForNextKeepHeader(c) ==
  [c EXCEPT !.header_done = FALSE, !.payload_len = 0, !.payload_size = 0]

(* "Reset for next message."                                                *)
ForNext(c) ==
  [c EXCEPT !.hdr = <<>>, !.header_done = FALSE, !.payload_len = 0, !.payload_size = 0]

(* strstr() looks through the whole buffer, also what an earlier and longer *)
(* payload left behind, up to a zero; without one it reads on.              *)
Before(i, buffer) == \A j \in 1..i : buffer[j] # Zero

Found(buffer) == {t \in Topics : \E i \in 1..Len(buffer) : Before(i, buffer) /\ buffer[i] = t}

Subscribe(c, extra) ==
  IF c.msg_type = "subscribe"
  THEN [c EXCEPT !.subscribed =
          Found(c.payload) \cup {t \in extra : Before(Len(c.payload), c.payload)}]
  ELSE c

Listeners(topic) == {k \in ipc_clients : topic \in conn[k].subscribed}

Dispatch(k) ==
  /\ Readable(k)
  /\ Complete(k)
  /\ LET h == HeaderMissing(conn[k])
         c == Headed(conn[k], inbox[k])
         n == PayloadMissing(c)
         done == Filled(c, Take(Rest(inbox[k], h), n))
     IN  /\ h + n =< Len(inbox[k])
         /\ \E extra \in SUBSET Topics :
              conn' = [conn EXCEPT ![k] = ForNext(Subscribe(done, extra))]
         /\ inbox' = [inbox EXCEPT ![k] = Rest(@, h + n)]
         /\ events' \in 0..EventsMax
         /\ events' > 0 => done.msg_type = "command"
         /\ replying' = k
  /\ UNCHANGED <<ipc_clients, gone, audience, output>>

(* Each printstatus() of a command broadcasts, before the reply is sent.    *)
Broadcast ==
  /\ events > 0 /\ audience = {}
  /\ events' = events - 1
  /\ audience' = Listeners("workspace")
  /\ UNCHANGED <<input, replying, output>>

(* An event of a topic that nobody's request caused.                        *)
Emit(topic) ==
  /\ Idle
  /\ audience' = Listeners(topic)
  /\ UNCHANGED <<input, events, replying, output>>

-----------------------------------------------------------------------------
(* ipc_send_raw(): one sendmsg() is one step.                               *)

Target(k) ==
  IF sent > 0 THEN k = current
  ELSE IF audience # {} THEN k \in audience
       ELSE events = 0 /\ k \in Connections /\ k = replying

Sent(k) ==
  /\ IF audience # {} THEN audience' = audience \ {k} /\ UNCHANGED replying
                      ELSE replying' = NoConnection /\ UNCHANGED audience
  /\ UNCHANGED events
  /\ sent' = 0 /\ pos' = 0 /\ current' = NoConnection

(* EPIPE; nobody looks at the result.                                       *)
SendFails(k) ==
  /\ Target(k)
  /\ k \in gone
  /\ Sent(k)
  /\ UNCHANGED <<input, unread, heard, torn, cut>>

(* EAGAIN.                                                                  *)
SendFull(k) ==
  /\ Target(k)
  /\ k \notin gone
  /\ pos < MsgSize /\ unread[k] = BufMax
  /\ Sent(k)
  /\ cut' = IF sent > 0 THEN cut \cup {k} ELSE cut
  /\ UNCHANGED <<input, unread, heard, torn>>

(* Mutant of Advance: the iovecs stay where they were.                      *)
AdvanceNot(p, total) == p

(* The iovecs are advanced by all that was sent, not by what was sent last. *)
Advance(p, total) == IF p + total < MsgSize THEN p + total ELSE MsgSize

Least(a, b) == IF a < b THEN a ELSE b

Put(k, n) ==
  /\ unread' = [unread EXCEPT ![k] = @ + n]
  /\ heard' = [heard EXCEPT ![k] = IF pos + n = MsgSize THEN 0 ELSE pos + n]
  /\ torn' = IF heard[k] = pos THEN torn ELSE torn \cup {k}

SendSome(k) ==
  /\ Target(k)
  /\ k \notin gone
  /\ pos < MsgSize /\ unread[k] < BufMax
  /\ LET n == Least(MsgSize - pos, BufMax - unread[k])
     IN  /\ Put(k, n)
         /\ IF sent + n = MsgSize
            THEN Sent(k) /\ UNCHANGED cut
            ELSE /\ sent' = sent + n
                 /\ pos' = Advance(pos, sent + n)
                 /\ current' = k
                 /\ cut' = IF sent > 0 THEN cut \cup {k} ELSE cut
                 /\ UNCHANGED handler
  /\ UNCHANGED input

(* With nothing left in the iovecs sendmsg() returns 0, again and again.    *)
Spinning == sent > 0 /\ pos = MsgSize

-----------------------------------------------------------------------------

Peer(k) == (\E r \in Requests : Post(k, r)) \/ Drain(k) \/ HangUp(k)

HandleReadable(k) == ReadHeader(k) \/ BadMagic(k) \/ ReadPayload(k) \/ Dispatch(k)

Send == Broadcast \/ \E k \in Connections : SendFails(k) \/ SendFull(k) \/ SendSome(k)

Next ==
  \/ \E k \in Connections : Peer(k) \/ Accept(k) \/ CloseHungUp(k) \/ HandleReadable(k)
  \/ \E topic \in Topics : Emit(topic)
  \/ Send

Spec == Init /\ [][Next]_vars

(* A handler goes on and sendmsg() returns; epoll reports every connection that stays ready, and  *)
(* the event loop calls the handler of each that is reported.               *)
FairSpec ==
  /\ Spec
  /\ WF_vars(Send)
  /\ \A k \in Connections : SF_vars(HandleReadable(k)) /\ SF_vars(CloseHungUp(k))

-----------------------------------------------------------------------------

Conn ==
  [hdr : Seq(Unit), header_done : BOOLEAN, payload : Seq(STRING \cup {Zero}),
   payload_len : Nat, payload_size : Nat,
   msg_type : {"command", "subscribe", "other"}, subscribed : SUBSET Topics]

(* Every variable holds a value of its C type, and a connection that is     *)
(* closed leaves nothing behind.                                            *)
TypeOK ==
  /\ ipc_clients \subseteq Connections
  /\ conn \in [Connections -> Conn]
  /\ inbox \in [Connections -> Seq(Unit)]
  /\ gone \subseteq ipc_clients
  /\ unread \in [Connections -> 0..BufMax]
  /\ events \in 0..EventsMax /\ audience \subseteq ipc_clients
  /\ replying \in ipc_clients \cup {NoConnection}
  /\ current \in ipc_clients \cup {NoConnection}
  /\ sent \in 0..(MsgSize - 1) /\ pos \in 0..MsgSize
  /\ heard \in [Connections -> 0..(MsgSize - 1)]
  /\ torn \subseteq ipc_clients /\ cut \subseteq ipc_clients
  /\ \A k \in Connections \ ipc_clients :
       conn[k] = FreshConn /\ inbox[k] = <<>> /\ unread[k] = 0 /\ heard[k] = 0

(* The state machine of partial reads is in step with the stream: the       *)
(* header read so far is the beginning of one request, the payload read so  *)
(* far the beginning of its payload, and what is unread goes on from there, *)
(* request after request.                                                   *)
Progress(c) == Len(c.hdr) + c.payload_len

HeaderInStep(c) ==
  /\ Len(c.hdr) =< HeaderSize
  /\ c.header_done <=> Len(c.hdr) = HeaderSize
  /\ \A i \in 1..Len(c.hdr) : c.hdr[i].of = c.hdr[1].of /\ c.hdr[i].at = i

PayloadInStep(c) ==
  IF c.header_done
  THEN LET r == c.hdr[1].of
       IN  /\ c.msg_type = r.type
           /\ c.payload_size = Len(r.payload)
           /\ c.payload_len < c.payload_size
           /\ c.payload_size =< Len(c.payload)
           /\ \A i \in 1..c.payload_len : c.payload[i] = r.payload[i]
  ELSE c.payload_len = 0

GoesOn(u, v) ==
  IF u.at = Size(u.of) THEN v.at = 1 ELSE v.of = u.of /\ v.at = u.at + 1

InboxInStep(c, q) ==
  /\ IF Progress(c) = 0 THEN q # <<>> => q[1].at = 1
     ELSE /\ q # <<>>
          /\ q[1].of = c.hdr[1].of /\ q[1].at = Progress(c) + 1
  /\ \A i \in 1..(Len(q) - 1) : GoesOn(q[i], q[i + 1])
  /\ q # <<>> => q[Len(q)].at = Size(q[Len(q)].of)
  /\ \A i \in 1..Len(q) : q[i].at =< Size(q[i].of)

ReadsInStep ==
  \A k \in ipc_clients :
    /\ HeaderInStep(conn[k])
    /\ PayloadInStep(conn[k])
    /\ InboxInStep(conn[k], inbox[k])

(* A reply answers a request as it was sent, once and in its turn: a step   *)
(* that takes the last unit of a request takes no unit beyond it, and it    *)
(* answers a request of that type with that payload, unless the connection  *)
(* is closed; and there is no other reply.                                  *)
Taken(k) == Len(inbox[k]) - Len(inbox'[k])

Answers(k, r) ==
  /\ replying' = k /\ Idle
  /\ conn'[k].msg_type = r.type
  /\ \A i \in 1..Len(r.payload) : conn'[k].payload[i] = r.payload[i]

AnsweredAsSent ==
  [][\A k \in ipc_clients \cap ipc_clients' :
       /\ \A i \in 1..Taken(k) :
            inbox[k][i].at = Size(inbox[k][i].of) =>
              i = Taken(k) /\ Answers(k, inbox[k][i].of)
       /\ Idle /\ replying' = k =>
            Taken(k) > 0 /\ inbox[k][Taken(k)].at = Size(inbox[k][Taken(k)].of)]_vars

(* However full the socket and however slow the reader, a stream is whole   *)
(* messages one after another, as long as no message was given up half-way  *)
(* (EAGAIN after a part of it) or took a third sendmsg().                   *)
WholeMessages == torn \subseteq cut

(* A request of which a part has been read is answered, or its connection   *)
(* closed, unless the compositor spins in ipc_send_raw().                   *)
ReadsFinish ==
  \A k \in Connections : conn[k].hdr # <<>> ~> (conn[k].hdr = <<>> \/ Spinning)

(* ipc_send_raw(), "Advance iovecs past what was sent": sending ends, while *)
(* peers may read slowly or not at all.                                     *)
SendsEnd == ~Idle ~> Idle
=============================================================================
