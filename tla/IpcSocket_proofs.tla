--------------------------- MODULE IpcSocket_proofs ---------------------------
(***************************************************************************)
(* Whatever the peers and the kernel do, for any number of connections and  *)
(* any sizes, no stream of the IPC socket has a message with a hole in it   *)
(* before a message to it was given up half-way or took a third sendmsg();  *)
(* and however a client's bytes arrive, the partial reads of every          *)
(* connection stay in step with its stream, and each request is answered    *)
(* once, in its turn and as it was sent.                                    *)
(***************************************************************************)
EXTENDS IpcSocket, SequenceTheorems, TLAPS

(* The types of what ipc_send_raw() works on, a part of TypeOK.             *)
SendTypes ==
  /\ unread \in [Connections -> 0..BufMax]
  /\ heard \in [Connections -> Nat]
  /\ sent \in Nat /\ pos \in Nat

(* A broadcast goes on, or the reply is due.                                *)
Sending == audience # {} \/ (events = 0 /\ replying # NoConnection)

(* A message is begun only in a handler that has something left to send, and *)
(* what the iovecs skip is what was sent, up to the second sendmsg().        *)
SendInStep ==
  /\ sent = 0 => pos = 0
  /\ sent > 0 => Sending /\ current \in Connections
  /\ sent > 0 /\ current \notin cut => pos = sent

(* A stream still read by its peer ends in a whole message, or in the part  *)
(* of the one being sent that the iovecs skip.                              *)
Pending(k) == IF sent > 0 /\ current = k THEN pos ELSE 0

StreamsInStep ==
  \A k \in Connections : k \notin cut \cup gone => heard[k] = Pending(k)

(* The inductive invariant.                                                 *)
WholeInv ==
  /\ SendTypes
  /\ SendInStep
  /\ StreamsInStep
  /\ WholeMessages

LEMMA WholeInit == Init => WholeInv
BY ConstantsAssumption
   DEF Init, WholeInv, SendTypes, SendInStep, StreamsInStep, Pending, WholeMessages

(* Closing a connection, which only the event loop does, forgets its        *)
(* stream; no message is being sent then.                                   *)
LEMMA WholeClose ==
  ASSUME WholeInv, Idle, NEW k \in Connections, Close(k)
  PROVE  WholeInv'
<1>1. sent = 0 /\ pos = 0
  BY DEF Idle, Sending, WholeInv, SendTypes, SendInStep
<1>2. SendTypes'
  BY ConstantsAssumption DEF Close, WholeInv, SendTypes
<1>3. SendInStep'
  BY <1>1 DEF Close, SendInStep
<1>4. StreamsInStep'
  <2> SUFFICES ASSUME NEW j \in Connections, j \notin cut' \cup gone'
               PROVE  heard'[j] = Pending(j)'
    BY DEF StreamsInStep
  <2>1. Pending(j)' = 0
    BY <1>1 DEF Close, Pending
  <2>2. CASE j = k
    BY <2>1, <2>2 DEF Close, WholeInv, SendTypes
  <2>3. CASE j # k
    <3>1. j \notin cut \cup gone
      BY <2>3 DEF Close
    <3>2. heard[j] = 0
      BY <3>1, <1>1 DEF WholeInv, StreamsInStep, Pending
    <3> QED BY <3>2, <2>1, <2>3 DEF Close, WholeInv, SendTypes
  <2> QED BY <2>2, <2>3
<1>5. WholeMessages'
  BY DEF Close, WholeInv, WholeMessages
<1> QED BY <1>2, <1>3, <1>4, <1>5 DEF WholeInv

(* What leaves the streams and the message being sent alone, and makes no   *)
(* peer that has hung up read again.                                        *)
LEMMA WholeElsewhere ==
  ASSUME WholeInv, UNCHANGED <<sent, pos, current, heard, torn, cut>>,
         gone \subseteq gone', SendTypes', sent > 0 => Sending'
  PROVE  WholeInv'
<1>1. SendInStep'
  BY DEF WholeInv, SendInStep
<1>2. StreamsInStep'
  BY DEF WholeInv, StreamsInStep, Pending
<1>3. WholeMessages'
  BY DEF WholeInv, WholeMessages
<1> QED BY <1>1, <1>2, <1>3 DEF WholeInv

(* ipc_send_raw() returns: what it had sent of a message that is given up   *)
(* stays behind in a stream that is cut, or that nobody reads.              *)
LEMMA WholeGivenUp ==
  ASSUME WholeInv, NEW k \in Connections, Target(k), Sent(k),
         UNCHANGED <<gone, unread, heard, torn>>,
         \/ k \in gone /\ cut' = cut
         \/ cut' = IF sent > 0 THEN cut \cup {k} ELSE cut
  PROVE  WholeInv'
<1>1. sent' = 0 /\ pos' = 0
  BY DEF Sent
<1>2. SendTypes'
  BY <1>1 DEF WholeInv, SendTypes
<1>3. SendInStep'
  BY <1>1 DEF SendInStep
<1>4. StreamsInStep'
  <2> SUFFICES ASSUME NEW j \in Connections, j \notin cut' \cup gone
               PROVE  heard[j] = 0
    BY <1>1 DEF StreamsInStep, Pending
  <2>1. j \notin cut
    OBVIOUS
  <2>2. heard[j] = Pending(j)
    BY <2>1 DEF WholeInv, StreamsInStep
  <2>3. sent > 0 => j # current
    BY DEF Target
  <2> QED BY <2>2, <2>3 DEF Pending
<1>5. WholeMessages'
  BY DEF WholeInv, WholeMessages
<1> QED BY <1>2, <1>3, <1>4, <1>5 DEF WholeInv

LEMMA WholeSendSome ==
  ASSUME WholeInv, NEW k \in Connections, SendSome(k)
  PROVE  WholeInv'
<1> DEFINE n == Least(MsgSize - pos, BufMax - unread[k])
<1>1. /\ MsgSize \in Nat /\ BufMax \in Nat
      /\ sent \in Nat /\ pos \in Nat /\ unread[k] \in 0..BufMax
  BY ConstantsAssumption DEF WholeInv, SendTypes
<1>2. /\ n \in Nat \ {0}
      /\ pos + n =< MsgSize
      /\ unread[k] + n =< BufMax
  BY <1>1 DEF SendSome, Least
<1>3. /\ Target(k) /\ k \notin gone /\ gone' = gone
      /\ Put(k, n)
      /\ IF sent + n = MsgSize
         THEN Sent(k) /\ UNCHANGED cut
         ELSE /\ sent' = sent + n
              /\ pos' = Advance(pos, sent + n)
              /\ current' = k
              /\ cut' = IF sent > 0 THEN cut \cup {k} ELSE cut
              /\ UNCHANGED handler
  BY DEF SendSome, input
<1> HIDE DEF n
<1>4. k \notin cut => heard[k] = pos /\ pos = sent
  <2>1. sent > 0 => k = current
    BY <1>3 DEF Target
  <2> QED BY <1>1, <1>3, <2>1 DEF WholeInv, StreamsInStep, Pending, SendInStep
<1>5. \A j \in Connections : j # k => heard'[j] = heard[j]
  BY <1>3 DEF Put, WholeInv, SendTypes
<1>6. heard'[k] = IF pos + n = MsgSize THEN 0 ELSE pos + n
  BY <1>3 DEF Put, WholeInv, SendTypes
<1>7. sent' \in Nat /\ pos' \in Nat
  BY <1>1, <1>2, <1>3 DEF Sent, Advance
<1>8. SendTypes'
  BY <1>1, <1>2, <1>3, <1>7 DEF Put, WholeInv, SendTypes
<1>9. WholeMessages'
  BY <1>3, <1>4 DEF Put, WholeInv, WholeMessages
<1>10. \A j \in Connections : j # k /\ j \notin cut' \cup gone' => heard'[j] = 0
  <2> SUFFICES ASSUME NEW j \in Connections, j # k, j \notin cut' \cup gone'
               PROVE  heard[j] = 0
    BY <1>5
  <2>1. j \notin cut \cup gone
    BY <1>3
  <2>2. sent > 0 => j # current
    BY <1>3 DEF Target
  <2> QED BY <2>1, <2>2 DEF WholeInv, StreamsInStep, Pending
<1>11. CASE sent + n = MsgSize
  <2>1. sent' = 0 /\ pos' = 0 /\ cut' = cut
    BY <1>3, <1>11 DEF Sent
  <2>2. k \notin cut => heard'[k] = 0
    BY <1>4, <1>6, <1>11
  <2>3. StreamsInStep'
    BY <1>10, <2>1, <2>2 DEF StreamsInStep, Pending
  <2> QED BY <1>8, <1>9, <2>1, <2>3 DEF WholeInv, SendInStep
<1>12. CASE sent + n # MsgSize
  <2>1. sent' > 0 /\ current' = k /\ UNCHANGED handler
    BY <1>1, <1>2, <1>3, <1>12
  <2>2. Sending
    BY <1>3, <1>1, ConstantsAssumption DEF Sending, Target, WholeInv, SendInStep
  <2>3. k \notin cut' => k \notin cut /\ sent = 0 /\ pos = 0
    BY <1>1, <1>3, <1>12 DEF WholeInv, SendInStep
  <2>4. k \notin cut' => pos' = n /\ sent' = n /\ heard'[k] = n
    BY <1>1, <1>2, <1>3, <1>6, <1>12, <2>3 DEF Advance
  <2>5. SendInStep'
    BY <2>1, <2>2, <2>4 DEF SendInStep, Sending, handler
  <2>6. StreamsInStep'
    BY <1>10, <2>1, <2>4 DEF StreamsInStep, Pending
  <2> QED BY <1>8, <1>9, <2>5, <2>6 DEF WholeInv
<1> QED BY <1>11, <1>12

(* Each action preserves the invariant.                                     *)
LEMMA WholeStep == WholeInv /\ [Next]_vars => WholeInv'
<1> SUFFICES ASSUME WholeInv, [Next]_vars
             PROVE  WholeInv'
  OBVIOUS
<1>1. ASSUME Idle PROVE sent = 0
  BY <1>1 DEF Idle, Sending, WholeInv, SendTypes, SendInStep
<1>2. ASSUME NEW k \in Connections, NEW r \in Requests, Post(k, r) PROVE WholeInv'
  BY <1>2, WholeElsewhere DEF Post, output, WholeInv, SendTypes, SendInStep, Sending, handler
<1>3. ASSUME NEW k \in Connections, Drain(k) PROVE WholeInv'
  <2>1. SendTypes'
    BY <1>3, ConstantsAssumption DEF Drain, WholeInv, SendTypes
  <2> QED
    BY <1>3, <2>1, WholeElsewhere DEF Drain, input, WholeInv, SendInStep, Sending, handler
<1>4. ASSUME NEW k \in Connections, HangUp(k) PROVE WholeInv'
  BY <1>4, WholeElsewhere DEF HangUp, output, WholeInv, SendTypes, SendInStep, Sending, handler
<1>5. ASSUME NEW k \in Connections, Accept(k) PROVE WholeInv'
  BY <1>5, WholeElsewhere DEF Accept, output, WholeInv, SendTypes, SendInStep, Sending, handler
<1>6. ASSUME NEW k \in Connections, CloseHungUp(k) PROVE WholeInv'
  BY <1>6, WholeClose DEF CloseHungUp
<1>7. ASSUME NEW k \in Connections, ReadHeader(k) PROVE WholeInv'
  BY <1>7, WholeElsewhere DEF ReadHeader, output, WholeInv, SendTypes, SendInStep, Sending, handler
<1>8. ASSUME NEW k \in Connections, BadMagic(k) PROVE WholeInv'
  BY <1>8, WholeClose DEF BadMagic, Readable
<1>9. ASSUME NEW k \in Connections, ReadPayload(k) PROVE WholeInv'
  <2>1. UNCHANGED <<gone, handler, output>>
    BY <1>9 DEF ReadPayload
  <2> QED
    BY <2>1, WholeElsewhere DEF output, WholeInv, SendTypes, SendInStep, Sending, handler
<1>10. ASSUME NEW k \in Connections, Dispatch(k) PROVE WholeInv'
  <2>1. Idle /\ UNCHANGED <<gone, output>>
    BY <1>10 DEF Dispatch, Readable
  <2> QED
    BY <1>1, <2>1, WholeElsewhere DEF output, WholeInv, SendTypes
<1>11. ASSUME NEW topic \in Topics, Emit(topic) PROVE WholeInv'
  <2>1. Idle /\ UNCHANGED <<gone, output>>
    BY <1>11 DEF Emit, input
  <2> QED
    BY <1>1, <2>1, WholeElsewhere DEF output, WholeInv, SendTypes
<1>12. ASSUME Broadcast PROVE WholeInv'
  <2>1. sent = 0 /\ UNCHANGED <<input, output>>
    BY <1>12 DEF Broadcast, Sending, WholeInv, SendTypes, SendInStep
  <2> QED
    BY <2>1, WholeElsewhere DEF input, output, WholeInv, SendTypes
<1>13. ASSUME NEW k \in Connections, SendFails(k) PROVE WholeInv'
  BY <1>13, WholeGivenUp DEF SendFails, input
<1>14. ASSUME NEW k \in Connections, SendFull(k) PROVE WholeInv'
  BY <1>14, WholeGivenUp DEF SendFull, input
<1>15. ASSUME NEW k \in Connections, SendSome(k) PROVE WholeInv'
  BY <1>15, WholeSendSome
<1>16. CASE UNCHANGED vars
  BY <1>16, WholeElsewhere
     DEF vars, input, output, WholeInv, SendTypes, SendInStep, Sending, handler
<1> QED
  BY <1>2, <1>3, <1>4, <1>5, <1>6, <1>7, <1>8, <1>9, <1>10, <1>11, <1>12,
     <1>13, <1>14, <1>15, <1>16
     DEF Next, Peer, HandleReadable, Send

(* However full a socket and however slow its reader, the stream is whole   *)
(* messages one after another until a message is given up half-way or       *)
(* resumed twice: the two ways in which ipc_send_raw() can spoil it are the *)
(* only two.                                                                *)
THEOREM MessagesWhole == Spec => []WholeMessages
<1>1. WholeInv => WholeMessages
  BY DEF WholeInv
<1> QED BY <1>1, WholeInit, WholeStep, PTL DEF Spec

-----------------------------------------------------------------------------
(* The reading side.                                                        *)

(* What InboxInStep says of a stream by itself: it is made of whole         *)
(* requests but for the one that is read.  Runs is the same said without a  *)
(* step from one unit to the next: from a unit on, as long as its request   *)
(* goes, there is this request.                                             *)
Runs(q) ==
  \A i, j \in 1..Len(q) :
    i =< j /\ q[i].at + (j - i) =< Size(q[i].of)
      => q[j].of = q[i].of /\ q[j].at = q[i].at + (j - i)

Whole(q) ==
  /\ q \in Seq(Unit)
  /\ Runs(q)
  /\ \A i \in 1..(Len(q) - 1) : q[i].at = Size(q[i].of) => q[i + 1].at = 1
  /\ q # <<>> => q[Len(q)].at = Size(q[Len(q)].of)
  /\ \A i \in 1..Len(q) : q[i].at =< Size(q[i].of)

(* How far the request that is read has been read, and what comes first in  *)
(* the stream.                                                              *)
Meets(c, q) ==
  IF Progress(c) = 0 THEN q # <<>> => q[1].at = 1
  ELSE q # <<>> /\ q[1].of = c.hdr[1].of /\ q[1].at = Progress(c) + 1

InStep(c, q) ==
  /\ c \in Conn /\ Whole(q)
  /\ HeaderInStep(c) /\ PayloadInStep(c) /\ Meets(c, q)

-----------------------------------------------------------------------------
(* Streams                                                                  *)

LEMMA Sizes ==
  ASSUME NEW r \in Requests
  PROVE  /\ Len(r.payload) \in Nat /\ Size(r) \in Nat /\ Size(r) >= HeaderSize
         /\ HeaderSize \in Nat /\ HeaderSize > 0 /\ Size(r) > 0
         /\ Size(r) = HeaderSize + Len(r.payload)
BY ConstantsAssumption DEF Size

(* A unit of a stream.                                                      *)
LEMMA UnitOf ==
  ASSUME NEW q \in Seq(Unit), NEW i \in 1..Len(q)
  PROVE  /\ q[i] \in Unit /\ q[i].of \in Requests /\ q[i].at \in Nat /\ q[i].at > 0
         /\ Size(q[i].of) \in Nat /\ Size(q[i].of) > 0
<1>1. q[i] \in Unit
  BY ElementOfSeq
<1>2. q[i].of \in Requests /\ q[i].at \in Nat /\ q[i].at > 0
  BY <1>1 DEF Unit
<1> QED BY <1>1, <1>2, Sizes

LEMMA UnitsWhole ==
  ASSUME NEW r \in Requests
  PROVE  /\ Whole(Units(r)) /\ Len(Units(r)) = Size(r)
         /\ \A i \in 1..Size(r) : Units(r)[i].of = r /\ Units(r)[i].at = i
<1>1. Size(r) \in Nat /\ Size(r) > 0
  BY Sizes
<1>2. Units(r) \in Seq(Unit) /\ Len(Units(r)) = Size(r)
  <2> DEFINE e(i) == [of |-> r, at |-> i]
             t == [i \in 1..Size(r) |-> e(i)]
  <2>1. \A i \in 1..Size(r) : e(i) \in Unit
    BY <1>1 DEF Unit
  <2>2. Units(r) = t
    BY DEF Units
  <2> HIDE DEF e
  <2>3. \A i \in 1..Size(r) : t[i] \in Unit
    BY <2>1
  <2>4. t \in Seq(Unit) /\ Len(t) = Size(r)
    BY <1>1, <2>1
  <2> QED BY <2>2, <2>4
<1>3. \A i \in 1..Size(r) : Units(r)[i].of = r /\ Units(r)[i].at = i
  BY DEF Units
<1> QED BY <1>1, <1>2, <1>3 DEF Whole, Runs

(* A request joins the end of the stream.                                   *)
LEMMA Joined ==
  ASSUME NEW q, Whole(q), NEW r \in Requests
  PROVE  /\ Whole(q \o Units(r)) /\ q \o Units(r) # <<>>
         /\ (q \o Units(r))[1] = IF q = <<>> THEN Units(r)[1] ELSE q[1]
<1> DEFINE u == Units(r)
           s == q \o u
<1>1. q \in Seq(Unit) /\ u \in Seq(Unit) /\ Len(q) \in Nat
  BY UnitsWhole, LenProperties DEF Whole
<1>2. /\ s \in Seq(Unit) /\ Len(s) = Len(q) + Len(u)
      /\ \A i \in 1..Len(s) : s[i] = IF i =< Len(q) THEN q[i] ELSE u[i - Len(q)]
  BY <1>1, ConcatProperties
<1>3. /\ Len(u) = Size(r) /\ Size(r) \in Nat /\ Size(r) > 0
      /\ \A i \in 1..Len(u) : u[i].of = r /\ u[i].at = i
  BY UnitsWhole, Sizes
<1> HIDE DEF u, s
<1>4. \A i \in 1..Len(q) : q[i].at \in Nat /\ Size(q[i].of) \in Nat
  BY <1>1, UnitOf
<1>5. Runs(s)
  <2> SUFFICES ASSUME NEW i \in 1..Len(s), NEW j \in 1..Len(s), i =< j,
                      s[i].at + (j - i) =< Size(s[i].of)
               PROVE  s[j].of = s[i].of /\ s[j].at = s[i].at + (j - i)
    BY DEF Runs
  <2>1. CASE j =< Len(q)
    BY <1>1, <1>2, <1>3, <2>1 DEF Whole, Runs
  <2>2. CASE i > Len(q)
    <3>1. s[i] = u[i - Len(q)] /\ s[j] = u[j - Len(q)]
      BY <1>1, <1>2, <1>3, <2>2
    <3>2. i - Len(q) \in 1..Len(u) /\ j - Len(q) \in 1..Len(u)
      BY <1>1, <1>2, <1>3, <2>2
    <3>3. s[i].of = r /\ s[i].at = i - Len(q) /\ s[j].of = r /\ s[j].at = j - Len(q)
      BY <3>1, <3>2, <1>3
    <3> QED BY <3>3, <1>1, <1>2, <1>3
  <2>3. CASE i =< Len(q) /\ j > Len(q)
    <3>1. /\ s[i] = q[i] /\ i \in 1..Len(q) /\ Len(q) \in 1..Len(q)
      BY <1>1, <1>2, <1>3, <2>3
    <3>2. q[i].at + (Len(q) - i) < Size(q[i].of)
      BY <3>1, <1>1, <1>2, <1>3, <1>4, <2>3
    <3>3. \A a, b \in 1..Len(q) : a =< b /\ q[a].at + (b - a) =< Size(q[a].of)
                                  => q[b].of = q[a].of /\ q[b].at = q[a].at + (b - a)
      BY DEF Whole, Runs
    <3>4. i =< Len(q) /\ q[i].at + (Len(q) - i) =< Size(q[i].of)
      BY <3>1, <3>2, <1>1, <1>4
    <3>5. q[Len(q)].of = q[i].of /\ q[Len(q)].at = q[i].at + (Len(q) - i)
      BY <3>1, <3>3, <3>4
    <3>6. q # <<>>
      BY <3>1
    <3>7. q[Len(q)].at = Size(q[i].of)
      BY <3>5, <3>6 DEF Whole
    <3> QED BY <3>1, <3>2, <3>5, <3>7, <1>1, <1>4
  <2> QED BY <1>1, <1>2, <1>3, <2>1, <2>2, <2>3
<1>6. \A i \in 1..(Len(s) - 1) : s[i].at = Size(s[i].of) => s[i + 1].at = 1
  <2> SUFFICES ASSUME NEW i \in 1..(Len(s) - 1), s[i].at = Size(s[i].of)
               PROVE  s[i + 1].at = 1
    OBVIOUS
  <2>1. CASE i < Len(q)
    BY <1>1, <1>2, <1>3, <2>1 DEF Whole
  <2>2. CASE i = Len(q)
    BY <1>1, <1>2, <1>3, <2>2
  <2>3. CASE i > Len(q)
    <3>1. i - Len(q) \in 1..Len(u) /\ i - Len(q) # Size(r)
      BY <1>1, <1>2, <1>3, <2>3
    <3>2. s[i] = u[i - Len(q)]
      BY <1>1, <1>2, <1>3, <2>3
    <3> QED BY <3>1, <3>2, <1>3
  <2> QED BY <1>1, <1>2, <1>3, <2>1, <2>2, <2>3
<1>7. s # <<>> /\ s[Len(s)].at = Size(s[Len(s)].of)
  <2>1. Len(s) \in 1..Len(s) /\ s[Len(s)] = u[Len(u)] /\ Len(u) \in 1..Len(u)
    BY <1>1, <1>2, <1>3
  <2> QED BY <2>1, <1>3
<1>8. \A i \in 1..Len(s) : s[i].at =< Size(s[i].of)
  <2> SUFFICES ASSUME NEW i \in 1..Len(s) PROVE s[i].at =< Size(s[i].of)
    OBVIOUS
  <2>1. CASE i =< Len(q)
    BY <1>1, <1>2, <2>1 DEF Whole
  <2>2. CASE i > Len(q)
    BY <1>1, <1>2, <1>3, <2>2
  <2> QED BY <1>1, <1>2, <1>3, <2>1, <2>2
<1>9. s[1] = IF q = <<>> THEN u[1] ELSE q[1]
  BY <1>1, <1>2, <1>3, LenProperties, EmptySeq
<1> QED BY <1>2, <1>5, <1>6, <1>7, <1>8, <1>9 DEF Whole, s, u

(* The rest of the stream after n units.                                    *)
LEMMA RestWhole ==
  ASSUME NEW q, Whole(q), NEW n \in 0..Len(q)
  PROVE  /\ Whole(Rest(q, n)) /\ Len(Rest(q, n)) = Len(q) - n
         /\ \A i \in 1..(Len(q) - n) : Rest(q, n)[i] = q[n + i]
<1> DEFINE s == Rest(q, n)
<1>1. q \in Seq(Unit) /\ Len(q) \in Nat
  BY LenProperties DEF Whole
<1>2. \A i \in (n + 1)..Len(q) : q[i] \in Unit
  BY <1>1, ElementOfSeq
<1>3. /\ s \in Seq(Unit) /\ Len(s) = Len(q) - n
      /\ \A i \in 1..(Len(q) - n) : s[i] = q[n + i]
  <2> DEFINE a == n + 1
  <2>1. a \in Int /\ Len(q) \in Int
    BY <1>1
  <2>2. /\ SubSeq(q, a, Len(q)) \in Seq(Unit)
        /\ Len(SubSeq(q, a, Len(q))) = IF a <= Len(q) THEN Len(q) - a + 1 ELSE 0
        /\ \A i \in 1..(Len(q) - a + 1) : SubSeq(q, a, Len(q))[i] = q[a + i - 1]
    BY <1>2, <2>1, SubSeqProperties
  <2> QED BY <1>1, <2>1, <2>2 DEF Rest
<1> HIDE DEF s
<1>4. Runs(s)
  <2> SUFFICES ASSUME NEW i \in 1..Len(s), NEW j \in 1..Len(s), i =< j,
                      s[i].at + (j - i) =< Size(s[i].of)
               PROVE  s[j].of = s[i].of /\ s[j].at = s[i].at + (j - i)
    BY DEF Runs
  <2> DEFINE a == n + i
             b == n + j
  <2>1. a \in 1..Len(q) /\ b \in 1..Len(q) /\ a =< b /\ b - a = j - i
    BY <1>1, <1>3
  <2>2. s[i] = q[a] /\ s[j] = q[b]
    BY <1>1, <1>3
  <2> HIDE DEF a, b
  <2>3. q[b].of = q[a].of /\ q[b].at = q[a].at + (b - a)
    BY <2>1, <2>2 DEF Whole, Runs
  <2> QED BY <2>1, <2>2, <2>3
<1>5. \A i \in 1..(Len(s) - 1) : s[i].at = Size(s[i].of) => s[i + 1].at = 1
  <2> SUFFICES ASSUME NEW i \in 1..(Len(s) - 1), s[i].at = Size(s[i].of)
               PROVE  s[i + 1].at = 1
    OBVIOUS
  <2>1. n + i \in 1..(Len(q) - 1) /\ i \in 1..(Len(q) - n) /\ i + 1 \in 1..(Len(q) - n)
    BY <1>1, <1>3
  <2>2. s[i] = q[n + i] /\ s[i + 1] = q[n + i + 1]
    BY <1>1, <1>3, <2>1
  <2> QED BY <2>1, <2>2 DEF Whole
<1>6. s # <<>> => s[Len(s)].at = Size(s[Len(s)].of)
  <2> SUFFICES ASSUME s # <<>> PROVE s[Len(s)].at = Size(s[Len(s)].of)
    OBVIOUS
  <2>1. Len(s) \in Nat \ {0}
    BY <1>3, EmptySeq
  <2>2. s[Len(s)] = q[Len(q)] /\ q # <<>>
    BY <1>1, <1>3, <2>1
  <2> QED BY <2>2 DEF Whole
<1>7. \A i \in 1..Len(s) : s[i].at =< Size(s[i].of)
  BY <1>1, <1>3 DEF Whole
<1> QED BY <1>3, <1>4, <1>5, <1>6, <1>7 DEF Whole, s

LEMMA TakeSeq ==
  ASSUME NEW q \in Seq(Unit), NEW n \in 0..Len(q)
  PROVE  /\ Take(q, n) \in Seq(Unit) /\ Len(Take(q, n)) = n
         /\ \A i \in 1..n : Take(q, n)[i] = q[i]
<1>1. Len(q) \in Nat /\ n \in Int /\ 1 \in Int
  BY LenProperties
<1>2. \A i \in 1..n : q[i] \in Unit
  BY <1>1, ElementOfSeq
<1>3. /\ SubSeq(q, 1, n) \in Seq(Unit)
      /\ Len(SubSeq(q, 1, n)) = IF 1 <= n THEN n - 1 + 1 ELSE 0
      /\ \A i \in 1..(n - 1 + 1) : SubSeq(q, 1, n)[i] = q[1 + i - 1]
  BY <1>1, <1>2, SubSeqProperties
<1> QED BY <1>1, <1>3 DEF Take

(* A header gets longer by the first n units of the stream.                 *)
LEMMA Longer ==
  ASSUME NEW s \in Seq(Unit), NEW q \in Seq(Unit), NEW n \in 0..Len(q)
  PROVE  /\ s \o Take(q, n) \in Seq(Unit) /\ Len(s \o Take(q, n)) = Len(s) + n
         /\ \A i \in 1..Len(s) : (s \o Take(q, n))[i] = s[i]
         /\ \A i \in 1..n : (s \o Take(q, n))[Len(s) + i] = q[i]
<1> DEFINE t == Take(q, n)
<1>1. t \in Seq(Unit) /\ Len(t) = n /\ \A i \in 1..n : t[i] = q[i]
  BY TakeSeq
<1>2. Len(s) \in Nat /\ n \in Nat
  BY LenProperties
<1> HIDE DEF t
<1>3. /\ s \o t \in Seq(Unit) /\ Len(s \o t) = Len(s) + n
      /\ \A i \in 1..(Len(s) + n) : (s \o t)[i] = IF i <= Len(s) THEN s[i] ELSE t[i - Len(s)]
  BY <1>1, ConcatProperties
<1>4. \A i \in 1..Len(s) : (s \o t)[i] = s[i]
  BY <1>2, <1>3
<1>5. ASSUME NEW i \in 1..n PROVE (s \o t)[Len(s) + i] = q[i]
  <2>1. Len(s) + i \in 1..(Len(s) + n) /\ Len(s) + i - Len(s) = i /\ Len(s) + i > Len(s)
    BY <1>2
  <2> QED BY <1>1, <1>2, <1>3, <2>1
<1> QED BY <1>3, <1>4, <1>5 DEF t

(* A header of which every unit is request r's, in its place.               *)
HeaderOf(hdr, r) == \A i \in 1..Len(hdr) : hdr[i].of = r /\ hdr[i].at = i

LEMMA LongerHeader ==
  ASSUME NEW s \in Seq(Unit), NEW q \in Seq(Unit), NEW n \in 0..Len(q), NEW r,
         HeaderOf(s, r), \A i \in 1..n : q[i].of = r /\ q[i].at = Len(s) + i
  PROVE  /\ s \o Take(q, n) \in Seq(Unit) /\ Len(s \o Take(q, n)) = Len(s) + n
         /\ HeaderOf(s \o Take(q, n), r)
<1> DEFINE t == s \o Take(q, n)
<1>1. /\ t \in Seq(Unit) /\ Len(t) = Len(s) + n
      /\ \A i \in 1..Len(s) : t[i] = s[i]
      /\ \A i \in 1..n : t[Len(s) + i] = q[i]
  BY Longer
<1>2. Len(s) \in Nat /\ n \in Nat
  BY LenProperties
<1> HIDE DEF t
<1>3. ASSUME NEW i \in 1..Len(t) PROVE t[i].of = r /\ t[i].at = i
  <2>1. CASE i =< Len(s)
    BY <1>1, <1>2, <2>1 DEF HeaderOf
  <2>2. CASE i > Len(s)
    <3> DEFINE j == i - Len(s)
    <3>1. j \in 1..n /\ i = Len(s) + j
      BY <1>1, <1>2, <2>2
    <3> HIDE DEF j
    <3> QED BY <1>1, <3>1
  <2> QED BY <1>1, <1>2, <2>1, <2>2
<1> QED BY <1>1, <1>3 DEF HeaderOf, t

-----------------------------------------------------------------------------
(* Reads                                                                    *)

LEMMA FieldsOf ==
  ASSUME NEW c \in Conn
  PROVE  /\ c.hdr \in Seq(Unit) /\ Len(c.hdr) \in Nat
         /\ c.header_done \in BOOLEAN /\ c.payload \in Seq(STRING \cup {Zero})
         /\ Len(c.payload) \in Nat /\ c.payload_len \in Nat /\ c.payload_size \in Nat
         /\ c.msg_type \in {"command", "subscribe", "other"} /\ c.subscribed \subseteq Topics
         /\ Progress(c) \in Nat /\ Progress(c) = Len(c.hdr) + c.payload_len
BY LenProperties DEF Conn, Progress

(* What is unread begins with the rest of the request that is being read.   *)
LEMMA Ahead ==
  ASSUME NEW c, NEW q, InStep(c, q), q # <<>>,
         NEW r, r = q[1].of, NEW p, p = Progress(c)
  PROVE  /\ r \in Requests /\ p \in Nat /\ p < Size(r) /\ Size(r) - p =< Len(q)
         /\ \A i \in 1..(Size(r) - p) : q[i].of = r /\ q[i].at = p + i
         /\ \A i \in 1..Len(c.hdr) : c.hdr[i].of = r /\ c.hdr[i].at = i
<1>1. q \in Seq(Unit) /\ Len(q) \in Nat /\ Len(q) > 0 /\ c \in Conn
  BY LenProperties, EmptySeq DEF InStep, Whole
<1>2. /\ r \in Requests /\ q[1].at \in Nat /\ q[1].at > 0 /\ Size(r) \in Nat
      /\ p \in Nat /\ p = Len(c.hdr) + c.payload_len
      /\ Len(c.hdr) \in Nat /\ c.payload_len \in Nat
  <2>1. 1 \in 1..Len(q)
    BY <1>1
  <2> QED BY <1>1, <2>1, UnitOf, FieldsOf
<1>3. q[1].at = p + 1 /\ (p # 0 => r = c.hdr[1].of)
  BY <1>1, <1>2 DEF InStep, Meets
<1>4. p < Size(r)
  BY <1>1, <1>2, <1>3 DEF InStep, Whole
<1>5. \A j \in 1..Len(q) : p + j =< Size(r) => q[j].of = r /\ q[j].at = p + j
  <2> SUFFICES ASSUME NEW j \in 1..Len(q), p + j =< Size(r)
               PROVE  q[j].of = r /\ q[j].at = p + j
    OBVIOUS
  <2>1. 1 \in 1..Len(q) /\ 1 =< j /\ q[1].at + (j - 1) =< Size(q[1].of)
    BY <1>1, <1>2, <1>3
  <2>2. q[j].of = q[1].of /\ q[j].at = q[1].at + (j - 1)
    BY <2>1 DEF InStep, Whole, Runs
  <2> QED BY <2>2, <1>2, <1>3
<1>6. Size(r) - p =< Len(q)
  <2> SUFFICES ASSUME Len(q) < Size(r) - p PROVE FALSE
    BY <1>1, <1>2
  <2>1. q[Len(q)].of = r /\ q[Len(q)].at = p + Len(q)
    BY <1>1, <1>2, <1>5
  <2>2. q[Len(q)].at = Size(q[Len(q)].of)
    BY DEF InStep, Whole
  <2> QED BY <1>1, <1>2, <2>1, <2>2
<1>7. ASSUME NEW i \in 1..(Size(r) - p) PROVE q[i].of = r /\ q[i].at = p + i
  <2>1. i \in 1..Len(q) /\ p + i =< Size(r)
    BY <1>1, <1>2, <1>6
  <2> QED BY <1>5, <2>1
<1>8. \A i \in 1..Len(c.hdr) : c.hdr[i].of = r /\ c.hdr[i].at = i
  BY <1>2, <1>3 DEF InStep, HeaderInStep
<1> QED BY <1>2, <1>4, <1>6, <1>7, <1>8

(* The stream after n units, when they are not more than the request has.   *)
LEMMA AheadOf ==
  ASSUME NEW c, NEW q, InStep(c, q), q # <<>>, NEW n \in Nat,
         NEW r, r = q[1].of, NEW p, p = Progress(c), n =< Size(r) - p
  PROVE  /\ Whole(Rest(q, n)) /\ n \in 0..Len(q)
         /\ n < Size(r) - p => /\ Rest(q, n) # <<>> /\ Rest(q, n)[1].of = r
                               /\ Rest(q, n)[1].at = p + n + 1
         /\ n = Size(r) - p /\ Rest(q, n) # <<>> => Rest(q, n)[1].at = 1
<1>1. q \in Seq(Unit) /\ Len(q) \in Nat /\ Whole(q)
  BY LenProperties DEF InStep, Whole
<1>2. /\ r \in Requests /\ Size(r) \in Nat /\ p \in Nat /\ Size(r) - p =< Len(q)
      /\ \A i \in 1..(Size(r) - p) : q[i].of = r /\ q[i].at = p + i
      /\ Size(r) - p > 0
  BY Ahead, Sizes
<1>3. n \in 0..Len(q)
  BY <1>1, <1>2
<1>4. /\ Whole(Rest(q, n)) /\ Len(Rest(q, n)) = Len(q) - n
      /\ \A i \in 1..(Len(q) - n) : Rest(q, n)[i] = q[n + i]
  BY <1>1, <1>3, RestWhole
<1>5. Rest(q, n) # <<>> => Len(q) - n > 0
  BY <1>1, <1>3, <1>4, EmptySeq DEF Whole
<1>6. ASSUME n < Size(r) - p
      PROVE  /\ Rest(q, n) # <<>> /\ Rest(q, n)[1].of = r
             /\ Rest(q, n)[1].at = p + n + 1
  <2>1. 1 \in 1..(Len(q) - n) /\ n + 1 \in 1..(Size(r) - p)
    BY <1>1, <1>2, <1>3, <1>6
  <2>2. Rest(q, n)[1] = q[n + 1] /\ Len(Rest(q, n)) > 0
    BY <1>1, <1>3, <1>4, <2>1
  <2> QED BY <1>2, <2>1, <2>2, EmptySeq
<1>7. ASSUME n = Size(r) - p, Rest(q, n) # <<>>
      PROVE  Rest(q, n)[1].at = 1
  <2>0. Len(q) - n > 0 /\ n > 0
    BY <1>2, <1>5, <1>7
  <2>1. n \in 1..(Len(q) - 1) /\ 1 \in 1..(Len(q) - n) /\ n \in 1..(Size(r) - p)
    BY <1>1, <1>3, <1>7, <2>0
  <2>2. q[n].at = Size(q[n].of)
    BY <1>2, <1>7, <2>1
  <2>3. q[n + 1].at = 1
    BY <1>1, <2>1, <2>2 DEF Whole
  <2> QED BY <1>4, <2>1, <2>3
<1> QED BY <1>3, <1>4, <1>6, <1>7

(* A part of the header is read.                                            *)
LEMMA HeaderRead ==
  ASSUME NEW c, NEW q, InStep(c, q), q # <<>>, NEW n \in 1..Len(q), n < HeaderMissing(c),
         NEW r, r = q[1].of, NEW p, p = Progress(c)
  PROVE  /\ InStep(WithHeader(c, Take(q, n)), Rest(q, n))
         /\ n < Size(r) - p
<1> DEFINE d == WithHeader(c, Take(q, n))
<1>1. q \in Seq(Unit) /\ Len(q) \in Nat /\ c \in Conn /\ n \in 0..Len(q) /\ n \in Nat
  BY LenProperties DEF InStep, Whole
<1>2. /\ ~c.header_done /\ n < HeaderSize - Len(c.hdr)
      /\ c.payload_len = 0 /\ p = Len(c.hdr)
  <2>1. ~c.header_done /\ n < HeaderSize - Len(c.hdr)
    BY <1>1 DEF HeaderMissing
  <2> QED BY <1>1, <2>1, FieldsOf DEF InStep, PayloadInStep
<1>3. /\ r \in Requests /\ p \in Nat /\ Size(r) \in Nat /\ Size(r) >= HeaderSize
      /\ HeaderSize \in Nat
      /\ \A i \in 1..(Size(r) - p) : q[i].of = r /\ q[i].at = p + i
      /\ \A i \in 1..Len(c.hdr) : c.hdr[i].of = r /\ c.hdr[i].at = i
  BY Ahead, Sizes
<1>4. n < Size(r) - p
  BY <1>1, <1>2, <1>3
<1>5. c.hdr \in Seq(Unit) /\ p = Len(c.hdr)
  BY <1>1, <1>2, FieldsOf
<1>6. /\ c.hdr \o Take(q, n) \in Seq(Unit) /\ Len(c.hdr \o Take(q, n)) = p + n
      /\ HeaderOf(c.hdr \o Take(q, n), r)
  <2>1. ASSUME NEW i \in 1..n PROVE q[i].of = r /\ q[i].at = p + i
    <3>1. i \in 1..(Size(r) - p)
      BY <1>1, <1>3, <1>4
    <3> QED BY <1>3, <3>1
  <2>2. HeaderOf(c.hdr, r)
    BY <1>3 DEF HeaderOf
  <2>3. \A i \in 1..n : q[i].of = r /\ q[i].at = Len(c.hdr) + i
    BY <1>5, <2>1
  <2>4. /\ c.hdr \o Take(q, n) \in Seq(Unit) /\ Len(c.hdr \o Take(q, n)) = Len(c.hdr) + n
        /\ HeaderOf(c.hdr \o Take(q, n), r)
    BY <1>1, <1>5, <2>2, <2>3, LongerHeader, Zenon
  <2> QED BY <1>5, <2>4
<1>7. /\ d \in Conn /\ d.hdr = c.hdr \o Take(q, n) /\ d.header_done = c.header_done
      /\ d.payload_len = c.payload_len
  BY <1>1, <1>6 DEF WithHeader, Conn
<1> HIDE DEF d
<1>8. \A i \in 1..(p + n) : d.hdr[i].of = r /\ d.hdr[i].at = i
  BY <1>6, <1>7 DEF HeaderOf
<1>9. Len(d.hdr) = p + n /\ p + n < HeaderSize /\ p + n > 0 /\ Progress(d) = p + n
  BY <1>1, <1>2, <1>3, <1>6, <1>7 DEF Progress
<1>10. HeaderInStep(d)
  <2>1. 1 \in 1..(p + n)
    BY <1>1, <1>3, <1>9
  <2>2. d.hdr[1].of = r /\ ~d.header_done /\ Len(d.hdr) =< HeaderSize /\ Len(d.hdr) # HeaderSize
    BY <1>1, <1>2, <1>3, <1>7, <1>8, <1>9, <2>1
  <2> QED BY <1>8, <1>9, <2>2 DEF HeaderInStep
<1>11. PayloadInStep(d)
  BY <1>2, <1>7 DEF PayloadInStep
<1>12. /\ Whole(Rest(q, n)) /\ Rest(q, n) # <<>>
       /\ Rest(q, n)[1].of = r /\ Rest(q, n)[1].at = p + n + 1
  <2>1. n =< Size(r) - p
    BY <1>1, <1>3, <1>4
  <2> QED BY <1>1, <1>4, <2>1, AheadOf
<1>13. Meets(d, Rest(q, n))
  BY <1>3, <1>8, <1>9, <1>12 DEF Meets
<1> QED BY <1>4, <1>7, <1>10, <1>11, <1>12, <1>13 DEF InStep, d

(* The header of request r is complete, and its payload read up to          *)
(* payload_len.                                                             *)
Reading(c, r) ==
  /\ c \in Conn /\ r \in Requests
  /\ c.header_done /\ Len(c.hdr) = HeaderSize
  /\ \A i \in 1..HeaderSize : c.hdr[i].of = r /\ c.hdr[i].at = i
  /\ c.msg_type = r.type
  /\ c.payload_size = Len(r.payload) /\ c.payload_size =< Len(c.payload)
  /\ c.payload_len =< c.payload_size
  /\ \A i \in 1..c.payload_len : c.payload[i] = r.payload[i]

LEMMA ParsedReads ==
  ASSUME NEW c \in Conn, NEW r \in Requests, Len(c.hdr) = HeaderSize, c.payload_len = 0,
         \A i \in 1..HeaderSize : c.hdr[i].of = r /\ c.hdr[i].at = i
  PROVE  Reading(Parsed(c), r) /\ Parsed(c).payload_len = 0
<1> DEFINE size == Len(r.payload)
           new == [i \in 1..(size + 1) |-> Zero]
           buffer == IF size > Len(c.payload) THEN new ELSE c.payload
           d == Parsed(c)
<1>1. /\ c.hdr[HeaderSize].of = r /\ size \in Nat /\ Len(c.payload) \in Nat
      /\ HeaderSize \in Nat
  BY Sizes, FieldsOf
<1>2. new \in Seq(STRING \cup {Zero}) /\ Len(new) = size + 1
  <2> HIDE DEF size
  <2>1. size + 1 \in Nat
    BY <1>1
  <2> QED BY <2>1
<1>3. buffer \in Seq(STRING \cup {Zero}) /\ size =< Len(buffer)
  <2> HIDE DEF size, new
  <2> QED BY <1>1, <1>2, FieldsOf
<1>4. d = [c EXCEPT !.header_done = TRUE, !.msg_type = r.type, !.payload_size = size,
                    !.payload_len = IF size > 0 THEN 0 ELSE @, !.payload = buffer]
  BY <1>1 DEF Parsed
<1>5. r.type \in {"command", "subscribe", "other"}
  BY ConstantsAssumption
<1> HIDE DEF d, buffer, size
<1>6. /\ d \in Conn /\ d.header_done /\ d.hdr = c.hdr /\ d.msg_type = r.type
      /\ d.payload_size = size /\ d.payload = buffer /\ d.payload_len = 0
  BY <1>1, <1>3, <1>4, <1>5 DEF Conn
<1> QED BY <1>1, <1>3, <1>6 DEF Reading, size, d

LEMMA HeadedReads ==
  ASSUME NEW c, NEW q, InStep(c, q), q # <<>>, NEW r, r = q[1].of, NEW p, p = Progress(c),
         NEW h, h = HeaderMissing(c), NEW d, d = Headed(c, q)
  PROVE  /\ Reading(d, r) /\ h \in Nat
         /\ p + h = HeaderSize + d.payload_len
<1>1. /\ q \in Seq(Unit) /\ Len(q) \in Nat /\ c \in Conn
      /\ Len(c.hdr) \in Nat /\ c.payload_len \in Nat /\ c.hdr \in Seq(Unit)
      /\ p = Len(c.hdr) + c.payload_len /\ c.header_done \in BOOLEAN
  BY LenProperties, FieldsOf DEF InStep, Whole
<1>2. /\ r \in Requests /\ p \in Nat /\ Size(r) \in Nat /\ Size(r) >= HeaderSize
      /\ HeaderSize \in Nat /\ HeaderSize > 0 /\ Size(r) - p =< Len(q)
      /\ \A i \in 1..(Size(r) - p) : q[i].of = r /\ q[i].at = p + i
      /\ \A i \in 1..Len(c.hdr) : c.hdr[i].of = r /\ c.hdr[i].at = i
  BY Ahead, Sizes
<1>3. Len(c.hdr) =< HeaderSize /\ (c.header_done <=> Len(c.hdr) = HeaderSize)
  BY DEF InStep, HeaderInStep
<1>4. CASE c.header_done
  <2>1. d = c /\ h = 0 /\ Len(c.hdr) = HeaderSize /\ c.hdr[1].of = r
    BY <1>2, <1>3, <1>4 DEF Headed, HeaderMissing
  <2>2. Reading(c, r)
    BY <1>1, <1>2, <1>4, <2>1, FieldsOf DEF Reading, InStep, PayloadInStep
  <2> QED BY <1>1, <1>2, <2>1, <2>2
<1>5. CASE ~c.header_done
  <2> DEFINE e == WithHeader(c, Take(q, h))
  <2>1. /\ h = HeaderSize - Len(c.hdr) /\ h \in Nat /\ c.payload_len = 0
        /\ p = Len(c.hdr) /\ h =< Size(r) - p /\ h \in 0..Len(q)
    BY <1>1, <1>2, <1>3, <1>5 DEF HeaderMissing, InStep, PayloadInStep
  <2>2. p + h = HeaderSize
    BY <1>1, <1>2, <2>1
  <2>3. /\ c.hdr \o Take(q, h) \in Seq(Unit) /\ Len(c.hdr \o Take(q, h)) = HeaderSize
        /\ HeaderOf(c.hdr \o Take(q, h), r)
    <3>1. ASSUME NEW i \in 1..h PROVE q[i].of = r /\ q[i].at = Len(c.hdr) + i
      <4>1. i \in 1..(Size(r) - p)
        BY <1>2, <2>1
      <4> QED BY <1>2, <2>1, <4>1
    <3>2. HeaderOf(c.hdr, r)
      BY <1>2 DEF HeaderOf
    <3>3. \A i \in 1..h : q[i].of = r /\ q[i].at = Len(c.hdr) + i
      BY <3>1
    <3>4. /\ c.hdr \o Take(q, h) \in Seq(Unit) /\ Len(c.hdr \o Take(q, h)) = Len(c.hdr) + h
          /\ HeaderOf(c.hdr \o Take(q, h), r)
      <4>1. c.hdr \in Seq(Unit) /\ q \in Seq(Unit) /\ h \in 0..Len(q)
        BY <1>1, <2>1
      <4> QED BY <4>1, <3>2, <3>3, LongerHeader, Zenon
    <3> QED BY <1>1, <2>1, <2>2, <3>4
  <2>4. e \in Conn /\ e.hdr = c.hdr \o Take(q, h) /\ e.payload_len = 0
    BY <1>1, <2>1, <2>3 DEF WithHeader, Conn
  <2>5. d = Parsed(e)
    BY <1>5, <2>1 DEF Headed
  <2> HIDE DEF e
  <2>6. \A i \in 1..HeaderSize : e.hdr[i].of = r /\ e.hdr[i].at = i
    BY <2>3, <2>4 DEF HeaderOf
  <2>7. Reading(d, r) /\ d.payload_len = 0
    BY <1>2, <2>3, <2>4, <2>5, <2>6, ParsedReads
  <2> QED BY <1>2, <2>1, <2>7
<1> QED BY <1>1, <1>4, <1>5

(* Units of the payload, in their places, are read.                         *)
LEMMA FilledReads ==
  ASSUME NEW c, NEW r, Reading(c, r), NEW units \in Seq(Unit),
         c.payload_len + Len(units) =< Len(r.payload),
         \A i \in 1..Len(units) :
           units[i].of = r /\ units[i].at = HeaderSize + c.payload_len + i
  PROVE  /\ Reading(Filled(c, units), r)
         /\ Filled(c, units).payload_len = c.payload_len + Len(units)
<1> DEFINE l == c.payload_len
           word(i) == IF i > l /\ i =< l + Len(units) THEN Word(units[i - l]) ELSE c.payload[i]
           buffer == [i \in 1..Len(c.payload) |-> word(i)]
           d == Filled(c, units)
<1>1. /\ c \in Conn /\ l \in Nat /\ Len(units) \in Nat /\ HeaderSize \in Nat
      /\ c.payload \in Seq(STRING \cup {Zero}) /\ Len(c.payload) \in Nat
      /\ r \in Requests /\ Len(r.payload) \in Nat /\ r.payload \in Seq(STRING)
      /\ l + Len(units) =< Len(r.payload) /\ Len(r.payload) =< Len(c.payload)
  BY FieldsOf, Sizes, LenProperties, ConstantsAssumption DEF Reading
<1>2. ASSUME NEW j \in 1..Len(units)
      PROVE  Word(units[j]) = r.payload[l + j] /\ Word(units[j]) \in STRING
  <2>1. /\ units[j].of = r /\ units[j].at = HeaderSize + l + j
        /\ units[j].at > HeaderSize /\ units[j].at - HeaderSize = l + j
    BY <1>1
  <2>2. l + j \in 1..Len(r.payload)
    BY <1>1
  <2>3. r.payload[l + j] \in STRING
    BY <1>1, <2>2, ElementOfSeq
  <2> QED BY <2>1, <2>3 DEF Word
<1>3. \A i \in 1..Len(c.payload) : word(i) \in STRING \cup {Zero}
  <2> SUFFICES ASSUME NEW i \in 1..Len(c.payload) PROVE word(i) \in STRING \cup {Zero}
    OBVIOUS
  <2>1. c.payload[i] \in STRING \cup {Zero}
    BY <1>1, ElementOfSeq
  <2>2. i > l /\ i =< l + Len(units) => i - l \in 1..Len(units)
    BY <1>1
  <2> QED BY <1>2, <2>1, <2>2
<1>4. d = [c EXCEPT !.payload_len = l + Len(units), !.payload = buffer]
  BY DEF Filled
<1> HIDE DEF word, d
<1>5. buffer \in Seq(STRING \cup {Zero}) /\ Len(buffer) = Len(c.payload)
  BY <1>1, <1>3
<1>6. \A i \in 1..Len(c.payload) : buffer[i] = word(i)
  OBVIOUS
<1> HIDE DEF buffer
<1>7. /\ d \in Conn /\ d.payload_len = l + Len(units) /\ d.payload = buffer
      /\ d.hdr = c.hdr /\ d.header_done = c.header_done /\ d.msg_type = c.msg_type
      /\ d.payload_size = c.payload_size
  <2>1. l + Len(units) \in Nat
    BY <1>1
  <2> HIDE DEF l
  <2> QED BY <1>1, <1>4, <1>5, <2>1 DEF Conn
<1>8. ASSUME NEW i \in 1..(l + Len(units)) PROVE buffer[i] = r.payload[i]
  <2>1. i \in 1..Len(c.payload)
    BY <1>1
  <2>2. CASE i =< l
    <3>1. buffer[i] = c.payload[i] /\ i \in 1..l
      BY <1>1, <1>6, <2>1, <2>2 DEF word
    <3> QED BY <3>1 DEF Reading
  <2>3. CASE i > l
    <3>1. i - l \in 1..Len(units) /\ l + (i - l) = i /\ i =< l + Len(units)
      BY <1>1, <2>3
    <3>2. word(i) = Word(units[i - l])
      BY <2>3, <3>1 DEF word
    <3>3. buffer[i] = word(i)
      BY <1>6, <2>1
    <3> QED BY <1>2, <3>1, <3>2, <3>3
  <2> QED BY <1>1, <2>2, <2>3
<1>9. Reading(d, r)
  BY <1>1, <1>5, <1>7, <1>8 DEF Reading
<1> QED BY <1>7, <1>9 DEF d

(* Request r, of which p units have been read, is first in q; h units of its *)
(* header are missing, and d is the connection when they are there.         *)
Position(c, q, r, p, h, d) ==
  r = q[1].of /\ p = Progress(c) /\ h = HeaderMissing(c) /\ d = Headed(c, q)

LEMMA Places ==
  ASSUME NEW size \in Nat, NEW p \in Nat, NEW h \in Nat, NEW head \in Nat, NEW len \in Nat,
         NEW l \in Nat, NEW n \in Nat, size = head + len, p + h = head + l, n =< len - l
  PROVE  /\ len - l = size - p - h /\ h + n =< size - p /\ h =< size - p
         /\ p + h + n = head + l + n /\ h + n \in Nat
         /\ (n < len - l => h + n < size - p) /\ (n = len - l => h + n = size - p)
OBVIOUS

(* The units of the payload that follow the header in the stream.           *)
LEMMA PayloadAhead ==
  ASSUME NEW c, NEW q, InStep(c, q), q # <<>>, NEW r, NEW p, NEW h, NEW d,
         Position(c, q, r, p, h, d), NEW n \in Nat, n =< PayloadMissing(d)
  PROVE  /\ Reading(Filled(d, Take(Rest(q, h), n)), r)
         /\ Filled(d, Take(Rest(q, h), n)).payload_len = d.payload_len + n
         /\ h + n \in 0..Len(q) /\ h + n =< Size(r) - p
         /\ p + h + n = HeaderSize + d.payload_len + n
         /\ PayloadMissing(d) = Size(r) - p - h
<1>1. /\ Reading(d, r) /\ h \in Nat /\ p + h = HeaderSize + d.payload_len
  BY HeadedReads DEF Position
<1>2. /\ r \in Requests /\ p \in Nat /\ Size(r) \in Nat /\ Size(r) = HeaderSize + Len(r.payload)
      /\ HeaderSize \in Nat /\ Len(r.payload) \in Nat /\ Size(r) - p =< Len(q)
      /\ \A i \in 1..(Size(r) - p) : q[i].of = r /\ q[i].at = p + i
  BY Ahead, Sizes DEF Position
<1>3. q \in Seq(Unit) /\ Len(q) \in Nat /\ Whole(q)
  BY LenProperties DEF InStep, Whole
<1>4. /\ d \in Conn /\ d.payload_len \in Nat /\ d.payload_size = Len(r.payload)
      /\ d.payload_len =< Len(r.payload) /\ PayloadMissing(d) = Len(r.payload) - d.payload_len
  BY <1>1, FieldsOf DEF Reading, PayloadMissing
<1>5. /\ h + n \in 0..Len(q) /\ h + n =< Size(r) - p /\ h \in 0..Len(q)
      /\ p + h + n = HeaderSize + d.payload_len + n /\ n \in 0..(Len(q) - h)
      /\ PayloadMissing(d) = Size(r) - p - h
  <2>1. n =< Len(r.payload) - d.payload_len
    BY <1>4
  <2>2. /\ Len(r.payload) - d.payload_len = Size(r) - p - h
        /\ h + n =< Size(r) - p /\ h =< Size(r) - p /\ h + n \in Nat
        /\ p + h + n = HeaderSize + d.payload_len + n
    <3>1. /\ Size(r) \in Nat /\ p \in Nat /\ h \in Nat /\ HeaderSize \in Nat
          /\ Len(r.payload) \in Nat /\ d.payload_len \in Nat
          /\ Size(r) = HeaderSize + Len(r.payload) /\ p + h = HeaderSize + d.payload_len
      BY <1>1, <1>2, <1>4
    <3> QED BY <3>1, <2>1, Places
  <2>3. h + n =< Len(q) /\ h =< Len(q) /\ n =< Len(q) - h
    BY <1>1, <1>2, <1>3, <2>2
  <2> QED BY <1>1, <1>3, <1>4, <2>2, <2>3
<1> DEFINE rest == Rest(q, h)
           units == Take(rest, n)
<1>6. /\ rest \in Seq(Unit) /\ Len(rest) = Len(q) - h
      /\ \A i \in 1..(Len(q) - h) : rest[i] = q[h + i]
  BY <1>3, <1>5, RestWhole DEF Whole
<1> HIDE DEF rest
<1>7. units \in Seq(Unit) /\ Len(units) = n /\ \A i \in 1..n : units[i] = rest[i]
  BY <1>5, <1>6, TakeSeq
<1> HIDE DEF units
<1>8. ASSUME NEW i \in 1..n
      PROVE  units[i].of = r /\ units[i].at = HeaderSize + d.payload_len + i
  <2>1. i \in 1..(Len(q) - h) /\ h + i \in 1..(Size(r) - p)
    BY <1>1, <1>2, <1>3, <1>5
  <2>2. units[i] = q[h + i]
    BY <1>6, <1>7, <2>1
  <2>3. units[i].of = r /\ units[i].at = p + (h + i)
    BY <1>2, <2>1, <2>2
  <2> QED BY <1>1, <1>2, <1>4, <2>3
<1>9. d.payload_len + Len(units) =< Len(r.payload)
  BY <1>2, <1>4, <1>7
<1>10. Reading(Filled(d, units), r) /\ Filled(d, units).payload_len = d.payload_len + n
  BY <1>1, <1>7, <1>8, <1>9, FilledReads
<1> QED BY <1>5, <1>10 DEF rest, units

(* A part of the payload is read, the header before it if it was missing.   *)
LEMMA PayloadRead ==
  ASSUME NEW c, NEW q, InStep(c, q), q # <<>>, NEW r, NEW p, NEW h, NEW d,
         Position(c, q, r, p, h, d), NEW n \in Nat, n < PayloadMissing(d), h + n > 0
  PROVE  /\ InStep(Filled(d, Take(Rest(q, h), n)), Rest(q, h + n))
         /\ h + n \in 0..Len(q) /\ h + n < Size(r) - p
<1> DEFINE e == Filled(d, Take(Rest(q, h), n))
           m == h + n
<1>1. Reading(d, r) /\ h \in Nat /\ p + h = HeaderSize + d.payload_len
  BY HeadedReads DEF Position
<1>2. /\ r \in Requests /\ p \in Nat /\ Size(r) \in Nat /\ HeaderSize \in Nat /\ HeaderSize > 0
      /\ Len(r.payload) \in Nat
  BY Ahead, Sizes DEF Position
<1>3. d.payload_len \in Nat /\ PayloadMissing(d) \in Int /\ PayloadMissing(d) = Len(r.payload) - d.payload_len
  BY <1>1, <1>2, FieldsOf DEF Reading, PayloadMissing
<1>4. /\ Reading(e, r) /\ e.payload_len = d.payload_len + n
      /\ m \in 0..Len(q) /\ m =< Size(r) - p
      /\ p + m = HeaderSize + d.payload_len + n
      /\ PayloadMissing(d) = Size(r) - p - h
  <2>1. n =< PayloadMissing(d)
    BY <1>3
  <2>2. /\ Reading(e, r) /\ e.payload_len = d.payload_len + n
        /\ h + n \in 0..Len(q) /\ h + n =< Size(r) - p
        /\ p + h + n = HeaderSize + d.payload_len + n
        /\ PayloadMissing(d) = Size(r) - p - h
    BY <2>1, PayloadAhead
  <2> QED BY <2>2, <1>1, <1>2
<1>5. m < Size(r) - p /\ m \in Nat
  BY <1>1, <1>2, <1>3, <1>4
<1> HIDE DEF e, m
<1>6. /\ Whole(Rest(q, m)) /\ Rest(q, m) # <<>>
      /\ Rest(q, m)[1].of = r /\ Rest(q, m)[1].at = p + m + 1
  <2>1. m =< Size(r) - p
    BY <1>4
  <2> QED BY <1>5, <2>1, AheadOf DEF Position
<1>7. /\ Len(e.hdr) = HeaderSize /\ e.header_done /\ e.hdr[1].of = r /\ e \in Conn
      /\ \A i \in 1..HeaderSize : e.hdr[i].of = r /\ e.hdr[i].at = i
      /\ Progress(e) = p + m /\ e.payload_len < e.payload_size
  <2>1. /\ Len(e.hdr) = HeaderSize /\ e.header_done /\ e \in Conn
        /\ e.payload_size = Len(r.payload)
        /\ \A i \in 1..HeaderSize : e.hdr[i].of = r /\ e.hdr[i].at = i
    BY <1>4 DEF Reading
  <2>2. e.payload_len < e.payload_size
    <3>1. /\ d.payload_len \in Nat /\ Len(r.payload) \in Nat
          /\ n < Len(r.payload) - d.payload_len
      BY <1>2, <1>3
    <3>2. d.payload_len + n < Len(r.payload)
      BY <3>1
    <3>3. e.payload_len = d.payload_len + n /\ e.payload_size = Len(r.payload)
      BY <1>4, <2>1
    <3> QED BY <3>2, <3>3
  <2>4. HeaderSize + e.payload_len = p + m
    BY <1>2, <1>3, <1>4
  <2>3. e.hdr[1].of = r
    BY <1>2, <2>1
  <2> QED BY <2>1, <2>2, <2>3, <2>4 DEF Progress
<1>8. HeaderInStep(e)
  BY <1>2, <1>7 DEF HeaderInStep
<1>9. PayloadInStep(e)
  BY <1>4, <1>7 DEF PayloadInStep, Reading
<1>10. Meets(e, Rest(q, m))
  BY <1>2, <1>5, <1>6, <1>7 DEF Meets
<1> QED BY <1>4, <1>5, <1>6, <1>7, <1>8, <1>9, <1>10 DEF InStep, e, m

(* The last unit of the request is read, and the connection is ready for    *)
(* the next.                                                                *)
LEMMA RequestRead ==
  ASSUME NEW c, NEW q, InStep(c, q), q # <<>>, NEW r, NEW p, NEW h, NEW d,
         Position(c, q, r, p, h, d), NEW n \in Nat, d.payload_len + n = Len(r.payload),
         NEW extra \in SUBSET Topics,
         NEW e, e = ForNext(Subscribe(Filled(d, Take(Rest(q, h), n)), extra))
  PROVE  /\ InStep(e, Rest(q, h + n))
         /\ h + n \in 0..Len(q) /\ h + n = Size(r) - p
         /\ e.msg_type = r.type
         /\ \A i \in 1..Len(r.payload) : e.payload[i] = r.payload[i]
<1> DEFINE f == Filled(d, Take(Rest(q, h), n))
           g == Subscribe(f, extra)
           m == h + n
<1>1. Reading(d, r) /\ h \in Nat /\ p + h = HeaderSize + d.payload_len
  BY HeadedReads DEF Position
<1>2. /\ r \in Requests /\ p \in Nat /\ Size(r) \in Nat /\ HeaderSize \in Nat /\ HeaderSize > 0
      /\ Len(r.payload) \in Nat
  BY Ahead, Sizes DEF Position
<1>3. d.payload_len \in Nat /\ n = Len(r.payload) - d.payload_len /\ n = PayloadMissing(d)
  BY <1>1, <1>2, FieldsOf DEF Reading, PayloadMissing
<1>4. /\ Reading(f, r) /\ f.payload_len = d.payload_len + n
      /\ h + n \in 0..Len(q) /\ n = Size(r) - p - h
  <2>1. n =< PayloadMissing(d)
    BY <1>3
  <2> QED BY <1>3, <2>1, PayloadAhead
<1>5. m \in Nat /\ m = Size(r) - p /\ m =< Size(r) - p
  BY <1>1, <1>2, <1>3, <1>4
<1> HIDE DEF f
<1>6. f \in Conn /\ f.msg_type = r.type
      /\ \A i \in 1..Len(r.payload) : f.payload[i] = r.payload[i]
  BY <1>2, <1>3, <1>4 DEF Reading
<1>7. g \in Conn /\ g.msg_type = f.msg_type /\ g.payload = f.payload
  <2>1. Found(f.payload) \subseteq Topics
    BY DEF Found
  <2> QED BY <1>6, <2>1 DEF Subscribe, Conn
<1>8. e = ForNext(g)
  BY DEF f
<1> HIDE DEF g
<1>9. /\ e \in Conn /\ e.msg_type = r.type /\ e.payload = f.payload
      /\ e.hdr = <<>> /\ e.header_done = FALSE /\ e.payload_len = 0
  <2> DEFINE next == ForNext(g)
  <2>1. g \in Conn /\ g.msg_type = r.type /\ g.payload = f.payload /\ <<>> \in Seq(Unit)
    BY <1>6, <1>7, EmptySeq
  <2>2. /\ next \in Conn /\ next.msg_type = g.msg_type /\ next.payload = g.payload
        /\ next.hdr = <<>> /\ next.header_done = FALSE /\ next.payload_len = 0
    BY <2>1 DEF ForNext, Conn
  <2> HIDE DEF next
  <2>3. e = next
    BY <1>8 DEF next
  <2> QED BY <2>1, <2>2, <2>3
<1>10. HeaderInStep(e) /\ PayloadInStep(e) /\ Progress(e) = 0
  BY <1>2, <1>9 DEF HeaderInStep, PayloadInStep, Progress
<1>11. Whole(Rest(q, m)) /\ (Rest(q, m) # <<>> => Rest(q, m)[1].at = 1)
  BY <1>5, AheadOf DEF Position
<1>12. Meets(e, Rest(q, m))
  BY <1>10, <1>11 DEF Meets
<1> QED BY <1>4, <1>5, <1>6, <1>9, <1>10, <1>11, <1>12 DEF InStep

-----------------------------------------------------------------------------
(* The inductive invariant                                                  *)

Inputs ==
  /\ ipc_clients \subseteq Connections /\ gone \subseteq ipc_clients
  /\ conn \in [Connections -> Conn] /\ inbox \in [Connections -> Seq(Unit)]
  /\ \A k \in Connections \ ipc_clients : conn[k] = FreshConn /\ inbox[k] = <<>>
  /\ \A k \in ipc_clients : InStep(conn[k], inbox[k])

(* The iovecs are never behind what was sent.                               *)
Outputs ==
  /\ unread \in [Connections -> 0..BufMax]
  /\ heard \in [Connections -> 0..(MsgSize - 1)]
  /\ \A k \in Connections \ ipc_clients : unread[k] = 0 /\ heard[k] = 0
  /\ torn \subseteq ipc_clients /\ cut \subseteq ipc_clients
  /\ sent \in 0..(MsgSize - 1) /\ pos \in 0..MsgSize /\ sent =< pos
  /\ current \in ipc_clients \cup {NoConnection}
  /\ sent = 0 => current = NoConnection

Handlers ==
  /\ events \in 0..EventsMax /\ audience \subseteq ipc_clients
  /\ replying \in ipc_clients \cup {NoConnection}

IInv == Inputs /\ Outputs /\ Handlers /\ WholeInv

LEMMA IInvTypes == IInv => TypeOK
BY DEF IInv, Inputs, Outputs, Handlers, TypeOK

LEMMA IInvReads == IInv => ReadsInStep
<1> SUFFICES ASSUME IInv, NEW k \in ipc_clients
             PROVE  /\ HeaderInStep(conn[k]) /\ PayloadInStep(conn[k])
                    /\ InboxInStep(conn[k], inbox[k])
  BY DEF ReadsInStep
<1> DEFINE c == conn[k]
           q == inbox[k]
<1>1. InStep(c, q)
  BY DEF IInv, Inputs
<1> HIDE DEF c, q
<1>2. q \in Seq(Unit) /\ Len(q) \in Nat
  BY <1>1, LenProperties DEF InStep, Whole
<1>3. ASSUME NEW i \in 1..(Len(q) - 1) PROVE GoesOn(q[i], q[i + 1])
  <2> DEFINE j == i + 1
  <2>1. i \in 1..Len(q) /\ j \in 1..Len(q) /\ i =< j /\ j - i = 1
    BY <1>2
  <2>2. q[i].at \in Nat /\ Size(q[i].of) \in Nat /\ q[i].at =< Size(q[i].of)
    BY <1>1, <1>2, <2>1, UnitOf DEF InStep, Whole
  <2>3. CASE q[i].at = Size(q[i].of)
    BY <1>1, <2>3 DEF InStep, Whole, GoesOn
  <2>4. CASE q[i].at # Size(q[i].of)
    <3>1. q[i].at + (j - i) =< Size(q[i].of)
      BY <2>1, <2>2, <2>4
    <3>2. q[j].of = q[i].of /\ q[j].at = q[i].at + (j - i)
      BY <1>1, <2>1, <3>1 DEF InStep, Whole, Runs
    <3> QED BY <2>1, <2>4, <3>2 DEF GoesOn
  <2> QED BY <2>3, <2>4
<1>4. InboxInStep(c, q)
  BY <1>1, <1>3 DEF InStep, Whole, Meets, InboxInStep
<1> QED BY <1>1, <1>4 DEF InStep, c, q

(* A connection just accepted.                                              *)
LEMMA FreshInStep == InStep(FreshConn, <<>>)
<1>1. <<>> \in Seq(Unit) /\ Len(<<>>) = 0 /\ <<>> \in Seq(STRING \cup {Zero})
  BY EmptySeq
<1>2. FreshConn \in Conn
  BY <1>1 DEF FreshConn, Conn
<1>3. Whole(<<>>)
  BY <1>1 DEF Whole, Runs
<1>4. HeaderSize # 0 /\ HeaderSize \in Nat
  BY ConstantsAssumption
<1>5. HeaderInStep(FreshConn) /\ PayloadInStep(FreshConn) /\ Meets(FreshConn, <<>>)
  BY <1>1, <1>4 DEF FreshConn, HeaderInStep, PayloadInStep, Meets, Progress
<1> QED BY <1>2, <1>3, <1>5 DEF InStep

LEMMA IInvInit == Init => IInv
<1> SUFFICES ASSUME Init PROVE IInv
  OBVIOUS
<1>1. FreshConn \in Conn /\ <<>> \in Seq(Unit)
  BY FreshInStep, EmptySeq DEF InStep
<1>2. Inputs
  BY <1>1 DEF Init, Inputs
<1>3. Outputs
  BY ConstantsAssumption DEF Init, Outputs
<1>4. Handlers
  BY ConstantsAssumption DEF Init, Handlers
<1> QED BY <1>2, <1>3, <1>4, WholeInit DEF IInv

(* What changes one connection and its stream.                              *)
LEMMA InputsMove ==
  ASSUME Inputs, NEW k \in ipc_clients, NEW c, NEW q, InStep(c, q),
         conn' = [conn EXCEPT ![k] = c], inbox' = [inbox EXCEPT ![k] = q],
         ipc_clients' = ipc_clients, gone' \subseteq ipc_clients
  PROVE  Inputs'
<1>1. c \in Conn /\ q \in Seq(Unit) /\ k \in Connections
  BY DEF InStep, Whole, Inputs
<1>2. conn' \in [Connections -> Conn] /\ inbox' \in [Connections -> Seq(Unit)]
  BY <1>1 DEF Inputs
<1>3. conn'[k] = c /\ inbox'[k] = q
  BY <1>1 DEF Inputs
<1>4. \A j \in Connections : j # k => conn'[j] = conn[j] /\ inbox'[j] = inbox[j]
  BY DEF Inputs
<1>5. ASSUME NEW j \in ipc_clients PROVE InStep(conn'[j], inbox'[j])
  <2>1. CASE j = k
    BY <1>3, <2>1
  <2>2. CASE j # k
    BY <1>4, <2>2 DEF Inputs
  <2> QED BY <2>1, <2>2
<1> QED BY <1>2, <1>4, <1>5 DEF Inputs

LEMMA InputsStay ==
  ASSUME Inputs, UNCHANGED <<ipc_clients, conn, inbox>>, gone' \subseteq ipc_clients
  PROVE  Inputs'
BY DEF Inputs

LEMMA OutputsStay ==
  ASSUME Outputs, UNCHANGED <<ipc_clients, output>>
  PROVE  Outputs'
BY DEF Outputs, output

(* A request joins the stream of a connection.                              *)
LEMMA PostKeeps ==
  ASSUME NEW c, NEW q, InStep(c, q), NEW r \in Requests
  PROVE  InStep(c, q \o Units(r))
<1> DEFINE s == q \o Units(r)
<1>1. /\ Whole(s) /\ s # <<>>
      /\ s[1] = IF q = <<>> THEN Units(r)[1] ELSE q[1]
  BY Joined DEF InStep
<1> HIDE DEF s
<1>2. Units(r)[1].at = 1
  BY UnitsWhole, Sizes
<1>3. Meets(c, s)
  BY <1>1, <1>2 DEF InStep, Meets
<1> QED BY <1>1, <1>3 DEF InStep, s

(* Closing a connection, while nothing is sent.                             *)
LEMMA CloseKeeps ==
  ASSUME IInv, Idle, NEW k \in ipc_clients, Close(k)
  PROVE  Inputs' /\ Outputs' /\ Handlers'
<1>1. sent = 0 /\ current = NoConnection /\ NoConnection \notin ipc_clients
  BY ConstantsAssumption
     DEF Idle, IInv, Inputs, Outputs, WholeInv, SendTypes, SendInStep, Sending
<1>2. FreshConn \in Conn /\ <<>> \in Seq(Unit)
  BY FreshInStep, EmptySeq DEF InStep
<1>3. Inputs'
  <2>1. conn' \in [Connections -> Conn] /\ inbox' \in [Connections -> Seq(Unit)]
    BY <1>2 DEF Close, IInv, Inputs
  <2>2. \A j \in Connections : j # k => conn'[j] = conn[j] /\ inbox'[j] = inbox[j]
    BY DEF Close, IInv, Inputs
  <2>3. conn'[k] = FreshConn /\ inbox'[k] = <<>>
    BY DEF Close, IInv, Inputs
  <2>4. ipc_clients' = ipc_clients \ {k} /\ gone' = gone \ {k}
    BY DEF Close
  <2> QED BY <2>1, <2>2, <2>3, <2>4 DEF IInv, Inputs
<1>4. Outputs'
  BY <1>1, ConstantsAssumption DEF Close, IInv, Inputs, Outputs
<1>5. Handlers'
  BY <1>1, ConstantsAssumption DEF Close, Idle, handler, IInv, Inputs, Handlers
<1> QED BY <1>3, <1>4, <1>5

-----------------------------------------------------------------------------
(* The steps                                                                *)

(* What AnsweredAsSent says of connection k and of a step.                  *)
RepliesInTurn(k) ==
  /\ \A i \in 1..Taken(k) :
       inbox[k][i].at = Size(inbox[k][i].of) =>
         i = Taken(k) /\ Answers(k, inbox[k][i].of)
  /\ Idle /\ replying' = k =>
       Taken(k) > 0 /\ inbox[k][Taken(k)].at = Size(inbox[k][Taken(k)].of)

Answered == \A k \in ipc_clients \cap ipc_clients' : RepliesInTurn(k)

Kept == Inputs' /\ Outputs' /\ Handlers' /\ Answered

(* A step that takes no last unit and begins no reply.                      *)
LEMMA NoneAnswered ==
  ASSUME Inputs, Idle => replying' = NoConnection,
         \A k \in ipc_clients \cap ipc_clients' :
           \A i \in 1..Taken(k) : inbox[k][i].at # Size(inbox[k][i].of)
  PROVE  Answered
BY ConstantsAssumption DEF Inputs, Answered, RepliesInTurn

LEMMA NothingRead ==
  ASSUME Inputs, Idle => replying' = NoConnection,
         \A k \in ipc_clients \cap ipc_clients' : inbox'[k] = inbox[k]
  PROVE  Answered
<1>1. ASSUME NEW k \in ipc_clients \cap ipc_clients' PROVE Taken(k) = 0
  <2>1. Len(inbox[k]) \in Nat
    BY LenProperties DEF Inputs
  <2> QED BY <2>1 DEF Taken
<1> QED BY <1>1, NoneAnswered

(* A step that reads n units of k.                                          *)
LEMMA OneRead ==
  ASSUME Inputs, NEW k \in ipc_clients, ipc_clients' = ipc_clients, NEW n \in 0..Len(inbox[k]),
         inbox' = [inbox EXCEPT ![k] = Rest(inbox[k], n)]
  PROVE  /\ Taken(k) = n
         /\ \A j \in ipc_clients : j # k => Taken(j) = 0
<1>1. \A j \in ipc_clients : Len(inbox[j]) \in Nat /\ j \in Connections
  BY LenProperties DEF Inputs
<1>2. Len(Rest(inbox[k], n)) = Len(inbox[k]) - n
  BY RestWhole DEF Inputs, InStep
<1>3. inbox'[k] = Rest(inbox[k], n) /\ \A j \in ipc_clients : j # k => inbox'[j] = inbox[j]
  BY <1>1 DEF Inputs
<1> QED BY <1>1, <1>2, <1>3 DEF Taken

LEMMA ReadHeaderStep ==
  ASSUME IInv, NEW k \in Connections, ReadHeader(k)
  PROVE  Kept
<1> DEFINE c == conn[k]
           q == inbox[k]
<1>1. /\ k \in ipc_clients /\ q # <<>> /\ Idle
      /\ UNCHANGED <<ipc_clients, gone, handler, output>>
  BY DEF ReadHeader, Readable
<1>2. InStep(c, q)
  BY <1>1 DEF IInv, Inputs
<1>3. PICK n \in 1..Len(q) :
        /\ n < HeaderMissing(c)
        /\ conn' = [conn EXCEPT ![k] = WithHeader(c, Take(q, n))]
        /\ inbox' = [inbox EXCEPT ![k] = Rest(q, n)]
  BY DEF ReadHeader
<1> DEFINE r == q[1].of
           p == Progress(c)
<1>0. r = q[1].of /\ p = Progress(c)
  OBVIOUS
<1> HIDE DEF c, q, r, p
<1>4. InStep(WithHeader(c, Take(q, n)), Rest(q, n)) /\ n < Size(r) - p
  BY <1>0, <1>1, <1>2, <1>3, HeaderRead
<1>5. /\ p \in Nat /\ Size(r) \in Nat /\ Size(r) - p =< Len(q)
      /\ \A i \in 1..(Size(r) - p) : q[i].of = r /\ q[i].at = p + i
  <2>1. /\ r \in Requests /\ p \in Nat /\ Size(r) - p =< Len(q)
        /\ \A i \in 1..(Size(r) - p) : q[i].of = r /\ q[i].at = p + i
    BY <1>0, <1>1, <1>2, Ahead
  <2> QED BY <2>1, Sizes
<1>6. Inputs'
  BY <1>1, <1>3, <1>4, InputsMove DEF IInv, Inputs
<1>7. Outputs' /\ Handlers'
  BY <1>1, OutputsStay DEF IInv, Handlers, handler
<1>8. ASSUME NEW i \in 1..n PROVE q[i].at # Size(q[i].of)
  <2>1. i \in 1..(Size(r) - p)
    BY <1>4, <1>5
  <2>2. q[i].of = r /\ q[i].at = p + i
    BY <1>5, <2>1
  <2> QED BY <1>4, <1>5, <2>2
<1>9. Taken(k) = n /\ \A j \in ipc_clients : j # k => Taken(j) = 0
  <2>1. n \in 0..Len(inbox[k]) /\ inbox' = [inbox EXCEPT ![k] = Rest(inbox[k], n)]
    BY <1>3 DEF q
  <2> QED BY <1>1, <2>1, OneRead DEF IInv, q
<1>10. Answered
  <2>1. ASSUME NEW j \in ipc_clients, NEW i \in 1..Taken(j)
        PROVE  inbox[j][i].at # Size(inbox[j][i].of)
    BY <1>8, <1>9 DEF q
  <2>2. Idle => replying' = NoConnection
    BY <1>1 DEF Idle, handler
  <2> QED BY <2>1, <2>2, NoneAnswered DEF IInv
<1> QED BY <1>6, <1>7, <1>10 DEF Kept

LEMMA ReadPayloadStep ==
  ASSUME IInv, NEW k \in Connections, ReadPayload(k)
  PROVE  Kept
<1> DEFINE c == conn[k]
           q == inbox[k]
           h == HeaderMissing(c)
           d == Headed(c, q)
<1>1. /\ k \in ipc_clients /\ q # <<>> /\ Idle
      /\ UNCHANGED <<ipc_clients, gone, handler, output>>
  BY DEF ReadPayload, Readable
<1>2. InStep(c, q)
  BY <1>1 DEF IInv, Inputs
<1>3. PICK n \in 0..(Len(q) - h) :
        /\ n < PayloadMissing(d) /\ h + n > 0
        /\ conn' = [conn EXCEPT ![k] = Filled(d, Take(Rest(q, h), n))]
        /\ inbox' = [inbox EXCEPT ![k] = Rest(q, h + n)]
  BY DEF ReadPayload
<1> DEFINE r == q[1].of
           p == Progress(c)
<1>4. Position(c, q, r, p, h, d)
  BY DEF Position
<1> HIDE DEF c, q, h, d, r, p
<1>5. /\ p \in Nat /\ Size(r) \in Nat /\ Size(r) - p =< Len(q)
      /\ \A i \in 1..(Size(r) - p) : q[i].of = r /\ q[i].at = p + i
  <2>1. /\ r \in Requests /\ p \in Nat /\ Size(r) - p =< Len(q)
        /\ \A i \in 1..(Size(r) - p) : q[i].of = r /\ q[i].at = p + i
    BY <1>1, <1>2, <1>4, Ahead DEF Position
  <2> QED BY <2>1, Sizes
<1>6. n \in Nat
  BY <1>3
<1>7. /\ InStep(Filled(d, Take(Rest(q, h), n)), Rest(q, h + n))
      /\ h + n \in 0..Len(q) /\ h + n < Size(r) - p
  BY <1>1, <1>2, <1>3, <1>4, <1>6, PayloadRead
<1> DEFINE m == h + n
<1>8. Inputs'
  BY <1>1, <1>3, <1>7, InputsMove DEF IInv, Inputs
<1>9. Outputs' /\ Handlers'
  BY <1>1, OutputsStay DEF IInv, Handlers, handler
<1>10. /\ m \in 0..Len(q) /\ m < Size(r) - p /\ inbox' = [inbox EXCEPT ![k] = Rest(q, m)]
  BY <1>3, <1>7
<1> HIDE DEF m
<1>11. ASSUME NEW i \in 1..m PROVE q[i].at # Size(q[i].of)
  <2>1. i \in 1..(Size(r) - p)
    BY <1>5, <1>10
  <2>2. q[i].of = r /\ q[i].at = p + i
    BY <1>5, <2>1
  <2> QED BY <1>5, <1>10, <2>2
<1>12. Taken(k) = m /\ \A j \in ipc_clients : j # k => Taken(j) = 0
  BY <1>1, <1>10, OneRead DEF IInv, q
<1>13. Answered
  <2>1. ASSUME NEW j \in ipc_clients, NEW i \in 1..Taken(j)
        PROVE  inbox[j][i].at # Size(inbox[j][i].of)
    BY <1>11, <1>12 DEF q
  <2>2. Idle => replying' = NoConnection
    BY <1>1 DEF Idle, handler
  <2> QED BY <2>1, <2>2, NoneAnswered DEF IInv
<1> QED BY <1>8, <1>9, <1>13 DEF Kept

LEMMA DispatchStep ==
  ASSUME IInv, NEW k \in Connections, Dispatch(k)
  PROVE  Kept
<1> DEFINE c == conn[k]
           q == inbox[k]
           h == HeaderMissing(c)
           d == Headed(c, q)
           n == PayloadMissing(d)
           f == Filled(d, Take(Rest(q, h), n))
           r == q[1].of
           p == Progress(c)
           m == h + n
<1>1. /\ k \in ipc_clients /\ q # <<>> /\ Idle
      /\ UNCHANGED <<ipc_clients, gone, audience, output>>
      /\ events' \in 0..EventsMax /\ replying' = k
      /\ inbox' = [inbox EXCEPT ![k] = Rest(q, m)]
  BY DEF Dispatch, Readable
<1>2. PICK extra \in SUBSET Topics : conn' = [conn EXCEPT ![k] = ForNext(Subscribe(f, extra))]
  BY DEF Dispatch
<1> DEFINE e == ForNext(Subscribe(f, extra))
<1>3. InStep(c, q)
  BY <1>1 DEF IInv, Inputs
<1>4. Position(c, q, r, p, h, d)
  BY DEF Position
<1>5. Reading(d, r)
  BY <1>1, <1>3, HeadedReads
<1>6. n \in Nat /\ d.payload_len + n = Len(r.payload)
  <2> HIDE DEF d, r
  <2>1. /\ d.payload_len \in Nat /\ Len(r.payload) \in Nat
        /\ d.payload_size = Len(r.payload) /\ d.payload_len =< Len(r.payload)
    BY <1>5, FieldsOf, Sizes DEF Reading
  <2> QED BY <2>1 DEF PayloadMissing
<1>8. e = ForNext(Subscribe(Filled(d, Take(Rest(q, h), n)), extra))
  OBVIOUS
<1>9. conn' = [conn EXCEPT ![k] = e]
  BY <1>2
<1> HIDE DEF c, q, h, d, n, r, p, e, f
<1>7. /\ p \in Nat /\ Size(r) \in Nat /\ Size(r) - p =< Len(q) /\ p < Size(r)
      /\ \A i \in 1..(Size(r) - p) : q[i].of = r /\ q[i].at = p + i
  <2>1. /\ r \in Requests /\ p \in Nat /\ Size(r) - p =< Len(q) /\ p < Size(r)
        /\ \A i \in 1..(Size(r) - p) : q[i].of = r /\ q[i].at = p + i
    BY <1>1, <1>3, <1>4, Ahead DEF Position
  <2> QED BY <2>1, Sizes
<1>10. /\ InStep(e, Rest(q, m)) /\ m \in 0..Len(q) /\ m = Size(r) - p
       /\ e.msg_type = r.type
       /\ \A i \in 1..Len(r.payload) : e.payload[i] = r.payload[i]
  BY <1>1, <1>3, <1>4, <1>6, <1>8, RequestRead
<1> HIDE DEF m
<1>11. Inputs'
  BY <1>1, <1>9, <1>10, InputsMove DEF IInv, Inputs
<1>12. Outputs' /\ Handlers'
  BY <1>1, OutputsStay DEF IInv, Handlers
<1>13. Taken(k) = m /\ \A j \in ipc_clients : j # k => Taken(j) = 0
  BY <1>1, <1>10, OneRead DEF IInv, q
<1>14. ASSUME NEW i \in 1..m
       PROVE  q[i].of = r /\ (q[i].at = Size(q[i].of) <=> i = m)
  <2>1. q[i].of = r /\ q[i].at = p + i
    BY <1>7, <1>10
  <2> QED BY <1>7, <1>10, <2>1
<1>15. m \in 1..m
  BY <1>7, <1>10
<1>16. RepliesInTurn(k)
  <2>1. Answers(k, r)
    <3>1. conn'[k] = e
      BY <1>1, <1>9 DEF IInv, Inputs
    <3> QED BY <1>1, <1>10, <3>1 DEF Answers
  <2> QED BY <1>1, <1>13, <1>14, <1>15, <2>1 DEF RepliesInTurn, q
<1>17. ASSUME NEW j \in ipc_clients, j # k PROVE RepliesInTurn(j)
  BY <1>1, <1>13, <1>17 DEF RepliesInTurn
<1> QED BY <1>1, <1>11, <1>12, <1>16, <1>17 DEF Kept, Answered

(* The peers.                                                               *)
LEMMA PeerStep ==
  ASSUME IInv, NEW k \in Connections, Peer(k)
  PROVE  Kept
<1>1. ASSUME NEW r \in Requests, Post(k, r) PROVE Kept
  <2> DEFINE s == inbox[k] \o Units(r)
  <2>1. /\ k \in ipc_clients /\ inbox' = [inbox EXCEPT ![k] = s]
        /\ UNCHANGED <<ipc_clients, conn, gone, handler, output>>
    BY <1>1 DEF Post
  <2>2. InStep(conn[k], inbox[k])
    BY <2>1 DEF IInv, Inputs
  <2>3. InStep(conn[k], s)
    BY <2>2, PostKeeps
  <2>4. Len(s) = Len(inbox[k]) + Size(r) /\ Len(inbox[k]) \in Nat /\ Size(r) \in Nat
    <3>1. /\ inbox[k] \in Seq(Unit) /\ Units(r) \in Seq(Unit)
          /\ Len(Units(r)) = Size(r) /\ Size(r) \in Nat
      BY <2>2, UnitsWhole, Sizes DEF InStep, Whole
    <3> QED BY <3>1, LenProperties, ConcatProperties
  <2> HIDE DEF s
  <2>5. conn' = [conn EXCEPT ![k] = conn[k]]
    BY <2>1 DEF IInv, Inputs
  <2>6. Inputs'
    BY <2>1, <2>3, <2>5, InputsMove DEF IInv, Inputs
  <2>7. Outputs' /\ Handlers'
    BY <2>1, OutputsStay DEF IInv, Handlers, handler
  <2>8. ASSUME NEW j \in ipc_clients PROVE 1..Taken(j) = {}
    <3>1. CASE j = k
      <4>1. inbox'[j] = s
        BY <2>1, <3>1 DEF IInv, Inputs
      <4>2. Taken(j) \in Int /\ Taken(j) =< 0
        BY <2>4, <3>1, <4>1 DEF Taken
      <4> QED BY <4>2
    <3>2. CASE j # k
      <4>1. inbox'[j] = inbox[j] /\ Len(inbox[j]) \in Nat
        BY <2>1, <3>2, LenProperties DEF IInv, Inputs
      <4>2. Taken(j) = 0
        BY <4>1 DEF Taken
      <4> QED BY <4>2
    <3> QED BY <3>1, <3>2
  <2>9. Idle => replying' = NoConnection
    BY <2>1 DEF Idle, handler
  <2>10. Answered
    BY <2>1, <2>8, <2>9, NoneAnswered DEF IInv
  <2> QED BY <2>6, <2>7, <2>10 DEF Kept
<1>2. ASSUME Drain(k) PROVE Kept
  <2>1. UNCHANGED <<input, handler, current, sent, pos, heard, torn, cut>>
    BY <1>2 DEF Drain
  <2>2. Inputs' /\ Handlers'
    BY <2>1, InputsStay DEF input, handler, IInv, Inputs, Handlers
  <2>3. Outputs'
    <3>1. unread[k] \in 1..BufMax /\ k \in ipc_clients
      BY <1>2, ConstantsAssumption DEF Drain, IInv, Outputs
    <3>2. unread' = [unread EXCEPT ![k] = @ - 1]
      BY <1>2 DEF Drain
    <3> QED BY <2>1, <3>1, <3>2, ConstantsAssumption DEF input, IInv, Outputs
  <2>4. Answered
    BY <2>1, NothingRead DEF input, handler, Idle, IInv
  <2> QED BY <2>2, <2>3, <2>4 DEF Kept
<1>3. ASSUME HangUp(k) PROVE Kept
  <2>1. /\ k \in ipc_clients /\ gone' = gone \cup {k}
        /\ UNCHANGED <<ipc_clients, conn, inbox, handler, output>>
    BY <1>3 DEF HangUp
  <2>2. Inputs' /\ Handlers'
    BY <2>1, InputsStay DEF handler, IInv, Inputs, Handlers
  <2>3. Outputs'
    BY <2>1, OutputsStay DEF IInv
  <2>4. Answered
    BY <2>1, NothingRead DEF handler, Idle, IInv
  <2> QED BY <2>2, <2>3, <2>4 DEF Kept
<1> QED BY <1>1, <1>2, <1>3 DEF Peer

LEMMA AcceptStep ==
  ASSUME IInv, NEW k \in Connections, Accept(k)
  PROVE  Kept
<1>1. /\ k \notin ipc_clients /\ ipc_clients' = ipc_clients \cup {k}
      /\ UNCHANGED <<conn, inbox, gone, handler, output>>
  BY DEF Accept
<1>2. Inputs'
  <2>1. InStep(conn[k], inbox[k])
    BY <1>1, FreshInStep DEF IInv, Inputs
  <2> QED BY <1>1, <2>1 DEF IInv, Inputs
<1>3. Outputs' /\ Handlers'
  BY <1>1 DEF IInv, Outputs, Handlers, output, handler
<1>4. Answered
  BY <1>1, NothingRead DEF handler, Idle, IInv
<1> QED BY <1>2, <1>3, <1>4 DEF Kept

LEMMA CloseStep ==
  ASSUME IInv, Idle, NEW k \in ipc_clients, Close(k)
  PROVE  Kept
<1>1. Inputs' /\ Outputs' /\ Handlers'
  BY CloseKeeps
<1>2. \A j \in ipc_clients \cap ipc_clients' : inbox'[j] = inbox[j]
  BY DEF Close, IInv, Inputs
<1>3. Answered
  BY <1>2, NothingRead DEF Close, handler, Idle, IInv
<1> QED BY <1>1, <1>3 DEF Kept

(* Broadcasts begin.                                                        *)
LEMMA AudienceStep ==
  ASSUME IInv, Broadcast \/ \E topic \in Topics : Emit(topic)
  PROVE  Kept
<1>1. /\ UNCHANGED <<input, replying, output>> /\ audience' \subseteq ipc_clients
      /\ events' \in 0..EventsMax
  BY ConstantsAssumption DEF Broadcast, Emit, Listeners, IInv, Handlers
<1>2. Inputs' /\ Handlers'
  BY <1>1, InputsStay DEF input, IInv, Inputs, Handlers
<1>3. Outputs'
  BY <1>1, OutputsStay DEF input, IInv
<1>4. Answered
  BY <1>1, NothingRead DEF input, Idle, IInv
<1> QED BY <1>2, <1>3, <1>4 DEF Kept

(* ipc_send_raw() returns.                                                  *)
LEMMA SentKeeps ==
  ASSUME IInv, NEW k \in Connections, Target(k), Sent(k)
  PROVE  /\ ipc_clients' = ipc_clients => Handlers'
         /\ sent' = 0 /\ pos' = 0 /\ current' = NoConnection
         /\ Idle => replying' = NoConnection
BY DEF Sent, Idle, IInv, Handlers

LEMMA TargetIsClient ==
  ASSUME IInv, NEW k \in Connections, Target(k)
  PROVE  k \in ipc_clients
BY ConstantsAssumption DEF Target, IInv, Outputs, Handlers

LEMMA SendStep ==
  ASSUME IInv, NEW k \in Connections, SendFails(k) \/ SendFull(k) \/ SendSome(k)
  PROVE  Kept
<1>1. Target(k) /\ UNCHANGED input /\ k \in ipc_clients
  BY TargetIsClient DEF SendFails, SendFull, SendSome
<1>2. Inputs'
  BY <1>1, InputsStay DEF input, IInv, Inputs
<1>3. ASSUME Idle => replying' = NoConnection PROVE Answered
  BY <1>1, <1>3, NothingRead DEF input, IInv
<1>4. MsgSize \in Nat \ {0} /\ BufMax \in Nat \ {0}
  BY ConstantsAssumption
<1>5. CASE SendFails(k) \/ SendFull(k)
  <2>1. /\ Sent(k) /\ UNCHANGED <<unread, heard, torn>>
        /\ cut' \subseteq ipc_clients
    BY <1>1, <1>5 DEF SendFails, SendFull, IInv, Outputs
  <2>2. /\ ipc_clients' = ipc_clients /\ Handlers' /\ sent' = 0 /\ pos' = 0
        /\ current' = NoConnection /\ (Idle => replying' = NoConnection)
    BY <1>1, <2>1, SentKeeps DEF input
  <2>3. Outputs'
    BY <1>4, <2>1, <2>2 DEF IInv, Outputs
  <2> QED BY <1>2, <1>3, <2>2, <2>3 DEF Kept
<1>6. CASE SendSome(k)
  <2> DEFINE n == Least(MsgSize - pos, BufMax - unread[k])
  <2>1. /\ pos < MsgSize /\ unread[k] < BufMax /\ Put(k, n)
        /\ IF sent + n = MsgSize
           THEN Sent(k) /\ UNCHANGED cut
           ELSE /\ sent' = sent + n
                /\ pos' = Advance(pos, sent + n)
                /\ current' = k
                /\ cut' = IF sent > 0 THEN cut \cup {k} ELSE cut
                /\ UNCHANGED handler
    BY <1>6 DEF SendSome
  <2>2. /\ unread[k] \in 0..BufMax /\ sent \in Nat /\ pos \in 0..MsgSize /\ sent =< pos
    BY DEF IInv, Outputs
  <2>3. n \in Nat \ {0} /\ pos + n =< MsgSize /\ unread[k] + n =< BufMax
    BY <1>4, <2>1, <2>2 DEF Least
  <2> HIDE DEF n
  <2>4. /\ unread' \in [Connections -> 0..BufMax]
        /\ heard' \in [Connections -> 0..(MsgSize - 1)]
        /\ \A j \in Connections \ ipc_clients : unread'[j] = 0 /\ heard'[j] = 0
        /\ torn' \subseteq ipc_clients
    <3>1. unread[k] + n \in 0..BufMax
          /\ (IF pos + n = MsgSize THEN 0 ELSE pos + n) \in 0..(MsgSize - 1)
      BY <1>4, <2>2, <2>3
    <3> QED BY <1>1, <2>1, <3>1 DEF Put, IInv, Outputs
  <2>5. cut' \subseteq ipc_clients
    BY <1>1, <2>1 DEF IInv, Outputs
  <2>6. /\ sent' \in 0..(MsgSize - 1) /\ pos' \in 0..MsgSize /\ sent' =< pos'
        /\ current' \in ipc_clients \cup {NoConnection}
        /\ sent' = 0 => current' = NoConnection
        /\ Handlers' /\ (Idle => replying' = NoConnection)
    <3>1. CASE sent + n = MsgSize
      BY <1>1, <1>4, <2>1, <3>1, SentKeeps DEF input
    <3>2. CASE sent + n # MsgSize
      <4>1. /\ sent' = sent + n /\ pos' = Advance(pos, sent + n) /\ current' = k
            /\ UNCHANGED handler /\ ipc_clients' = ipc_clients
        BY <1>1, <2>1, <3>2 DEF input
      <4>2. sent + n \in 1..(MsgSize - 1)
        BY <1>4, <2>2, <2>3, <3>2
      <4>3. Advance(pos, sent + n) \in 0..MsgSize /\ sent + n =< Advance(pos, sent + n)
        BY <1>4, <2>2, <4>2 DEF Advance
      <4>4. Handlers' /\ (Idle => replying' = NoConnection)
        BY <4>1 DEF handler, IInv, Handlers, Idle
      <4> QED BY <1>1, <4>1, <4>2, <4>3, <4>4
    <3> QED BY <3>1, <3>2
  <2>7. Outputs'
    BY <1>1, <2>4, <2>5, <2>6 DEF input, Outputs
  <2> QED BY <1>2, <1>3, <2>6, <2>7 DEF Kept
<1> QED BY <1>5, <1>6

(* Every step keeps the invariant, and answers what it reads to the end.    *)
LEMMA StepKeeps == IInv /\ [Next]_vars => IInv' /\ [Answered]_vars
<1> SUFFICES ASSUME IInv, [Next]_vars
             PROVE  IInv' /\ [Answered]_vars
  OBVIOUS
<1>1. WholeInv'
  BY WholeStep DEF IInv
<1>2. ASSUME NEW k \in Connections, CloseHungUp(k) \/ BadMagic(k) PROVE Kept
  <2>1. Idle /\ k \in ipc_clients /\ Close(k)
    BY <1>2 DEF CloseHungUp, BadMagic, Readable
  <2> QED BY <2>1, CloseStep
<1>3. CASE Next
  <2>1. Kept
    BY <1>2, <1>3, PeerStep, AcceptStep, ReadHeaderStep, ReadPayloadStep, DispatchStep,
       AudienceStep, SendStep
       DEF Next, HandleReadable, Send
  <2> QED BY <1>1, <2>1 DEF Kept, IInv
<1>4. CASE UNCHANGED vars
  <2>1. UNCHANGED <<ipc_clients, conn, inbox, gone, handler, output>>
    BY <1>4 DEF vars, input
  <2>2. Inputs' /\ Outputs' /\ Handlers'
    BY <2>1, InputsStay, OutputsStay DEF IInv, Inputs, Handlers, handler
  <2> QED BY <1>1, <1>4, <2>2 DEF IInv
<1> QED BY <1>3, <1>4

LEMMA Inductive == Spec => []IInv
<1>1. IInv /\ [Next]_vars => IInv'
  BY StepKeeps
<1> QED BY <1>1, IInvInit, PTL DEF Spec

(* Every variable keeps its type whatever the peers send, however they      *)
(* stall and whenever they leave.                                           *)
THEOREM TypeCorrect == Spec => []TypeOK
BY Inductive, IInvTypes, PTL

(* However a request is cut into reads, the header and payload read so far  *)
(* are the beginning of the request the client sent, and the stream goes on *)
(* where they end.                                                          *)
THEOREM ReadsStayInStep == Spec => []ReadsInStep
BY Inductive, IInvReads, PTL

(* Every request that is read to its end is answered, once, in its turn and *)
(* as it was sent, and nothing else is.                                     *)
THEOREM RequestsAnswered == Spec => AnsweredAsSent
<1>1. IInv /\ [Next]_vars => [Answered]_vars
  BY StepKeeps
<1>2. AnsweredAsSent <=> [][Answered]_vars
  BY DEF AnsweredAsSent, Answered, RepliesInTurn
<1> QED BY <1>1, <1>2, Inductive, PTL DEF Spec
=============================================================================
