-------------------------- MODULE HttpAndMapProofs --------------------------
(***************************************************************************)
(* HttpDemo for any number of clients, peers, requests, routes and         *)
(* handlers: the session set is the set of open websocket connections, and *)
(* a callback is given the first answer to its own request.                *)
(*                                                                         *)
(* HashMap for any number of threads, keys, buckets and nodes: a node has  *)
(* one owner, a bucket holds exactly the nodes inserted into it, and the   *)
(* map implements KeySet.                                                  *)
(***************************************************************************)
EXTENDS HttpDemo, HashMap, SequenceTheorems, FiniteSetTheorems, ChainLemmas, TLAPS

In  == [kind : {"request"}, url : Url] \cup {Upgrade, Frame, Fin}
Out == [kind : {"head", "rest"}, conn : Conn, by : Handler \cup {Builtin}] \cup {Frame, Fin}

\* Both answers to a request are messages of the stream.
LEMMA AnswersTyped ==
  ASSUME ServerTypeOK, NEW n \in Conn, NEW u \in Url
  PROVE  Answers(n, u) \in Seq(Out)
<1>1. \A h \in Handler \cup {Builtin} : Reply(n, h) \in Seq(Out)
  BY DEF Reply, Out
<1>2. u \in DOMAIN table => table[u] \in Handler
  BY DEF ServerTypeOK, Range
<1>. QED
  BY <1>1, <1>2 DEF Answers

\* What changes no variable of the server's side
LEMMA ServerKept == SessionsAreOpen /\ UNCHANGED serverVars => SessionsAreOpen'
BY DEF serverVars, SessionsAreOpen, ServerTypeOK

\* A stream that gets a message or loses its first ones is still a stream.
LEMMA StreamsTyped ==
  ASSUME NEW S, NEW f \in [Conn -> Seq(S)], NEW n \in Conn
  PROVE  /\ \A x \in S : [f EXCEPT ![n] = Append(@, x)] \in [Conn -> Seq(S)]
         /\ \A s \in Seq(S) : [f EXCEPT ![n] = s] \in [Conn -> Seq(S)]
         /\ \A s \in Seq(S) : [f EXCEPT ![n] = @ \o s] \in [Conn -> Seq(S)]
         /\ f[n] # <<>> => [f EXCEPT ![n] = Tail(@)] \in [Conn -> Seq(S)]
         /\ \A k \in 1 .. Len(f[n]) : [f EXCEPT ![n] = SubSeq(@, k + 1, Len(@))] \in [Conn -> Seq(S)]
OBVIOUS

LEMMA MessagesTyped ==
  /\ {Upgrade, Frame, Fin} \subseteq In
  /\ {Frame, Fin} \subseteq Out
  /\ \A u \in Url : Request(u) \in In
BY DEF In, Out, Request

LEMMA SessionsInit == Init => SessionsAreOpen
BY DEF Init, ServerInit, SessionsAreOpen, ServerTypeOK, Range

\* Setup and the end of the server
LEMMA SessionsSetup ==
  ASSUME SessionsAreOpen, ServerSetup \/ Exit
  PROVE  SessionsAreOpen'
<1>. USE DEF SessionsAreOpen, ServerTypeOK
<1>1. ASSUME NEW u \in Url, RemoveHandler(u) PROVE SessionsAreOpen'
  BY <1>1 DEF RemoveHandler, Range
<1>2. ASSUME NEW u \in Url, NEW h \in Handler, AddHandler(u, h) PROVE SessionsAreOpen'
  <2>1. Range(table') \subseteq Handler
    BY <1>2 DEF AddHandler, Range
  <2>. QED
    BY <1>2, <2>1 DEF AddHandler
<1>3. CASE Start
  BY <1>3 DEF Start
<1>4. CASE Exit
  <2>1. inbox' \in [Conn -> Seq(In)]
    BY <1>4 DEF Exit
  <2>2. outbox' \in [Conn -> Seq(Out)]
    <3>1. outbox \in [Conn -> Seq(Out)]
      BY DEF Out
    <3>2. \A n \in Conn : Append(outbox[n], Fin) \in Seq(Out)
      BY <3>1, MessagesTyped
    <3>. QED
      BY <1>4, <3>1, <3>2 DEF Exit
  <2>. QED
    BY <1>4, <2>1, <2>2 DEF Exit, In, Out
<1>. QED
  BY <1>1, <1>2, <1>3, <1>4 DEF ServerSetup

\* The loop of the server
LEMMA SessionsPoll ==
  ASSUME SessionsAreOpen, Poll
  PROVE  SessionsAreOpen'
<1>. USE DEF SessionsAreOpen
<1>0. inbox \in [Conn -> Seq(In)] /\ outbox \in [Conn -> Seq(Out)]
  BY DEF ServerTypeOK, In, Out
<1>1. ASSUME NEW n \in Conn, Accept(n) PROVE SessionsAreOpen'
  BY <1>1 DEF Accept, ServerTypeOK
<1>2. ASSUME NEW n \in Conn, NEW u \in Url, HandleHttpEvent(n, u) PROVE SessionsAreOpen'
  <2>1. inbox' \in [Conn -> Seq(In)]
    BY <1>0, <1>2, StreamsTyped DEF HandleHttpEvent, Receives
  <2>2. outbox' \in [Conn -> Seq(Out)]
    BY <1>0, <1>2, StreamsTyped, AnswersTyped DEF HandleHttpEvent
  <2>. QED
    BY <1>2, <2>1, <2>2 DEF HandleHttpEvent, ServerTypeOK, In, Out
<1>3. ASSUME NEW n \in Conn, HandshakeDone(n) PROVE SessionsAreOpen'
  <2>1. inbox' \in [Conn -> Seq(In)] /\ n \in accepted
    BY <1>0, <1>3, StreamsTyped DEF HandshakeDone, Receives
  <2>2. outbox' \in [Conn -> Seq(Out)]
    BY <1>0, <1>3, StreamsTyped, MessagesTyped DEF HandshakeDone
  <2>. QED
    BY <1>3, <2>1, <2>2 DEF HandshakeDone, ServerTypeOK, In, Out
<1>4. ASSUME NEW n \in Conn, HandleFrame(n) PROVE SessionsAreOpen'
  <2>1. inbox' \in [Conn -> Seq(In)]
    BY <1>0, <1>4, StreamsTyped DEF HandleFrame, Receives
  <2>2. outbox' \in [Conn -> Seq(Out)]
    BY <1>0, <1>4, StreamsTyped, MessagesTyped DEF HandleFrame
  <2>. QED
    BY <1>4, <2>1, <2>2 DEF HandleFrame, ServerTypeOK, In, Out
<1>5. ASSUME NEW n \in Conn, HandleClose(n) PROVE SessionsAreOpen'
  <2>1. inbox' \in [Conn -> Seq(In)]
    <3>1. <<>> \in Seq(In)
      OBVIOUS
    <3>. QED
      BY <1>0, <1>5, <3>1, StreamsTyped DEF HandleClose
  <2>2. outbox' \in [Conn -> Seq(Out)]
    BY <1>0, <1>5, StreamsTyped, MessagesTyped DEF HandleClose
  <2>3. sessions' = websocket' /\ sessions' \subseteq accepted'
    BY <1>5 DEF HandleClose, SessionsAfterClose, ServerTypeOK
  <2>. QED
    BY <1>5, <2>1, <2>2, <2>3 DEF HandleClose, SessionsAfterClose, ServerTypeOK, In, Out
<1>. QED
  BY <1>1, <1>2, <1>3, <1>4, <1>5 DEF Poll

\* A client or a peer changes no more of the server's side than the streams.
LEMMA StreamsOnly ==
  ASSUME SessionsAreOpen, inbox' \in [Conn -> Seq(In)], outbox' \in [Conn -> Seq(Out)],
         UNCHANGED <<server, table, sessions, accepted, websocket>>
  PROVE  SessionsAreOpen'
BY DEF SessionsAreOpen, ServerTypeOK, In, Out

-----------------------------------------------------------------------------
(* The client.  The flag is set before the first call returns and never     *)
(* reset, so a later call finds it set and does not poll.                   *)
ClientInv ==
    /\ pc       \in [Client -> {"idle", "loop", "free"}]
    /\ req      \in [Client -> 0 .. MaxReq]
    /\ url      \in [Client -> Url]
    /\ exitFlag \in [Client -> {0, 1}]
    /\ \A c \in Client :
         /\ pc[c] # "idle" => req[c] >= 1
         /\ req[c] >= 2 \/ (req[c] = 1 /\ pc[c] # "loop") => exitFlag[c] = 1
    /\ calls \in [Client -> Seq([to : {1}, url : Url, head : Out])]

LEMMA CurrentIsConn ==
  ASSUME ClientInv, NEW c \in Client, pc[c] # "idle"
  PROVE  Current(c) \in Conn
BY ConnAssumption DEF ClientInv, Current

\* A client that polls is in its first call.
LEMMA PollsFirst ==
  ASSUME ClientInv, NEW c \in Client, Polls(c)
  PROVE  req[c] = 1 /\ Current(c) \in Conn
<1>1. pc[c] = "loop" /\ exitFlag[c] = 0 /\ req[c] \in 0 .. MaxReq
  BY DEF ClientInv, Polls
<1>2. req[c] >= 1 /\ ~(req[c] >= 2)
  BY <1>1 DEF ClientInv
<1>. QED
  BY <1>1, <1>2, BoundsAssumption, CurrentIsConn

\* What it reads are messages, and its callback is given the first ones.
LEMMA RepliedTyped ==
  ASSUME ClientInv, NEW c \in Client, Polls(c), NEW b \in Seq(Out), NEW closing \in BOOLEAN
  PROVE  Replied(c, b, closing) \in Seq([to : {1}, url : Url, head : Out])
<1>. DEFINE first == Buffered(b)
            left  == IF Whole(b) THEN Leftover(b) ELSE b
            final == IF closing THEN AtClose(left) ELSE <<>>
<1>1. first \in Seq(Out) /\ left \in Seq(Out)
  BY DEF Buffered, Whole, Leftover
<1>2. final \in Seq(Out)
  <2>. HIDE DEF left
  <2>. QED
    BY <1>1 DEF AtClose, Begun
<1>3. req[c] = 1 /\ url[c] \in Url
  BY PollsFirst DEF ClientInv
<1>. HIDE DEF first, final
<1>4. first \o final \in Seq(Out)
  BY <1>1, <1>2, ConcatProperties
<1>5. ASSUME NEW s \in Seq(Out)
      PROVE  [i \in DOMAIN s |-> [to |-> req[c], url |-> url[c], head |-> s[i]]]
                 \in Seq([to : {1}, url : Url, head : Out])
  <2>1. DOMAIN s = 1 .. Len(s) /\ Len(s) \in Nat /\ \A i \in 1 .. Len(s) : s[i] \in Out
    OBVIOUS
  <2>2. [i \in 1 .. Len(s) |-> [to |-> req[c], url |-> url[c], head |-> s[i]]]
            \in [1 .. Len(s) -> [to : {1}, url : Url, head : Out]]
    BY <1>3, <2>1
  <2>. QED
    BY <2>1, <2>2, SeqDef
<1>. QED
  BY <1>4, <1>5 DEF Replied, first, final

Inv == SessionsAreOpen /\ ClientInv /\ buf \in [Client -> Seq(Out)]

LEMMA InvInit == Init => Inv
BY SessionsInit, BoundsAssumption DEF Init, ClientInit, Inv, ClientInv

\* SendReq: after the first call the flag is set already.
LEMMA CallKeeps ==
  ASSUME Inv, NEW c \in Client, NEW u \in Url, SendReq(c, u)
  PROVE  Inv'
<1>1. SessionsAreOpen'
  BY ServerKept DEF SendReq, Inv
<1>2. exitFlag' = exitFlag
  BY DEF SendReq, FlagAtCall, Inv, ClientInv
<1>3. pc[c] = "idle" /\ req[c] \in 0 .. MaxReq /\ req[c] + 1 \in 0 .. MaxReq
  BY BoundsAssumption DEF SendReq, Inv, ClientInv
<1>4. req[c] + 1 >= 2 => exitFlag[c] = 1
  BY <1>3, BoundsAssumption DEF Inv, ClientInv
<1>5. \A d \in Client : /\ pc'[d] # "idle" => req'[d] >= 1
                        /\ req'[d] >= 2 \/ (req'[d] = 1 /\ pc'[d] # "loop") => exitFlag'[d] = 1
  <2>1. /\ pc' = [pc EXCEPT ![c] = "loop"]
        /\ req' = [req EXCEPT ![c] = @ + 1]
    BY DEF SendReq
  <2>2. ASSUME NEW d \in Client, d # c
        PROVE  /\ pc'[d] # "idle" => req'[d] >= 1
               /\ req'[d] >= 2 \/ (req'[d] = 1 /\ pc'[d] # "loop") => exitFlag'[d] = 1
    BY <1>2, <2>1, <2>2 DEF Inv, ClientInv
  <2>3. /\ pc'[c] # "idle" => req'[c] >= 1
        /\ req'[c] >= 2 \/ (req'[c] = 1 /\ pc'[c] # "loop") => exitFlag'[c] = 1
    BY <1>2, <1>3, <1>4, <2>1, BoundsAssumption DEF Inv, ClientInv
  <2>. QED
    BY <2>2, <2>3
<1>6. ClientInv'
  BY <1>2, <1>3, <1>5 DEF SendReq, Inv, ClientInv
<1>7. buf' \in [Client -> Seq(Out)]
  BY DEF SendReq, Inv
<1>. QED
  BY <1>1, <1>6, <1>7 DEF Inv

\* A piece of the stream is read.
LEMMA ReadKeeps ==
  ASSUME Inv, NEW c \in Client, Read(c)
  PROVE  Inv'
<1>1. /\ inbox \in [Conn -> Seq(In)] /\ outbox \in [Conn -> Seq(Out)]
      /\ Current(c) \in Conn /\ req[c] = 1 /\ pc[c] = "loop"
  BY PollsFirst DEF Inv, SessionsAreOpen, ServerTypeOK, In, Out, Read, Polls
<1>2. PICK k \in 1 .. Len(outbox[Current(c)]) :
        LET got    == SubSeq(outbox[Current(c)], 1, k)
            ended  == Last(got) = Fin
            b      == buf[c] \o (IF ended THEN Front(got) ELSE got)
            closes == Whole(b) \/ ended
        IN  /\ outbox' = [outbox EXCEPT ![Current(c)] = SubSeq(@, k + 1, Len(@))]
            /\ buf' = [buf EXCEPT ![c] = IF closes THEN <<>> ELSE b]
            /\ calls' = [calls EXCEPT ![c] = @ \o Replied(c, b, closes)]
            /\ exitFlag' = [exitFlag EXCEPT ![c] = IF closes THEN 1 ELSE @]
            /\ inbox' = IF closes THEN [inbox EXCEPT ![Current(c)] = Append(@, Fin)] ELSE inbox
  BY DEF Read
<1>. DEFINE got    == SubSeq(outbox[Current(c)], 1, k)
            ended  == Last(got) = Fin
            b      == buf[c] \o (IF ended THEN Front(got) ELSE got)
            closes == Whole(b) \/ ended
<1>3. got \in Seq(Out) /\ got # <<>> /\ Front(got) \in Seq(Out)
  <2>1. \A i \in 1 .. k : outbox[Current(c)][i] \in Out
    BY <1>1
  <2>2. got \in Seq(Out) /\ Len(got) = k
    BY <2>1, SubSeqProperties
  <2>3. Front(got) \in Seq(Out)
    BY <2>2, SubSeqProperties DEF Front
  <2>. QED
    BY <2>2, <2>3
<1>4. b \in Seq(Out)
  <2>1. buf[c] \in Seq(Out)
    BY DEF Inv
  <2>. QED
    BY <1>3, <2>1
<1>5. closes \in BOOLEAN
  BY DEF Whole
<1>6. Replied(c, b, closes) \in Seq([to : {1}, url : Url, head : Out])
  <2>. HIDE DEF b, closes
  <2>1. ClientInv /\ Polls(c)
    BY DEF Inv, Read
  <2>. QED
    BY <1>4, <1>5, <2>1, RepliedTyped
<1>7. SessionsAreOpen'
  <2>1. outbox' \in [Conn -> Seq(Out)]
    BY <1>1, <1>2, StreamsTyped
  <2>2. inbox' \in [Conn -> Seq(In)]
    BY <1>1, <1>2, StreamsTyped, MessagesTyped
  <2>. QED
    BY <2>1, <2>2, StreamsOnly DEF Read, Inv
<1>8. buf' \in [Client -> Seq(Out)]
  <2>. HIDE DEF b, closes
  <2>1. buf' = [buf EXCEPT ![c] = IF closes THEN <<>> ELSE b]
    BY <1>2 DEF b, closes
  <2>. QED
    BY <1>4, <2>1 DEF Inv
<1>9. calls' \in [Client -> Seq([to : {1}, url : Url, head : Out])]
  <2>. HIDE DEF b, closes
  <2>1. calls' = [calls EXCEPT ![c] = @ \o Replied(c, b, closes)]
    BY <1>2 DEF b, closes
  <2>. QED
    BY <1>6, <2>1, ConcatProperties DEF Inv, ClientInv
<1>10. /\ exitFlag' \in [Client -> {0, 1}]
       /\ \A d \in Client : exitFlag[d] = 1 => exitFlag'[d] = 1
  BY <1>2 DEF Inv, ClientInv
<1>11. ClientInv'
  BY <1>1, <1>9, <1>10 DEF Read, Inv, ClientInv
<1>. QED
  BY <1>7, <1>8, <1>11 DEF Inv

LEMMA ClientKeeps ==
  ASSUME Inv, NEW c \in Client, ClientStep(c)
  PROVE  Inv'
<1>0. inbox \in [Conn -> Seq(In)] /\ outbox \in [Conn -> Seq(Out)]
  BY DEF Inv, SessionsAreOpen, ServerTypeOK, In, Out
<1>1. CASE Connected(c)
  <2>1. Current(c) \in Conn /\ url[c] \in Url
    BY <1>1, PollsFirst DEF Connected, Inv, ClientInv
  <2>2. inbox' \in [Conn -> Seq(In)]
    <3>1. <<Request(url[c])>> \in Seq(In)
      BY <2>1, MessagesTyped
    <3>. QED
      BY <1>0, <1>1, <2>1, <3>1, StreamsTyped DEF Connected
  <2>3. SessionsAreOpen'
    BY <1>0, <1>1, <2>2, StreamsOnly DEF Connected, Inv
  <2>. QED
    BY <1>1, <2>3 DEF Connected, Inv, ClientInv
<1>2. CASE Refused(c)
  <2>1. SessionsAreOpen'
    BY <1>2, ServerKept DEF Refused, Inv
  <2>. QED
    BY <1>2, <2>1 DEF Refused, FlagAfterError, Inv, ClientInv
<1>3. CASE LeaveLoop(c)
  <2>1. SessionsAreOpen'
    BY <1>3, ServerKept DEF LeaveLoop, Inv
  <2>2. exitFlag[c] = 1
    BY <1>3 DEF LeaveLoop, Inv, ClientInv
  <2>. QED
    BY <1>3, <2>1, <2>2 DEF LeaveLoop, Inv, ClientInv
<1>4. CASE MgrFree(c)
  <2>1. Current(c) \in Conn /\ url[c] \in Url
    BY <1>4, CurrentIsConn DEF MgrFree, Inv, ClientInv
  <2>2. inbox' \in [Conn -> Seq(In)]
    <3>1. <<Request(url[c]), Fin>> \in Seq(In)
      BY <2>1, MessagesTyped
    <3>2. [inbox EXCEPT ![Current(c)] = <<Request(url[c]), Fin>>] \in [Conn -> Seq(In)]
      BY <1>0, <2>1, <3>1, StreamsTyped
    <3>. QED
      BY <1>0, <1>4, <3>2 DEF MgrFree
  <2>3. SessionsAreOpen'
    BY <1>0, <1>4, <2>2, StreamsOnly DEF MgrFree, Inv
  <2>4. ClientInv'
    BY <1>4 DEF MgrFree, Inv, ClientInv
  <2>. QED
    BY <1>4, <2>3, <2>4 DEF MgrFree, Inv
<1>. QED
  BY <1>1, <1>2, <1>3, <1>4, ReadKeeps DEF ClientStep

\* A peer only sends.
LEMMA PeerKeeps ==
  ASSUME Inv, NEW p \in Peer, PeerStep(p)
  PROVE  Inv'
<1>1. PICK m \in {Upgrade, Frame, Fin} : PeerSends(p, m)
  BY DEF PeerStep
<1>2. inbox' \in [Conn -> Seq(In)] /\ outbox' \in [Conn -> Seq(Out)]
  <2>1. inbox \in [Conn -> Seq(In)] /\ outbox \in [Conn -> Seq(Out)] /\ p \in Conn
    BY ConnAssumption DEF Inv, SessionsAreOpen, ServerTypeOK, In, Out
  <2>. QED
    BY <1>1, <2>1, StreamsTyped, MessagesTyped DEF PeerSends
<1>3. SessionsAreOpen'
  BY <1>1, <1>2, StreamsOnly DEF PeerSends, Inv
<1>. QED
  BY <1>1, <1>3 DEF PeerSends, clientVars, Inv, ClientInv

LEMMA InvNext == Inv /\ [Next]_vars => Inv'
<1>. SUFFICES ASSUME Inv, [Next]_vars PROVE Inv'
  OBVIOUS
<1>1. CASE (ServerSetup \/ Poll \/ Exit) /\ UNCHANGED clientVars
  BY <1>1, SessionsSetup, SessionsPoll DEF Inv, ClientInv, clientVars
<1>2. CASE UNCHANGED vars
  BY <1>2, ServerKept DEF vars, clientVars, Inv, ClientInv
<1>. QED
  BY <1>1, <1>2, CallKeeps, ClientKeeps, PeerKeeps DEF Next

\* The session set of the server holds exactly its open websocket connections.
THEOREM OpenSessions == Spec => []SessionsAreOpen
<1>1. Inv => SessionsAreOpen
  BY DEF Inv
<1>. QED
  BY InvInit, InvNext, <1>1, PTL DEF Spec

-----------------------------------------------------------------------------
(* The stream of a client's first call, the only one that reads.  Until its *)
(* flag is set, the connection is not made yet, or its request waits to be  *)
(* read, or what was sent begins with the first answer to it, of which the  *)
(* client has taken the head at most.                                       *)
Own(c) == <<c, 1>>

\* Clients may call SendReq at all.
MayCall == MaxReq >= 1

Answerer(u) == IF u \in DOMAIN table THEN table[u] ELSE Builtin

FirstAnswer(c) == [kind |-> "head", conn |-> Own(c), by |-> Answerer(url[c])]

Untouched(c) == /\ inbox[Own(c)] = <<>> /\ outbox[Own(c)] = <<>> /\ buf[c] = <<>>
                /\ Own(c) \notin accepted

Unread(c) == inbox[Own(c)] = <<Request(url[c])>> /\ outbox[Own(c)] = <<>> /\ buf[c] = <<>>

\* The server ended before it had read the request.
Ended(c) == buf[c] = <<>> /\ outbox[Own(c)] = <<Fin>> /\ server = "down"

Sent(c) == /\ buf[c] = <<>> /\ Len(outbox[Own(c)]) >= 2
           /\ outbox[Own(c)][1] = FirstAnswer(c) /\ outbox[Own(c)][2].kind = "rest"

HeadTaken(c) == /\ buf[c] = <<FirstAnswer(c)>> /\ Len(outbox[Own(c)]) >= 1
                /\ outbox[Own(c)][1].kind = "rest"

Open(c) == /\ server # "init"
           /\ Unread(c) \/ (inbox[Own(c)] = <<>> /\ (Ended(c) \/ Sent(c) \/ HeadTaken(c)))

\* At most one callback, with the answer of the table, which is fixed by then
Called(c) ==
    calls[c] # <<>> =>
      /\ server # "init" /\ exitFlag[c] = 1 /\ Len(calls[c]) = 1
      /\ calls[c][1].head = [kind |-> "head", conn |-> Own(c), by |-> Answerer(calls[c][1].url)]

Stream(c) == /\ Called(c)
             /\ pc[c] = "idle" => state[c] = "closed"
             /\ exitFlag[c] = 0 /\ MayCall =>
                  IF state[c] = "open" THEN Open(c) ELSE Untouched(c)

Streams == /\ Inv /\ state \in [Client -> {"closed", "connecting", "open"}]
           /\ \A c \in Client : Stream(c)

LEMMA OwnIsConn == \A c \in Client : MayCall => Own(c) \in Conn /\ Own(c) \notin Peer
<1>1. MayCall => 1 \in 1 .. MaxReq
  BY BoundsAssumption DEF MayCall
<1>. QED
  BY <1>1, ConnAssumption, PeerAssumption DEF Own

LEMMA StreamsInit == Init => Streams
<1>. SUFFICES ASSUME Init PROVE Streams
  OBVIOUS
<1>1. ASSUME NEW c \in Client PROVE Stream(c)
  BY OwnIsConn DEF Init, ServerInit, ClientInit, Stream, Called, Untouched
<1>. QED
  BY <1>1, InvInit DEF Streams, Init, ClientInit

\* A step that changes nothing of client c, nor of its stream, nor the table
LEMMA StreamSame ==
  ASSUME NEW c \in Client, Stream(c), UNCHANGED <<server, table>>,
         pc'[c] = pc[c], state'[c] = state[c], exitFlag'[c] = exitFlag[c], url'[c] = url[c],
         buf'[c] = buf[c], calls'[c] = calls[c],
         MayCall => /\ inbox'[Own(c)] = inbox[Own(c)] /\ outbox'[Own(c)] = outbox[Own(c)]
                    /\ Own(c) \in accepted' => Own(c) \in accepted
  PROVE  Stream(c)'
<1>1. Called(c)'
  BY DEF Stream, Called, Answerer, Own
<1>2. ASSUME MayCall, Untouched(c) PROVE Untouched(c)'
  BY <1>2 DEF Untouched, Own
<1>3. ASSUME MayCall, Open(c) PROVE Open(c)'
  BY <1>3 DEF Open, Unread, Ended, Sent, HeadTaken, FirstAnswer, Answerer, Own, Request
<1>. QED
  BY <1>1, <1>2, <1>3 DEF Stream, Own

\* Before Start there is no request and no answer, so that the table may change.
LEMMA SetupStreams ==
  ASSUME Streams, ServerSetup /\ UNCHANGED clientVars, NEW c \in Client
  PROVE  Stream(c)'
<1>1. server = "init" /\ UNCHANGED <<inbox, outbox, accepted, clientVars>>
  BY DEF ServerSetup, AddHandler, RemoveHandler, Start
<1>2. Stream(c)
  BY DEF Streams
<1>. QED
  BY <1>1, <1>2 DEF clientVars, Stream, Called, Open, Untouched, Own

\* The end of the server ends every stream that it has begun to serve.
LEMMA ExitStreams ==
  ASSUME Streams, Exit /\ UNCHANGED clientVars, NEW c \in Client
  PROVE  Stream(c)'
<1>0. Stream(c) /\ outbox \in [Conn -> Seq(Out)]
  BY DEF Streams, Inv, SessionsAreOpen, ServerTypeOK, Out
<1>1. Called(c)'
  BY <1>0 DEF Exit, clientVars, Stream, Called, Answerer, Own
<1>2. ASSUME MayCall, Untouched(c) PROVE Untouched(c)'
  BY <1>2, OwnIsConn DEF Exit, clientVars, Untouched, Own
<1>3. ASSUME MayCall, Open(c) PROVE Open(c)'
  <2>1. /\ server = "up" /\ server' = "down" /\ inbox'[Own(c)] = <<>>
        /\ outbox'[Own(c)] = IF inbox[Own(c)] # <<>> \/ Own(c) \in accepted
                             THEN Append(outbox[Own(c)], Fin) ELSE outbox[Own(c)]
        /\ UNCHANGED <<table, url, buf>>
    BY <1>3, OwnIsConn DEF Exit, clientVars
  <2>2. outbox[Own(c)] \in Seq(Out) /\ Fin \in Out
    BY <1>0, <1>3, OwnIsConn DEF Out
  <2>3. CASE Unread(c)
    <3>1. outbox'[Own(c)] = Append(<<>>, Fin) /\ buf'[c] = <<>>
      BY <2>1, <2>3 DEF Unread
    <3>2. Append(<<>>, Fin) = <<Fin>>
      OBVIOUS
    <3>3. Ended(c)'
      BY <2>1, <3>1, <3>2, Zenon DEF Ended, Own
    <3>. QED
      BY <2>1, <3>3 DEF Open, Own
  <2>4. FirstAnswer(c)' = FirstAnswer(c)
    BY <2>1 DEF FirstAnswer, Answerer, Own
  <2>5. /\ Len(outbox'[Own(c)]) >= Len(outbox[Own(c)])
        /\ \A i \in 1 .. Len(outbox[Own(c)]) : outbox'[Own(c)][i] = outbox[Own(c)][i]
    BY <2>1, <2>2, AppendProperties
  <2>6. Len(outbox[Own(c)]) \in Nat /\ Len(outbox'[Own(c)]) \in Nat
    BY <2>1, <2>2, AppendProperties
  <2>7. CASE Sent(c)
    <3>1. Sent(c)'
      BY <2>1, <2>4, <2>5, <2>6, <2>7 DEF Sent, Own
    <3>. QED
      BY <2>1, <3>1 DEF Open, Own
  <2>8. CASE HeadTaken(c)
    <3>1. HeadTaken(c)'
      BY <2>1, <2>4, <2>5, <2>6, <2>8 DEF HeadTaken, Own
    <3>. QED
      BY <2>1, <3>1 DEF Open, Own
  <2>. QED
    BY <1>3, <2>1, <2>3, <2>7, <2>8 DEF Open, Ended
<1>. QED
  BY <1>0, <1>1, <1>2, <1>3 DEF Exit, clientVars, Stream, Own

LEMMA BeginsWith ==
  ASSUME NEW S, NEW p \in Seq(S), NEW q \in Seq(S)
  PROVE  Len(p \o q) >= Len(p) /\ \A i \in 1 .. Len(p) : (p \o q)[i] = p[i]
BY ConcatProperties

\* The loop of the server touches the stream only when it answers the request.
LEMMA PollStreams ==
  ASSUME Streams, Poll /\ UNCHANGED clientVars, NEW c \in Client
  PROVE  Stream(c)'
<1>0. /\ Stream(c) /\ inbox \in [Conn -> Seq(In)] /\ outbox \in [Conn -> Seq(Out)]
      /\ accepted \subseteq Conn
  BY DEF Streams, Inv, SessionsAreOpen, ServerTypeOK, In, Out
<1>1. /\ UNCHANGED <<server, table>> /\ server = "up"
      /\ UNCHANGED <<pc, state, exitFlag, url, buf, calls>>
  BY DEF Poll, Accept, HandleHttpEvent, HandshakeDone, HandleFrame, HandleClose, Receives, clientVars
<1>2. PICK n \in Conn : \/ Accept(n) \/ (\E u \in Url : HandleHttpEvent(n, u))
                        \/ HandshakeDone(n) \/ HandleFrame(n) \/ HandleClose(n)
  BY DEF Poll
<1>3. CASE n # Own(c)
  <2>1. MayCall => /\ inbox'[Own(c)] = inbox[Own(c)] /\ outbox'[Own(c)] = outbox[Own(c)]
                   /\ Own(c) \in accepted' => Own(c) \in accepted
    BY <1>0, <1>2, <1>3, OwnIsConn
       DEF Accept, HandleHttpEvent, HandshakeDone, HandleFrame, HandleClose, Receives
  <2>. QED
    BY <1>0, <1>1, <2>1, StreamSame
<1>4. CASE n = Own(c) /\ (exitFlag[c] # 0 \/ ~(MayCall))
  BY <1>0, <1>1, <1>4 DEF Stream, Called, Answerer, Own
<1>5. CASE n = Own(c) /\ exitFlag[c] = 0 /\ MayCall
  <2>1. inbox[n] # <<>>
    <3>1. HandleClose(n) => inbox[n] # <<>>
      <4>1. \A x : x \notin ToSet(<<>>)
        BY DEF ToSet
      <4>. QED
        BY <4>1 DEF HandleClose
    <3>. QED
      BY <1>2, <3>1 DEF Accept, HandleHttpEvent, HandshakeDone, HandleFrame, Receives
  <2>2. state[c] = "open" /\ Unread(c)
    BY <1>0, <1>5, <2>1 DEF Stream, Untouched, Open
  <2>3. inbox[n] = <<Request(url[c])>> /\ Head(inbox[n]) = Request(url[c])
    BY <1>5, <2>2 DEF Unread
  <2>4. CASE Accept(n)
    <3>1. Open(c) /\ server' = server
      BY <1>1, <2>2 DEF Open
    <3>2. Open(c)'
      BY <1>1, <2>4, <3>1 DEF Accept, Open, Unread, Ended, Sent, HeadTaken, FirstAnswer, Answerer, Own, Request
    <3>3. Called(c)'
      BY <1>0, <1>1 DEF Stream, Called, Answerer, Own
    <3>. QED
      BY <1>0, <1>1, <2>2, <3>2, <3>3 DEF Stream, Own
  <2>5. ASSUME NEW u \in Url, HandleHttpEvent(n, u) PROVE Stream(c)'
    <3>1. u = url[c]
      BY <2>3, <2>5 DEF HandleHttpEvent, Receives, Request
    <3>2. inbox'[n] = <<>> /\ outbox'[n] = Answers(n, u)
      <4>1. inbox'[n] = Tail(inbox[n]) /\ outbox'[n] = outbox[n] \o Answers(n, u)
        BY <1>0, <2>5 DEF HandleHttpEvent, Receives
      <4>2. Answers(n, u) \in Seq(Out) /\ outbox[n] = <<>>
        BY <1>5, <2>2, AnswersTyped DEF Unread, Streams, Inv, SessionsAreOpen
      <4>. QED
        BY <2>3, <4>1, <4>2
    <3>3. /\ Len(Answers(n, u)) >= 2
          /\ Answers(n, u)[1] = [kind |-> "head", conn |-> n, by |-> Answerer(u)]
          /\ Answers(n, u)[2].kind = "rest"
      <4>. DEFINE R(h) == <<[kind |-> "head", conn |-> n, by |-> h],
                            [kind |-> "rest", conn |-> n, by |-> h]>>
      <4>1. Answers(n, u) = IF u \in DOMAIN table THEN R(table[u]) \o R(Builtin) ELSE <<>> \o R(Builtin)
        BY DEF Answers, Reply
      <4>2. R(Answerer(u)) \in Seq(Out) /\ R(Builtin) \in Seq(Out)
        BY <2>5 DEF Answerer, Out, Streams, Inv, SessionsAreOpen, ServerTypeOK, Range
      <4>3. Len(R(Answerer(u))) = 2 /\ Len(R(Builtin)) = 2
        OBVIOUS
      <4>4. /\ R(Answerer(u))[1] = [kind |-> "head", conn |-> n, by |-> Answerer(u)]
            /\ R(Answerer(u))[2].kind = "rest"
        OBVIOUS
      <4>. HIDE DEF R
      <4>5. CASE u \in DOMAIN table
        <5>1. Answers(n, u) = R(Answerer(u)) \o R(Builtin)
          BY <4>1, <4>5 DEF Answerer
        <5>2. /\ Len(Answers(n, u)) >= 2
              /\ Answers(n, u)[1] = R(Answerer(u))[1] /\ Answers(n, u)[2] = R(Answerer(u))[2]
          <6>1. 1 \in 1 .. Len(R(Answerer(u))) /\ 2 \in 1 .. Len(R(Answerer(u)))
            BY <4>3
          <6>2. /\ Len(R(Answerer(u)) \o R(Builtin)) >= Len(R(Answerer(u)))
                /\ \A i \in 1 .. Len(R(Answerer(u))) :
                     (R(Answerer(u)) \o R(Builtin))[i] = R(Answerer(u))[i]
            BY <4>2, BeginsWith
          <6>. QED
            BY <4>3, <5>1, <6>1, <6>2
        <5>. QED
          BY <4>4, <5>2
      <4>6. CASE u \notin DOMAIN table
        <5>1. Answers(n, u) = R(Answerer(u))
          BY <4>1, <4>2, <4>6, ConcatEmptySeq DEF Answerer
        <5>. QED
          BY <4>3, <4>4, <5>1
      <4>. QED
        BY <4>5, <4>6
    <3>4. Sent(c)'
      BY <1>1, <1>5, <2>2, <3>1, <3>2, <3>3 DEF Sent, Unread, FirstAnswer, Answerer, Own
    <3>5. Open(c)'
      BY <1>1, <1>5, <3>2, <3>4 DEF Open, Own
    <3>6. Called(c)'
      BY <1>0, <1>1 DEF Stream, Called, Answerer, Own
    <3>. QED
      BY <1>0, <1>1, <2>2, <3>5, <3>6 DEF Stream, Own
  <2>6. ~HandshakeDone(n) /\ ~HandleFrame(n)
    BY <2>3 DEF HandshakeDone, HandleFrame, Receives, Request, Upgrade, Frame
  <2>7. ~HandleClose(n)
    BY <2>3 DEF HandleClose, ToSet, Request, Fin
  <2>. QED
    BY <1>2, <2>4, <2>5, <2>6, <2>7
<1>. QED
  BY <1>3, <1>4, <1>5

\* A peer and another client have connections of their own.
LEMMA OthersStreams ==
  ASSUME Streams, NEW c \in Client,
         \/ \E p \in Peer : PeerStep(p)
         \/ \E d \in Client \ {c} : ClientStep(d) \/ \E u \in Url : SendReq(d, u)
  PROVE  Stream(c)'
<1>0. /\ Stream(c) /\ inbox \in [Conn -> Seq(In)] /\ outbox \in [Conn -> Seq(Out)]
      /\ ClientInv /\ buf \in [Client -> Seq(Out)]
      /\ state \in [Client -> {"closed", "connecting", "open"}]
  BY DEF Streams, Inv, SessionsAreOpen, ServerTypeOK, In, Out
<1>1. ASSUME NEW p \in Peer, PeerStep(p) PROVE Stream(c)'
  <2>1. PICK m \in {Upgrade, Frame, Fin} : PeerSends(p, m)
    BY <1>1 DEF PeerStep
  <2>2. MayCall => Own(c) \in Conn /\ Own(c) # p
    BY OwnIsConn
  <2>3. MayCall => inbox'[Own(c)] = inbox[Own(c)]
    BY <1>0, <2>1, <2>2 DEF PeerSends
  <2>. QED
    BY <1>0, <2>1, <2>3, StreamSame DEF PeerSends, clientVars
<1>2. ASSUME NEW d \in Client \ {c}, ClientStep(d) \/ \E u \in Url : SendReq(d, u) PROVE Stream(c)'
  <2>1. Current(d) # Own(c)
    BY DEF Current, Own
  <2>2. /\ UNCHANGED <<server, table, accepted>>
        /\ pc'[c] = pc[c] /\ state'[c] = state[c] /\ exitFlag'[c] = exitFlag[c]
        /\ url'[c] = url[c] /\ buf'[c] = buf[c] /\ calls'[c] = calls[c]
        /\ MayCall => inbox'[Own(c)] = inbox[Own(c)] /\ outbox'[Own(c)] = outbox[Own(c)]
    <3>1. CASE \E u \in Url : SendReq(d, u)
      <4>1. PICK u \in Url : SendReq(d, u)
        BY <3>1
      <4>2. exitFlag' = exitFlag
        BY <1>0, <4>1 DEF SendReq, FlagAtCall, ClientInv
      <4>. QED
        BY <1>0, <4>1, <4>2 DEF SendReq, serverVars, ClientInv
    <3>2. CASE Connected(d)
      BY <1>0, <2>1, <3>2 DEF Connected
    <3>3. CASE Refused(d)
      BY <1>0, <3>3 DEF Refused, serverVars
    <3>4. CASE Read(d)
      BY <1>0, <2>1, <3>4 DEF Read
    <3>5. CASE LeaveLoop(d)
      BY <1>0, <3>5 DEF LeaveLoop, serverVars
    <3>6. CASE MgrFree(d)
      <4>1. MayCall => inbox'[Own(c)] = inbox[Own(c)]
        BY <1>0, <2>1, <3>6, OwnIsConn DEF MgrFree
      <4>. QED
        BY <1>0, <3>6, <4>1 DEF MgrFree
    <3>. QED
      BY <1>2, <3>1, <3>2, <3>3, <3>4, <3>5, <3>6 DEF ClientStep
  <2>. QED
    BY <1>0, <2>2, StreamSame
<1>. QED
  BY <1>1, <1>2

\* The steps of a client that read nothing
LEMMA CallStreams ==
  ASSUME Streams, NEW c \in Client,
         \/ Connected(c) \/ Refused(c) \/ LeaveLoop(c) \/ MgrFree(c)
         \/ \E u \in Url : SendReq(c, u)
  PROVE  Stream(c)'
<1>0. /\ Stream(c) /\ ClientInv /\ inbox \in [Conn -> Seq(In)] /\ outbox \in [Conn -> Seq(Out)]
      /\ buf \in [Client -> Seq(Out)] /\ state \in [Client -> {"closed", "connecting", "open"}]
  BY DEF Streams, Inv, SessionsAreOpen, ServerTypeOK, In, Out
<1>1. UNCHANGED <<server, table, calls>> /\ accepted' = accepted
  BY DEF Connected, Refused, LeaveLoop, MgrFree, SendReq, serverVars
<1>2. exitFlag[c] = 1 => exitFlag'[c] = 1
  BY <1>0 DEF Connected, Refused, LeaveLoop, MgrFree, SendReq, FlagAtCall, FlagAfterError, ClientInv
<1>3. Called(c)'
  BY <1>0, <1>1, <1>2 DEF Stream, Called, Answerer, Own
<1>4. CASE \E u \in Url : SendReq(c, u)
  <2>1. pc[c] = "idle" /\ pc'[c] = "loop" /\ state'[c] = "connecting" /\ buf'[c] = <<>>
        /\ exitFlag' = exitFlag /\ inbox' = inbox /\ outbox' = outbox
    BY <1>0, <1>4 DEF SendReq, FlagAtCall, serverVars, ClientInv
  <2>. QED
    BY <1>0, <1>1, <1>3, <2>1 DEF Stream, Untouched, Own
<1>5. CASE Connected(c)
  <2>1. Current(c) = Own(c) /\ Own(c) \in Conn /\ MayCall /\ exitFlag[c] = 0
    <3>1. Polls(c)
      BY <1>5 DEF Connected
    <3>2. req[c] = 1 /\ Current(c) \in Conn /\ exitFlag[c] = 0 /\ req[c] \in 0 .. MaxReq
      BY <1>0, <3>1, PollsFirst DEF Polls, ClientInv
    <3>. QED
      BY <3>2, BoundsAssumption DEF Current, Own, MayCall
  <2>2. /\ state[c] = "connecting" /\ state'[c] = "open" /\ server = "up" /\ pc[c] = "loop" /\ pc' = pc
        /\ inbox'[Own(c)] = <<Request(url[c])>> /\ outbox' = outbox /\ buf' = buf /\ url' = url
    BY <1>0, <1>5, <2>1 DEF Connected, Polls
  <2>3. Unread(c)'
    BY <1>0, <2>1, <2>2 DEF Stream, Untouched, Unread, Own, Request
  <2>. QED
    BY <1>1, <1>3, <2>2, <2>3 DEF Stream, Open, Own
<1>6. CASE Refused(c)
  BY <1>0, <1>3, <1>6 DEF Refused, FlagAfterError, Polls, Stream, ClientInv
<1>7. CASE LeaveLoop(c)
  BY <1>0, <1>3, <1>7 DEF LeaveLoop, Stream, ClientInv
<1>8. CASE MgrFree(c)
  <2>1. exitFlag[c] # 0
    <3>1. pc[c] = "free" /\ req[c] \in 0 .. MaxReq
      BY <1>0, <1>8 DEF MgrFree, ClientInv
    <3>2. req[c] >= 1 /\ req[c] \in Nat
      BY <1>0, <3>1, BoundsAssumption DEF ClientInv
    <3>3. req[c] >= 2 \/ req[c] = 1
      BY <3>2
    <3>. QED
      BY <1>0, <3>1, <3>3 DEF ClientInv
  <2>2. exitFlag'[c] # 0 /\ state'[c] = "closed"
    BY <1>0, <1>8, <2>1 DEF MgrFree
  <2>. QED
    BY <1>3, <2>2 DEF Stream
<1>. QED
  BY <1>4, <1>5, <1>6, <1>7, <1>8

\* The callback is given the head of a message that is whole, and nothing
\* when there is none.
LEMMA RepliedWhole ==
  ASSUME NEW c, NEW b \in Seq(Out), Whole(b), NEW closing \in BOOLEAN
  PROVE  Replied(c, b, closing) = <<[to |-> req[c], url |-> url[c], head |-> Head(b)]>>
<1>1. b # <<>> /\ Head(b) \in Out
  BY DEF Whole
<1>2. <<Head(b)>> \o <<>> = <<Head(b)>>
  BY <1>1, ConcatEmptySeq
<1>3. AtClose(Leftover(b)) = <<>>
  BY DEF AtClose, Begun, Leftover
<1>4. Replied(c, b, closing) =
        [i \in DOMAIN <<Head(b)>> |-> [to |-> req[c], url |-> url[c], head |-> <<Head(b)>>[i]]]
  BY <1>2, <1>3 DEF Replied, Buffered
<1>. QED
  BY <1>4

LEMMA RepliedNothing ==
  ASSUME NEW c, NEW b, ~Whole(b), NEW closing, ~(closing /\ Begun(b))
  PROVE  Replied(c, b, closing) = <<>>
<1>1. <<>> \o <<>> = <<>>
  OBVIOUS
<1>2. Replied(c, b, closing) = [i \in DOMAIN <<>> |-> [to |-> req[c], url |-> url[c], head |-> <<>>[i]]]
  BY <1>1 DEF Replied, Buffered, AtClose
<1>. QED
  BY <1>2

\* A piece of the stream is read: the buffer never holds more than the head of
\* the first answer, and the rest of it makes the message whole.
LEMMA ReadStreams ==
  ASSUME Streams, NEW c \in Client, Read(c)
  PROVE  Stream(c)'
<1>1. /\ Stream(c) /\ ClientInv /\ inbox \in [Conn -> Seq(In)] /\ outbox \in [Conn -> Seq(Out)]
      /\ buf \in [Client -> Seq(Out)] /\ state \in [Client -> {"closed", "connecting", "open"}]
  BY DEF Streams, Inv, SessionsAreOpen, ServerTypeOK, In, Out
<1>2. Polls(c) /\ state[c] = "open"
  BY DEF Read
<1>3. /\ Current(c) = Own(c) /\ Own(c) \in Conn /\ MayCall
      /\ req[c] = 1 /\ pc[c] = "loop" /\ exitFlag[c] = 0
  <2>1. req[c] = 1 /\ Current(c) \in Conn /\ req[c] \in 0 .. MaxReq
    BY <1>1, <1>2, PollsFirst DEF ClientInv
  <2>. QED
    BY <1>2, <2>1, BoundsAssumption DEF Current, Own, MayCall, Polls
<1>4. Open(c) /\ calls[c] = <<>>
  BY <1>1, <1>2, <1>3 DEF Stream, Called
<1>. DEFINE o == outbox[Own(c)]
<1>5. PICK k \in 1 .. Len(o) :
        LET got    == SubSeq(o, 1, k)
            ended  == Last(got) = Fin
            b      == buf[c] \o (IF ended THEN Front(got) ELSE got)
            closes == Whole(b) \/ ended
        IN  /\ outbox' = [outbox EXCEPT ![Own(c)] = SubSeq(@, k + 1, Len(@))]
            /\ buf' = [buf EXCEPT ![c] = IF closes THEN <<>> ELSE b]
            /\ calls' = [calls EXCEPT ![c] = @ \o Replied(c, b, closes)]
            /\ exitFlag' = [exitFlag EXCEPT ![c] = IF closes THEN 1 ELSE @]
            /\ state' = [state EXCEPT ![c] = IF closes THEN "closed" ELSE @]
            /\ inbox' = IF closes THEN [inbox EXCEPT ![Own(c)] = Append(@, Fin)] ELSE inbox
  BY <1>3 DEF Read
<1>. DEFINE got    == SubSeq(o, 1, k)
            ended  == Last(got) = Fin
            piece  == IF ended THEN Front(got) ELSE got
            b      == buf[c] \o piece
            closes == Whole(b) \/ ended
<1>6. UNCHANGED <<pc, req, url, server, table, accepted>>
  BY DEF Read
<1>7. /\ o \in Seq(Out) /\ Len(o) \in Nat /\ k \in Nat /\ k >= 1 /\ k <= Len(o)
      /\ got \in Seq(Out) /\ Len(got) = k /\ \A i \in 1 .. k : got[i] = o[i]
  <2>1. o \in Seq(Out) /\ Len(o) \in Nat
    BY <1>1, <1>3
  <2>2. \A i \in 1 .. k : o[i] \in Out
    BY <2>1
  <2>. QED
    BY <2>1, <2>2, SubSeqProperties
<1>8. /\ ended <=> o[k] = Fin
      /\ piece \in Seq(Out) /\ Len(piece) = IF ended THEN k - 1 ELSE k
      /\ \A i \in 1 .. Len(piece) : piece[i] = o[i]
  <2>1. Last(got) = o[k]
    BY <1>7 DEF Last
  <2>2. /\ Front(got) \in Seq(Out) /\ Len(Front(got)) = k - 1
        /\ \A i \in 1 .. k - 1 : Front(got)[i] = got[i]
    <3>. HIDE DEF got
    <3>1. \A i \in 1 .. k - 1 : got[i] \in Out
      BY <1>7
    <3>2. /\ SubSeq(got, 1, k - 1) \in Seq(Out) /\ Len(SubSeq(got, 1, k - 1)) = k - 1
          /\ \A i \in 1 .. k - 1 : SubSeq(got, 1, k - 1)[i] = got[i]
      BY <1>7, <3>1, SubSeqProperties
    <3>. QED
      BY <1>7, <3>2 DEF Front
  <2>. HIDE DEF got
  <2>3. CASE ended
    <3>1. piece = Front(got)
      BY <2>3
    <3>. QED
      BY <1>7, <2>1, <2>2, <2>3, <3>1
  <2>4. CASE ~ended
    <3>1. piece = got
      BY <2>4
    <3>. QED
      BY <1>7, <2>1, <2>4, <3>1
  <2>. QED
    BY <2>3, <2>4
<1>9. Whole(b) => b # <<>> /\ Replied(c, b, closes) = <<[to |-> 1, url |-> url[c], head |-> Head(b)]>>
  <2>1. b \in Seq(Out) /\ closes \in BOOLEAN
    BY <1>1, <1>8, ConcatProperties DEF Whole
  <2>. HIDE DEF b, closes
  <2>2. ~Whole(<<>>)
    BY DEF Whole
  <2>3. Whole(b) => Replied(c, b, closes) = <<[to |-> req[c], url |-> url[c], head |-> Head(b)]>>
    BY <2>1, RepliedWhole
  <2>. QED
    BY <1>3, <2>2, <2>3
<1>10. b = <<>> \/ ~closes => Replied(c, b, closes) = <<>>
  <2>1. Whole(b) => closes
    OBVIOUS
  <2>2. ~Whole(<<>>) /\ ~Begun(<<>>)
    BY DEF Whole, Begun
  <2>. HIDE DEF b, closes
  <2>. QED
    BY <2>1, <2>2, RepliedNothing
<1>11. /\ outbox'[Own(c)] = SubSeq(o, k + 1, Len(o))
       /\ buf'[c] = IF closes THEN <<>> ELSE b
       /\ calls'[c] = <<>> \o Replied(c, b, closes)
       /\ exitFlag'[c] = IF closes THEN 1 ELSE exitFlag[c]
       /\ state'[c] = IF closes THEN "closed" ELSE state[c]
       /\ ~closes => inbox' = inbox
  BY <1>1, <1>3, <1>4, <1>5 DEF ClientInv
<1>12. ASSUME Sent(c), k = 1
       PROVE  b = <<FirstAnswer(c)>> /\ ~closes /\ HeadTaken(c)'
  <2>0. o[1] = FirstAnswer(c) /\ FirstAnswer(c) # Fin /\ buf[c] = <<>>
    BY <1>12 DEF Sent, FirstAnswer, Fin
  <2>1. ~ended
    <3>. HIDE DEF o, ended
    <3>. QED
      BY <1>8, <1>12, <2>0
  <2>2. piece \in Seq(Out) /\ Len(piece) = 1 /\ piece[1] = FirstAnswer(c)
    <3>. HIDE DEF o, ended, piece
    <3>. QED
      BY <1>8, <1>12, <2>0, <2>1
  <2>3. b = <<FirstAnswer(c)>>
    <3>. HIDE DEF piece
    <3>1. <<>> \o piece = piece
      BY <2>2, ConcatEmptySeq
    <3>2. piece = <<FirstAnswer(c)>>
      BY <2>2
    <3>. QED
      BY <2>0, <3>1, <3>2
  <2>4. ~closes
    <3>. HIDE DEF b, ended
    <3>. QED
      BY <2>1, <2>3 DEF Whole
  <2>5. Len(SubSeq(o, k + 1, Len(o))) >= 1 /\ SubSeq(o, k + 1, Len(o))[1] = o[2]
    <3>1. \A i \in k + 1 .. Len(o) : o[i] \in Out
      BY <1>7
    <3>. QED
      BY <1>7, <1>12, <3>1, SubSeqProperties DEF Sent
  <2>6. HeadTaken(c)'
    <3>. HIDE DEF b, closes
    <3>. QED
      BY <1>6, <1>11, <1>12, <2>3, <2>4, <2>5 DEF Sent, HeadTaken, FirstAnswer, Answerer, Own
  <2>. QED
    BY <2>3, <2>4, <2>6
<1>13. ASSUME (Sent(c) /\ k # 1) \/ HeadTaken(c)
       PROVE  Whole(b) /\ Head(b) = FirstAnswer(c)
  <2>. HIDE DEF piece, ended
  <2>1. CASE Sent(c) /\ k # 1
    <3>1. ended => k # 2
      BY <1>8, <2>1 DEF Sent, Fin
    <3>2. Len(piece) >= 2 /\ Len(piece) \in Nat
      BY <1>7, <1>8, <2>1, <3>1
    <3>3. b = piece
      BY <1>8, <2>1, ConcatEmptySeq DEF Sent
    <3>4. piece[1] = FirstAnswer(c) /\ piece[2].kind = "rest"
      BY <1>8, <2>1, <3>2 DEF Sent
    <3>. QED
      BY <1>8, <3>2, <3>3, <3>4 DEF Whole
  <2>2. CASE HeadTaken(c)
    <3>1. ended => k # 1
      BY <1>8, <2>2 DEF HeadTaken, Fin
    <3>2. Len(piece) >= 1 /\ Len(piece) \in Nat
      BY <1>7, <1>8, <3>1
    <3>3. b = <<FirstAnswer(c)>> \o piece /\ FirstAnswer(c) \in Out
      <4>1. buf[c] = <<FirstAnswer(c)>> /\ buf[c] \in Seq(Out)
        BY <1>1, <2>2 DEF HeadTaken
      <4>2. buf[c][1] = FirstAnswer(c) /\ 1 \in 1 .. Len(buf[c])
        BY <4>1
      <4>3. buf[c][1] \in Out
        BY <4>1, <4>2
      <4>. QED
        BY <4>1, <4>2, <4>3
    <3>4. b \in Seq(Out) /\ Len(b) >= 2 /\ b[1] = FirstAnswer(c) /\ b[2] = piece[1]
      <4>. HIDE DEF b
      <4>. QED
        BY <1>8, <3>2, <3>3
    <3>5. piece[1].kind = "rest"
      BY <1>8, <2>2, <3>2 DEF HeadTaken
    <3>. QED
      BY <3>4, <3>5 DEF Whole
  <2>. QED
    BY <1>13, <2>1, <2>2
<1>14. ASSUME Ended(c) PROVE b = <<>> /\ ended
  <2>1. k = 1 /\ o[1] = Fin
    BY <1>7, <1>14 DEF Ended
  <2>2. ended /\ Len(piece) = 0 /\ piece \in Seq(Out)
    BY <1>8, <2>1
  <2>. HIDE DEF piece
  <2>. QED
    BY <1>14, <2>2 DEF Ended
<1>15. Sent(c) \/ HeadTaken(c) \/ Ended(c)
  BY <1>4, <1>7 DEF Open, Unread
<1>16. CASE Sent(c) /\ k = 1
  <2>. HIDE DEF b, closes
  <2>1. state'[c] = "open" /\ inbox' = inbox /\ exitFlag'[c] = 0 /\ pc'[c] = "loop"
    BY <1>2, <1>3, <1>6, <1>11, <1>12, <1>16
  <2>2. calls'[c] = <<>>
    BY <1>10, <1>11, <1>12, <1>16
  <2>3. inbox'[Own(c)] = <<>> /\ server' # "init"
    BY <1>4, <1>6, <1>16, <2>1 DEF Open, Sent, Unread
  <2>. QED
    BY <1>12, <1>16, <2>1, <2>2, <2>3 DEF Stream, Called, Open, Own
<1>17. CASE (Sent(c) /\ k # 1) \/ HeadTaken(c)
  <2>1. closes
    BY <1>13, <1>17
  <2>. HIDE DEF b, closes
  <2>2. calls'[c] = <<>> \o <<[to |-> 1, url |-> url[c], head |-> FirstAnswer(c)]>>
    BY <1>9, <1>11, <1>13, <1>17
  <2>3. calls'[c] = <<[to |-> 1, url |-> url[c], head |-> FirstAnswer(c)]>>
    BY <2>2, ConcatEmptySeq
  <2>4. server' # "init" /\ exitFlag'[c] = 1 /\ pc'[c] = "loop"
    BY <1>3, <1>4, <1>6, <1>11, <2>1 DEF Open
  <2>5. Len(calls'[c]) = 1 /\ calls'[c][1].head = FirstAnswer(c) /\ calls'[c][1].url = url[c]
    BY <2>3
  <2>6. Called(c)'
    BY <1>6, <2>4, <2>5 DEF Called, FirstAnswer, Answerer, Own
  <2>. QED
    BY <2>4, <2>6 DEF Stream
<1>18. CASE Ended(c)
  <2>1. closes
    BY <1>14, <1>18
  <2>. HIDE DEF b, closes
  <2>2. calls'[c] = <<>> \o <<>> /\ exitFlag'[c] = 1 /\ pc'[c] = "loop"
    BY <1>3, <1>6, <1>10, <1>11, <1>14, <1>18, <2>1
  <2>3. calls'[c] = <<>>
    BY <2>2
  <2>. QED
    BY <2>2, <2>3 DEF Stream, Called
<1>. QED
  BY <1>15, <1>16, <1>17, <1>18

LEMMA StreamsNext == Streams /\ [Next]_vars => Streams'
<1>. SUFFICES ASSUME Streams, [Next]_vars PROVE Streams'
  OBVIOUS
<1>1. Inv'
  BY InvNext DEF Streams
<1>2. state' \in [Client -> {"closed", "connecting", "open"}]
  <2>0. state \in [Client -> {"closed", "connecting", "open"}]
    BY DEF Streams
  <2>1. ASSUME NEW d \in Client, ClientStep(d) \/ \E u \in Url : SendReq(d, u)
        PROVE  state' \in [Client -> {"closed", "connecting", "open"}]
    BY <2>0, <2>1 DEF ClientStep, SendReq, Connected, Refused, Read, LeaveLoop, MgrFree
  <2>. QED
    BY <2>0, <2>1 DEF Next, PeerStep, PeerSends, clientVars, vars
<1>3. ASSUME NEW c \in Client PROVE Stream(c)'
  <2>1. CASE (ServerSetup \/ Poll \/ Exit) /\ UNCHANGED clientVars
    BY <2>1, SetupStreams, ExitStreams, PollStreams
  <2>2. CASE \E d \in Client : ClientStep(d) \/ \E u \in Url : SendReq(d, u)
    BY <2>2, OthersStreams, CallStreams, ReadStreams DEF ClientStep
  <2>3. CASE \E p \in Peer : PeerStep(p)
    BY <2>3, OthersStreams
  <2>4. CASE UNCHANGED vars
    BY <2>4, StreamSame DEF Streams, vars, serverVars, clientVars
  <2>. QED
    BY <2>1, <2>2, <2>3, <2>4 DEF Next
<1>. QED
  BY <1>1, <1>2, <1>3 DEF Streams

\* A callback runs at most once per call and with the first answer to the
\* request of that call: AnswersOwnRequest, for any number of clients, peers
\* and routes.
THEOREM OwnAnswer == Spec => []AnswersOwnRequest
<1>1. Streams => AnswersOwnRequest
  <2>. SUFFICES ASSUME Streams, NEW c \in Client, NEW i \in DOMAIN calls[c]
                PROVE  /\ calls[c][i].head.conn = <<c, calls[c][i].to>>
                       /\ calls[c][i].head.by = IF calls[c][i].url \in DOMAIN table
                                                THEN table[calls[c][i].url] ELSE Builtin
                       /\ \A j \in DOMAIN calls[c] : calls[c][j].to = calls[c][i].to => j = i
    BY DEF AnswersOwnRequest
  <2>1. calls[c] \in Seq([to : {1}, url : Url, head : Out])
    BY DEF Streams, Inv, ClientInv
  <2>2. DOMAIN calls[c] = 1 .. Len(calls[c]) /\ calls[c] # <<>>
    BY <2>1
  <2>3. /\ Len(calls[c]) = 1
        /\ calls[c][1].head = [kind |-> "head", conn |-> <<c, 1>>, by |-> Answerer(calls[c][1].url)]
    BY <2>2 DEF Streams, Stream, Called, Own
  <2>4. i = 1 /\ \A j \in DOMAIN calls[c] : j = 1
    BY <2>2, <2>3
  <2>5. calls[c][1].to = 1
    <3>0. 1 \in 1 .. Len(calls[c])
      BY <2>3
    <3>1. calls[c][1] \in [to : {1}, url : Url, head : Out]
      BY <2>1, <3>0, ElementOfSeq
    <3>. QED
      BY <3>1
  <2>. QED
    BY <2>3, <2>4, <2>5 DEF Answerer
<1>. QED
  BY <1>1, StreamsInit, StreamsNext, PTL DEF Spec

-----------------------------------------------------------------------------
(* The hash map: the invariant                                             *)

Holders == {"pushLoad", "pushTry", "link", "close", "last", "unlock"}
Owners  == {"popUnlock", "prepare", "endLock"} \cup Holders
Valued  == {"endLock"} \cup Holders
Linking == {"close", "last", "unlock"}

\* The node is nobody's yet, or of an insert that has not linked it.
Apart(n) == \/ n \in ToSet(pool)
            \/ \E t \in Thread : node[t] = n /\ at[t] \notin Linking

Nodes1 ==
    /\ \A i, j \in 1 .. Len(pool) : pool[i] = pool[j] => i = j
    /\ \A n \in ToSet(pool) : value[n] = Null
    /\ \A t, u \in Thread : t # u /\ node[t] \in Node => node[u] # node[t]
    /\ \A t \in Thread : node[t] \notin ToSet(pool)
    /\ \A n \in Node : Apart(n) => \A c \in Cell : next[c] # n

\* What the place of a thread tells of its locals
Locals(t) ==
    /\ at[t] # "idle" => arg[t] \in Key
    /\ node[t] # Null <=> at[t] \in Owners
    /\ at[t] \in Valued => value[node[t]] \in Key
    /\ at[t] \in Valued /\ node[t] \in Node => value[node[t]] = arg[t]
    /\ at[t] \in {"popTry", "pop", "popUnlock"} => cur[t] \in Node \cup {PoolEnd}
    /\ at[t] \in Holders \ {"pushLoad"} => cur[t] \in Cell /\ \A b \in Bucket : cur[t] # End(b)

\* The lock of end_ has one holder.
Locks ==
    /\ \A t \in Thread : at[t] \in Holders => End(Bkt(t)) \in locked
    /\ \A t, u \in Thread : t # u /\ {at[t], at[u]} \subseteq Holders => Bkt(t) # Bkt(u)
    /\ \A b, c \in Bucket : last[b] # End(c)

\* n has a key of bucket b and is linked.
Member(n, b) == value[n] # Null /\ Hash[value[n]] = b /\ ~Apart(n)

LastCell(b, p) == IF Len(p) = 0 THEN Begin(b) ELSE p[Len(p)]

\* The list of bucket b goes through the nodes p.
Lists(b, p) ==
    /\ next[Begin(b)] = IF Len(p) = 0 THEN End(b) ELSE p[1]
    /\ \A i \in 1 .. Len(p) - 1 : next[p[i]] = p[i + 1]
    /\ Len(p) # 0 => next[p[Len(p)]] = IF \E t \in Thread : at[t] = "close" /\ Bkt(t) = b THEN Null ELSE End(b)
    /\ next[End(b)] = Null
    /\ \A i, j \in 1 .. Len(p) : p[i] = p[j] => i = j
    /\ \A n \in Node : n \in ToSet(p) <=> Member(n, b)
    /\ last[b] = LastCell(b, p) \/ \E t \in Thread : at[t] \in {"close", "last"} /\ Bkt(t) = b

Finds(p, t) ==
    /\ at[t] = "find" => \/ cur[t] \in {Null, End(Bkt(t))}
                         \/ \E i \in 1 .. Len(p) : /\ cur[t] = p[i]
                                                   /\ \A j \in 1 .. i - 1 : value[p[j]] # arg[t]
    /\ at[t] \notin {"idle", "find"} => call[t] = "insert"
    /\ at[t] \in {"endLock", "pushLoad", "pushTry", "link"} => next[node[t]] = Null
    /\ at[t] \in {"pushTry", "link"} => cur[t] = last[Bkt(t)]
    /\ at[t] \in Linking => Len(p) # 0 /\ p[Len(p)] = node[t]

Fits(p) == /\ \A b \in Bucket : Lists(b, p[b])
           /\ \A t \in Thread : at[t] # "idle" => Finds(p[Bkt(t)], t)

HInv == MapTypeOK /\ Nodes1 /\ (\A t \in Thread : Locals(t)) /\ Locks
        /\ (~Exhausted => \E p \in [Bucket -> Seq(Node)] : Fits(p))

-----------------------------------------------------------------------------
LEMMA CellFacts ==
    /\ \A b \in Bucket : /\ Begin(b) \in Cell /\ End(b) \in Cell
                         /\ Begin(b) \notin Node \cup {PoolEnd} /\ End(b) \notin Node \cup {PoolEnd}
    /\ \A b, c \in Bucket : /\ Begin(b) = Begin(c) => b = c
                            /\ End(b) = End(c) => b = c
                            /\ Begin(b) # End(c)
    /\ Node \subseteq Cell /\ PoolEnd \in Cell /\ PoolEnd \notin Node
    /\ Null \notin Cell /\ Null \notin Key
    /\ \A k \in Key : Hash[k] \in Bucket
<1>1. \A b \in Bucket : Begin(b) \in Dummies /\ End(b) \in Dummies
  BY DEF Dummies
<1>2. \A b, c : /\ Begin(b) = Begin(c) => b = c
                /\ End(b) = End(c) => b = c
                /\ Begin(b) # End(c)
  BY DEF Begin, End
<1>. QED
  BY <1>1, <1>2, HashAssumption, NodeAssumption, CellAssumption, NullAssumption DEF Cell

\* The locals of thread u
LocalsOf(u) == <<at[u], call[u], arg[u], node[u], cur[u]>>

StepOf(t) == Moves(t) \/ \E k \in Key, c \in {"find", "insert"} : Call(t, c, k)

LEMMA OthersStay ==
  ASSUME MapTypeOK, NEW t \in Thread, StepOf(t)
  PROVE  \A u \in Thread \ {t} : LocalsOf(u)' = LocalsOf(u)
<1>. SUFFICES ASSUME NEW u \in Thread \ {t} PROVE LocalsOf(u)' = LocalsOf(u)
  OBVIOUS
<1>. USE DEF MapTypeOK, LocalsOf, Step, Return, callOf
<1>1. CASE FindStep(t) \/ Found(t)
  BY <1>1 DEF FindStep, Found
<1>2. CASE NotFound(t)
  BY <1>2 DEF NotFound
<1>3. CASE PopLoad(t) \/ PopTry(t) \/ Pop(t) \/ PopUnlock(t)
  BY <1>3 DEF PopLoad, PopTry, TryLock, Pop, PopUnlock
<1>4. CASE Prepare(t) \/ EndLock(t) \/ PushLoad(t) \/ PushTry(t)
  BY <1>4 DEF Prepare, EndLock, PushLoad, PushTry, TryLock
<1>5. CASE Link(t) \/ CloseList(t) \/ SetLast(t) \/ PushUnlock(t)
  BY <1>5 DEF Link, CloseList, SetLast, PushUnlock
<1>6. ASSUME NEW k \in Key, NEW c \in {"find", "insert"}, Call(t, c, k) PROVE LocalsOf(u)' = LocalsOf(u)
  BY <1>6 DEF Call
<1>. QED
  BY <1>1, <1>2, <1>3, <1>4, <1>5, <1>6 DEF StepOf, Moves

-----------------------------------------------------------------------------
(* What a step of t leaves true of the rest *)

LEMMA ApartSame ==
  ASSUME NEW t \in Thread, \A u \in Thread \ {t} : LocalsOf(u)' = LocalsOf(u), pool' = pool,
         \A n \in Node : (node'[t] = n /\ at'[t] \notin Linking) <=> (node[t] = n /\ at[t] \notin Linking)
  PROVE  \A n \in Node : Apart(n)' <=> Apart(n)
<1>1. \A u \in Thread \ {t} : node'[u] = node[u] /\ at'[u] = at[u]
  BY DEF LocalsOf
<1>. QED
  BY <1>1 DEF Apart

LEMMA LocalsKept ==
  ASSUME MapTypeOK, NEW t \in Thread, \A u \in Thread : Locals(u),
         \A u \in Thread \ {t} : LocalsOf(u)' = LocalsOf(u),
         \A u \in Thread \ {t} : \/ value'[node[u]] = value[node[u]]
                                 \/ node[u] = PoolEnd /\ value'[PoolEnd] \in Key,
         Locals(t)'
  PROVE  \A u \in Thread : Locals(u)'
<1>1. ASSUME NEW u \in Thread \ {t} PROVE Locals(u)'
  <2>1. /\ at'[u] = at[u] /\ arg'[u] = arg[u] /\ node'[u] = node[u] /\ cur'[u] = cur[u]
        /\ Locals(u)
    BY DEF LocalsOf
  <2>2. PoolEnd \notin Node
    BY NodeAssumption
  <2>. QED
    BY <2>1, <2>2 DEF Locals
<1>. QED
  BY <1>1

\* A step that takes no thread in or out of PushBack
LEMMA LocksKept ==
  ASSUME Locks, NEW t \in Thread, \A u \in Thread \ {t} : LocalsOf(u)' = LocalsOf(u),
         at'[t] \in Holders => at[t] \in Holders /\ arg'[t] = arg[t],
         \A b : End(b) \in locked => End(b) \in locked',
         last' = last
  PROVE  Locks'
<1>1. \A u \in Thread : at'[u] \in Holders => at[u] \in Holders /\ Bkt(u)' = Bkt(u)
  BY DEF LocalsOf, Bkt
<1>. QED
  BY <1>1 DEF Locks

LEMMA ListsKept ==
  ASSUME NEW t \in Thread, \A u \in Thread \ {t} : LocalsOf(u)' = LocalsOf(u),
         NEW b \in Bucket, NEW p \in Seq(Node), Lists(b, p),
         \A n \in Node : Member(n, b)' <=> Member(n, b),
         \A c \in ToSet(p) \cup {Begin(b), End(b)} : next'[c] = next[c],
         last'[b] = last[b],
         at'[t] = "close" /\ Bkt(t)' = b <=> at[t] = "close" /\ Bkt(t) = b,
         at'[t] = "last" /\ Bkt(t)' = b <=> at[t] = "last" /\ Bkt(t) = b
  PROVE  Lists(b, p)'
<1>1. /\ \A i \in 1 .. Len(p) : p[i] \in ToSet(p) /\ next'[p[i]] = next[p[i]]
      /\ next'[Begin(b)] = next[Begin(b)] /\ next'[End(b)] = next[End(b)]
      /\ Len(p) \in Nat
  BY DEF ToSet
<1>2. \A u \in Thread : /\ at'[u] = "close" /\ Bkt(u)' = b <=> at[u] = "close" /\ Bkt(u) = b
                        /\ at'[u] = "last" /\ Bkt(u)' = b <=> at[u] = "last" /\ Bkt(u) = b
  BY DEF LocalsOf, Bkt
<1>3. \A n \in Node : (n \in ToSet(p) <=> Member(n, b))'
  BY DEF Lists
<1>4. (last[b] = LastCell(b, p) \/ \E u \in Thread : at[u] \in {"close", "last"} /\ Bkt(u) = b)'
  BY <1>2 DEF Lists, LastCell
<1>5. (Len(p) # 0 => next[p[Len(p)]] = IF \E u \in Thread : at[u] = "close" /\ Bkt(u) = b THEN Null ELSE End(b))'
  BY <1>1, <1>2 DEF Lists
<1>6. \A i \in 1 .. Len(p) - 1 : next'[p[i]] = p[i + 1]
  BY <1>1 DEF Lists
<1>. QED
  BY <1>1, <1>3, <1>4, <1>5, <1>6 DEF Lists

\* The list of u's bucket may have grown, if u is not in PushBack.
LEMMA FindsKept ==
  ASSUME NEW u \in Thread, LocalsOf(u)' = LocalsOf(u), NEW p \in Seq(Node), NEW q \in Seq(Node),
         Finds(p, u), Len(p) <= Len(q),
         \A i \in 1 .. Len(p) : q[i] = p[i] /\ value'[p[i]] = value[p[i]],
         at[u] \in Holders => q = p /\ last'[Bkt(u)] = last[Bkt(u)],
         at[u] \in Owners => next'[node[u]] = next[node[u]]
  PROVE  Finds(q, u)'
<1>1. /\ at'[u] = at[u] /\ arg'[u] = arg[u] /\ node'[u] = node[u] /\ cur'[u] = cur[u]
      /\ call'[u] = call[u] /\ Bkt(u)' = Bkt(u)
  BY DEF LocalsOf, Bkt
<1>2. Len(p) \in Nat /\ Len(q) \in Nat
  OBVIOUS
<1>3. ASSUME at[u] = "find", cur[u] \notin {Null, End(Bkt(u))}
      PROVE  \E i \in 1 .. Len(q) : cur[u] = q[i] /\ \A j \in 1 .. i - 1 : value'[q[j]] # arg[u]
  <2>1. PICK i \in 1 .. Len(p) : cur[u] = p[i] /\ \A j \in 1 .. i - 1 : value[p[j]] # arg[u]
    BY <1>3 DEF Finds
  <2>2. /\ i \in 1 .. Len(q) /\ q[i] = p[i]
        /\ \A j \in 1 .. i - 1 : j \in 1 .. Len(p) /\ q[j] = p[j] /\ value'[p[j]] = value[p[j]]
    BY <1>2
  <2>. QED
    BY <2>1, <2>2
<1>4. at[u] \in Linking => Len(q) # 0 /\ q[Len(q)] = node[u]
  BY DEF Finds, Linking, Holders
<1>5. at[u] \in {"endLock", "pushLoad", "pushTry", "link"} => next'[node[u]] = Null
  BY DEF Finds, Owners, Holders
<1>6. at[u] \in {"pushTry", "link"} => cur[u] = last'[Bkt(u)]
  BY DEF Finds, Holders
<1>7. at[u] \notin {"idle", "find"} => call[u] = "insert"
  BY DEF Finds
<1>. QED
  BY <1>1, <1>3, <1>4, <1>5, <1>6, <1>7 DEF Finds

LEMMA ExhaustedStays ==
  ASSUME MapTypeOK, NEW t \in Thread, Locals(t), StepOf(t), Exhausted
  PROVE  Exhausted'
<1>1. \A u \in Thread \ {t} : node'[u] = node[u]
  BY OthersStay DEF LocalsOf
<1>2. CASE Prepare(t)
  <2>1. /\ node' = node /\ arg[t] \in Key /\ value' = [value EXCEPT ![node[t]] = arg[t]]
    BY <1>2 DEF Prepare, Step, Locals
  <2>2. PoolEnd \in Cell /\ Null \notin Key
    BY CellFacts
  <2>3. value'[PoolEnd] = value[PoolEnd] \/ value'[PoolEnd] = arg[t]
    BY <2>1, <2>2 DEF MapTypeOK
  <2>. QED
    BY <2>1, <2>2, <2>3 DEF Exhausted
<1>3. CASE PushUnlock(t)
  <2>1. value' = value /\ value[node[t]] \in Key
    BY <1>3 DEF PushUnlock, Return, Step, Locals, lists, Valued, Holders
  <2>2. Null \notin Key
    BY CellFacts
  <2>. QED
    BY <1>1, <2>1, <2>2 DEF Exhausted
<1>4. CASE Found(t) \/ NotFound(t) \/ Pop(t)
  <2>1. value' = value /\ node[t] = Null
    BY <1>4 DEF Found, NotFound, Pop, Return, Step, Locals, lists, Owners, Holders
  <2>2. PoolEnd # Null
    BY CellFacts
  <2>. QED
    BY <1>1, <2>1, <2>2 DEF Exhausted
<1>5. CASE ~(Prepare(t) \/ PushUnlock(t) \/ Found(t) \/ NotFound(t) \/ Pop(t))
  <2>1. value' = value /\ node' = node
    BY <1>5 DEF StepOf, Moves, FindStep, PopLoad, PopTry, TryLock, PopUnlock, EndLock, PushLoad, PushTry,
                Link, CloseList, SetLast, Call, lists
  <2>. QED
    BY <2>1 DEF Exhausted
<1>. QED
  BY <1>2, <1>3, <1>4, <1>5

\* A step of t that writes to no node of a list but only, perhaps, to its own
LEMMA FitsKept ==
  ASSUME HInv, NEW t \in Thread, \A u \in Thread \ {t} : LocalsOf(u)' = LocalsOf(u),
         NEW p \in [Bucket -> Seq(Node)], Fits(p),
         \A n \in Node : Apart(n)' <=> Apart(n), last' = last,
         \/ UNCHANGED <<next, value>>
         \/ /\ node[t] \in Node /\ Apart(node[t])
            /\ \A c \in Cell \ {node[t]} : next'[c] = next[c]
            /\ \A n \in Node \ {node[t]} : value'[n] = value[n],
         at[t] \notin {"close", "last"}, at'[t] \notin {"close", "last"},
         at'[t] # "idle" => Finds(p[Bkt(t)], t)'
  PROVE  Fits(p)'
<1>1. /\ \A n \in Node : ~Apart(n) => value'[n] = value[n] /\ next'[n] = next[n]
      /\ \A b \in Bucket : next'[Begin(b)] = next[Begin(b)] /\ next'[End(b)] = next[End(b)]
  BY CellFacts
<1>2. \A b \in Bucket : \A n \in ToSet(p[b]) : n \in Node /\ ~Apart(n)
  <2>. SUFFICES ASSUME NEW b \in Bucket, NEW n \in ToSet(p[b]) PROVE n \in Node /\ ~Apart(n)
    OBVIOUS
  <2>1. n \in Node
    BY DEF ToSet
  <2>. QED
    BY <2>1 DEF Fits, Lists, Member
<1>3. ASSUME NEW b \in Bucket PROVE Lists(b, p[b])'
  <2>1. Lists(b, p[b]) /\ p[b] \in Seq(Node)
    BY DEF Fits
  <2>2. /\ at'[t] = "close" /\ Bkt(t)' = b <=> at[t] = "close" /\ Bkt(t) = b
        /\ at'[t] = "last" /\ Bkt(t)' = b <=> at[t] = "last" /\ Bkt(t) = b
    OBVIOUS
  <2>3. \A n \in Node : Member(n, b)' <=> Member(n, b)
    BY <1>1 DEF Member
  <2>4. \A c \in ToSet(p[b]) \cup {Begin(b), End(b)} : next'[c] = next[c]
    BY <1>1, <1>2
  <2>. QED
    BY <2>1, <2>2, <2>3, <2>4, ListsKept
<1>4. ASSUME NEW u \in Thread, at'[u] # "idle" PROVE Finds(p[Bkt(u)], u)'
  <2>1. CASE u = t
    BY <1>4, <2>1
  <2>2. CASE u # t
    <3>1. LocalsOf(u)' = LocalsOf(u) /\ Bkt(u)' = Bkt(u) /\ at'[u] = at[u]
      BY <2>2 DEF LocalsOf, Bkt
    <3>2. Finds(p[Bkt(u)], u) /\ Bkt(u) \in Bucket
      BY <1>4, <3>1, CellFacts DEF Fits, HInv, Locals, Bkt
    <3>3. PICK q \in Seq(Node) : q = p[Bkt(u)]
      BY <3>2
    <3>4. \A i \in 1 .. Len(q) : value'[q[i]] = value[q[i]]
      <4>1. \A i \in 1 .. Len(q) : q[i] \in ToSet(q)
        BY DEF ToSet
      <4>. QED
        BY <1>1, <1>2, <3>2, <3>3, <4>1
    <3>5. at[u] \in Owners => next'[node[u]] = next[node[u]]
      <4>1. at[u] \in Owners => node[u] \in Cell
        BY CellFacts DEF HInv, Locals, MapTypeOK
      <4>2. node[t] \in Node => node[u] # node[t]
        BY <2>2 DEF HInv, Nodes1
      <4>. QED
        BY <4>1, <4>2
    <3>6. Finds(q, u)'
      BY <3>1, <3>2, <3>3, <3>4, <3>5, FindsKept
    <3>. QED
      BY <3>1, <3>3, <3>6
  <2>. QED
    BY <2>1, <2>2
<1>. QED
  BY <1>3, <1>4 DEF Fits

\* A step that changes no list, and no owner of a node
LEMMA QuietKeeps ==
  ASSUME HInv, NEW t \in Thread, StepOf(t), UNCHANGED <<next, last, value, pool, node>>,
         MapTypeOK', Locals(t)', Locks', at[t] \notin Linking, at'[t] \notin Linking,
         \A p \in [Bucket -> Seq(Node)] :
            ~Exhausted /\ Fits(p) /\ at'[t] # "idle" => Finds(p[Bkt(t)], t)'
  PROVE  HInv'
<1>1. \A u \in Thread \ {t} : LocalsOf(u)' = LocalsOf(u)
  BY OthersStay DEF HInv
<1>2. \A n \in Node : Apart(n)' <=> Apart(n)
  BY <1>1, ApartSame
<1>3. Nodes1'
  BY <1>2 DEF HInv, Nodes1
<1>4. \A u \in Thread : Locals(u)'
  BY <1>1, LocalsKept DEF HInv
<1>5. ASSUME NEW p \in [Bucket -> Seq(Node)], Fits(p), ~Exhausted
      PROVE  Fits(p)'
  BY <1>1, <1>2, <1>5, FitsKept DEF Linking
<1>6. Exhausted => Exhausted'
  BY ExhaustedStays DEF HInv
<1>7. ~Exhausted' => \E p \in [Bucket -> Seq(Node)] : Fits(p)'
  BY <1>5, <1>6 DEF HInv
<1>. QED
  BY <1>3, <1>4, <1>7 DEF HInv

-----------------------------------------------------------------------------
(* The steps that change no list *)

LEMMA MapCallKeeps ==
  ASSUME HInv, NEW t \in Thread, NEW k \in Key, NEW c \in {"find", "insert"}, Call(t, c, k)
  PROVE  HInv'
<1>1. /\ at[t] = "idle" /\ at'[t] = "find" /\ arg'[t] = k /\ ~Exhausted
      /\ cur'[t] = next[Begin(Hash[k])]
      /\ UNCHANGED <<next, last, value, pool, node, locked>>
  BY DEF Call, Step, lists, HInv, MapTypeOK
<1>2. StepOf(t) /\ Hash[k] \in Bucket /\ Begin(Hash[k]) \in Cell
  BY CellFacts DEF StepOf
<1>3. MapTypeOK'
  <2>2. next[Begin(Hash[k])] \in Cell \cup {Null}
    BY <1>2 DEF HInv, MapTypeOK
  <2>3. at' \in [Thread -> Labels]
    BY DEF Call, Step, HInv, MapTypeOK, Labels
  <2>4. call' \in [Thread -> {"find", "insert"}] /\ arg' \in [Thread -> Key \cup {Null}]
    BY DEF Call, HInv, MapTypeOK
  <2>5. cur' \in [Thread -> Cell \cup {Null}]
    BY <2>2 DEF Call, HInv, MapTypeOK
  <2>. QED
    BY <1>1, <2>3, <2>4, <2>5 DEF HInv, MapTypeOK
<1>4. Locals(t)'
  BY <1>1 DEF HInv, Locals, Owners, Valued, Holders
<1>5. Locks'
  BY <1>1, <1>2, OthersStay, LocksKept DEF HInv, Holders
<1>6. ASSUME NEW p \in [Bucket -> Seq(Node)], Fits(p) PROVE Finds(p[Bkt(t)], t)'
  <2>1. Bkt(t)' = Hash[k]
    BY <1>1 DEF Bkt
  <2>2. PICK q \in Seq(Node) : q = p[Hash[k]]
    BY <1>2
  <2>3. Lists(Hash[k], q)
    BY <1>2, <1>6, <2>2 DEF Fits
  <2>4. cur'[t] = End(Hash[k]) \/ \E i \in 1 .. Len(q) : cur'[t] = q[i] /\ i = 1
    <3>1. CASE Len(q) = 0
      BY <1>1, <2>3, <3>1 DEF Lists
    <3>2. CASE Len(q) # 0
      <4>1. 1 \in 1 .. Len(q)
        BY <3>2
      <4>. QED
        BY <1>1, <2>3, <3>2, <4>1 DEF Lists
    <3>. QED
      BY <3>1, <3>2
  <2>5. Finds(q, t)'
    BY <1>1, <2>1, <2>4 DEF Finds, Linking
  <2>. QED
    BY <2>1, <2>2, <2>5
<1>. QED
  BY <1>1, <1>2, <1>3, <1>4, <1>5, <1>6, QuietKeeps DEF Linking

LEMMA FindStepKeeps ==
  ASSUME HInv, NEW t \in Thread, FindStep(t)
  PROVE  HInv'
<1>1. /\ at[t] = "find" /\ cur[t] # Null /\ value[cur[t]] # arg[t] /\ cur'[t] = next[cur[t]]
      /\ UNCHANGED <<next, last, value, pool, locked, at, node, call, arg>>
  BY DEF FindStep, Matches, lists, callOf, HInv, MapTypeOK
<1>2. StepOf(t) /\ cur[t] \in Cell
  BY <1>1 DEF StepOf, Moves, HInv, MapTypeOK
<1>3. MapTypeOK'
  BY <1>1, <1>2 DEF FindStep, HInv, MapTypeOK
<1>4. Locals(t)'
  BY <1>1 DEF HInv, Locals, Owners, Valued, Holders
<1>5. Locks'
  BY <1>1, <1>2, OthersStay, LocksKept DEF HInv
<1>6. ASSUME NEW p \in [Bucket -> Seq(Node)], Fits(p) PROVE Finds(p[Bkt(t)], t)'
  <2>1. Bkt(t)' = Bkt(t) /\ Bkt(t) \in Bucket
    BY <1>1, CellFacts DEF Bkt, HInv, Locals
  <2>2. PICK q \in Seq(Node) : q = p[Bkt(t)]
    BY <2>1
  <2>3. Lists(Bkt(t), q) /\ Finds(q, t)
    BY <1>1, <1>6, <2>1, <2>2 DEF Fits
  <2>4. \/ cur'[t] \in {Null, End(Bkt(t))}
        \/ \E i \in 1 .. Len(q) : cur'[t] = q[i] /\ \A j \in 1 .. i - 1 : value[q[j]] # arg[t]
    <3>1. CASE cur[t] = End(Bkt(t))
      BY <1>1, <2>3, <3>1 DEF Lists
    <3>2. CASE cur[t] # End(Bkt(t))
      <4>1. PICK i \in 1 .. Len(q) : cur[t] = q[i] /\ \A j \in 1 .. i - 1 : value[q[j]] # arg[t]
        BY <1>1, <2>3, <3>2 DEF Finds
      <4>2. CASE i = Len(q)
        BY <1>1, <2>3, <4>1, <4>2 DEF Lists
      <4>3. CASE i # Len(q)
        <5>1. i \in 1 .. Len(q) - 1 /\ i + 1 \in 1 .. Len(q) /\ \A j \in 1 .. i : j \in 1 .. i - 1 \/ j = i
          BY <4>3
        <5>2. cur'[t] = q[i + 1] /\ \A j \in 1 .. i : value[q[j]] # arg[t]
          BY <1>1, <2>3, <4>1, <5>1 DEF Lists
        <5>3. i + 1 - 1 = i
          OBVIOUS
        <5>. QED
          BY <5>1, <5>2, <5>3
      <4>. QED
        BY <4>2, <4>3
    <3>. QED
      BY <3>1, <3>2
  <2>5. Finds(q, t)'
    BY <1>1, <2>1, <2>4 DEF Finds, Linking
  <2>. QED
    BY <2>1, <2>2, <2>5
<1>. QED
  BY <1>1, <1>2, <1>3, <1>4, <1>5, <1>6, QuietKeeps DEF Linking

\* What a return leaves
LEMMA ReturnTypes ==
  ASSUME MapTypeOK, NEW t \in Thread, NEW from, Return(t, from)
  PROVE  /\ at' \in [Thread -> Labels] /\ call' \in [Thread -> {"find", "insert"}]
         /\ arg' \in [Thread -> Key \cup {Null}] /\ cur' \in [Thread -> Cell \cup {Null}]
         /\ node' \in [Thread -> Node \cup {PoolEnd, Null}]
         /\ at[t] = from /\ at'[t] = "idle" /\ node'[t] = Null
         /\ \A u \in Thread \ {t} : node'[u] = node[u]
<1>1. at' \in [Thread -> Labels] /\ at'[t] = "idle" /\ at[t] = from
  BY DEF MapTypeOK, Return, Step, Labels
<1>2. call' \in [Thread -> {"find", "insert"}] /\ arg' \in [Thread -> Key \cup {Null}]
  BY DEF MapTypeOK, Return
<1>3. cur' \in [Thread -> Cell \cup {Null}]
  BY DEF MapTypeOK, Return
<1>4. /\ node' \in [Thread -> Node \cup {PoolEnd, Null}] /\ node'[t] = Null
      /\ \A u \in Thread \ {t} : node'[u] = node[u]
  BY DEF MapTypeOK, Return
<1>. QED
  BY <1>1, <1>2, <1>3, <1>4

LEMMA FindReturns ==
  ASSUME HInv, NEW t \in Thread, StepOf(t), Return(t, "find"), UNCHANGED <<lists, pool, locked>>
  PROVE  HInv'
<1>1. UNCHANGED <<next, last, value, pool, locked>> /\ at[t] = "find" /\ at'[t] = "idle" /\ node'[t] = Null
  BY ReturnTypes DEF lists, HInv
<1>2. node' = node
  <2>1. node[t] = Null
    BY <1>1 DEF HInv, Locals, Owners, Holders
  <2>. QED
    BY <2>1 DEF Return, HInv, MapTypeOK
<1>3. MapTypeOK'
  BY <1>1, ReturnTypes DEF HInv, MapTypeOK
<1>4. Locals(t)'
  BY <1>1 DEF Locals, Owners, Valued, Holders
<1>5. Locks'
  BY <1>1, OthersStay, LocksKept DEF HInv, Holders
<1>. QED
  BY <1>1, <1>2, <1>3, <1>4, <1>5, QuietKeeps DEF Linking

LEMMA NotFoundKeeps ==
  ASSUME HInv, NEW t \in Thread, NotFound(t), call[t] # "find"
  PROVE  HInv'
<1>1. /\ at[t] = "find" /\ at'[t] = "popLoad" /\ cur[t] = Null
      /\ UNCHANGED <<next, last, value, pool, locked, node, cur, call, arg>>
  BY DEF NotFound, Step, lists, callOf, HInv, MapTypeOK
<1>2. StepOf(t)
  BY DEF StepOf, Moves
<1>3. MapTypeOK'
  <2>1. at' \in [Thread -> Labels]
    BY DEF NotFound, Step, HInv, MapTypeOK, Labels
  <2>. QED
    BY <1>1, <2>1 DEF HInv, MapTypeOK
<1>4. Locals(t)'
  BY <1>1 DEF HInv, Locals, Owners, Valued, Holders
<1>5. Locks'
  BY <1>1, <1>2, OthersStay, LocksKept DEF HInv, Holders
<1>6. ASSUME NEW p \in [Bucket -> Seq(Node)], Fits(p) PROVE Finds(p[Bkt(t)], t)'
  <2>1. Bkt(t)' = Bkt(t) /\ Bkt(t) \in Bucket
    BY <1>1, CellFacts DEF Bkt, HInv, Locals
  <2>2. PICK q \in Seq(Node) : q = p[Bkt(t)]
    BY <2>1
  <2>3. Finds(q, t)
    BY <1>1, <1>6, <2>1, <2>2 DEF Fits
  <2>4. call[t] = "insert"
    BY DEF HInv, MapTypeOK
  <2>5. Finds(q, t)'
    BY <1>1, <2>4 DEF Finds, Linking
  <2>. QED
    BY <2>1, <2>2, <2>5
<1>. QED
  BY <1>1, <1>2, <1>3, <1>4, <1>5, <1>6, QuietKeeps DEF Linking

\* Between Find and Link a thread moves on with its arguments and its node.
LEMMA MovesKeep ==
  ASSUME HInv, NEW t \in Thread, StepOf(t), UNCHANGED <<lists, pool, node, callOf>>,
         at[t] \notin {"idle", "find"} \cup Linking, at'[t] \notin {"idle", "find"} \cup Linking,
         at'[t] \in {"pushLoad", "pushTry", "link"} => at[t] \in {"endLock", "pushLoad", "pushTry", "link"},
         at'[t] = "endLock" => at[t] = "endLock",
         at'[t] \in {"pushTry", "link"} => \/ cur'[t] = last[Bkt(t)]
                                           \/ at[t] \in {"pushTry", "link"} /\ cur'[t] = cur[t],
         MapTypeOK', Locals(t)', Locks'
  PROVE  HInv'
<1>1. UNCHANGED <<next, last, value, pool, node, call, arg>>
  BY DEF lists, callOf
<1>2. ASSUME NEW p \in [Bucket -> Seq(Node)], Fits(p) PROVE Finds(p[Bkt(t)], t)'
  <2>1. Bkt(t)' = Bkt(t) /\ Bkt(t) \in Bucket
    BY <1>1, CellFacts DEF Bkt, HInv, Locals
  <2>2. PICK q \in Seq(Node) : q = p[Bkt(t)]
    BY <2>1
  <2>3. Finds(q, t)
    BY <1>2, <2>1, <2>2 DEF Fits
  <2>4. Finds(q, t)'
    BY <1>1, <2>1, <2>3 DEF Finds
  <2>. QED
    BY <2>1, <2>2, <2>4
<1>. QED
  BY <1>1, <1>2, QuietKeeps

LEMMA PopLoadKeeps ==
  ASSUME HInv, NEW t \in Thread, PopLoad(t)
  PROVE  HInv'
<1>1. /\ at[t] = "popLoad" /\ at'[t] = "popTry" /\ cur'[t] = FirstInPool
      /\ UNCHANGED <<next, last, value, pool, locked, node, call, arg>>
  BY DEF PopLoad, Step, lists, callOf, HInv, MapTypeOK
<1>2. StepOf(t) /\ UNCHANGED <<lists, pool, node, callOf>>
  BY DEF StepOf, Moves, PopLoad
<1>3. FirstInPool \in Node \cup {PoolEnd} /\ FirstInPool \in Cell
  <2>1. FirstInPool \in Node \cup {PoolEnd}
    BY DEF FirstInPool, HInv, MapTypeOK
  <2>. QED
    BY <2>1, CellFacts
<1>4. MapTypeOK'
  <2>1. at' \in [Thread -> Labels]
    BY DEF PopLoad, Step, HInv, MapTypeOK, Labels
  <2>2. cur' \in [Thread -> Cell \cup {Null}]
    BY <1>3 DEF PopLoad, HInv, MapTypeOK
  <2>. QED
    BY <1>1, <2>1, <2>2 DEF HInv, MapTypeOK
<1>5. Locals(t)'
  BY <1>1, <1>3 DEF HInv, Locals, Owners, Valued, Holders
<1>6. Locks'
  BY <1>1, <1>2, OthersStay, LocksKept DEF HInv, Holders
<1>. QED
  BY <1>1, <1>2, <1>4, <1>5, <1>6, MovesKeep DEF Linking

LEMMA TryLockTypes ==
  ASSUME HInv, NEW t \in Thread, NEW from, NEW won \in Labels, NEW again \in Labels,
         TryLock(t, from, won, again), cur[t] \in Cell
  PROVE  /\ MapTypeOK' /\ at[t] = from /\ at'[t] \in {won, again}
         /\ UNCHANGED <<next, last, value, pool, node, cur, call, arg>>
         /\ locked \subseteq locked'
<1>1. /\ at[t] = from /\ at'[t] \in {won, again} /\ at' \in [Thread -> Labels]
      /\ UNCHANGED <<next, last, value, pool, node, cur, call, arg>>
      /\ locked \subseteq locked'
  BY DEF TryLock, Step, lists, callOf, HInv, MapTypeOK
<1>2. locked' \subseteq Cell
  BY DEF TryLock, HInv, MapTypeOK
<1>. QED
  BY <1>1, <1>2 DEF HInv, MapTypeOK

LEMMA PopTryKeeps ==
  ASSUME HInv, NEW t \in Thread, PopTry(t)
  PROVE  HInv'
<1>1. at[t] = "popTry" /\ cur[t] \in Node \cup {PoolEnd} /\ cur[t] \in Cell
  BY CellFacts DEF PopTry, TryLock, Step, HInv, Locals
<1>2. /\ MapTypeOK' /\ at'[t] \in {"pop", "popLoad"} /\ locked \subseteq locked'
      /\ UNCHANGED <<next, last, value, pool, node, cur, call, arg>>
  BY <1>1, TryLockTypes DEF PopTry, Labels
<1>3. StepOf(t) /\ UNCHANGED <<lists, pool, node, callOf>>
  BY DEF StepOf, Moves, PopTry, TryLock
<1>4. Locals(t)'
  BY <1>1, <1>2 DEF HInv, Locals, Owners, Valued, Holders
<1>5. Locks'
  BY <1>2, <1>3, OthersStay, LocksKept DEF HInv, Holders
<1>. QED
  BY <1>1, <1>2, <1>3, <1>4, <1>5, MovesKeep DEF Linking

LEMMA PopUnlockKeeps ==
  ASSUME HInv, NEW t \in Thread, PopUnlock(t)
  PROVE  HInv'
<1>1. /\ at[t] = "popUnlock" /\ at'[t] = "prepare" /\ cur[t] \in Node \cup {PoolEnd}
      /\ locked' = locked \ {cur[t]}
      /\ UNCHANGED <<next, last, value, pool, node, call, arg>>
  BY DEF PopUnlock, Step, lists, callOf, HInv, MapTypeOK, Locals
<1>2. StepOf(t) /\ UNCHANGED <<lists, pool, node, callOf>>
  BY DEF StepOf, Moves, PopUnlock
<1>3. MapTypeOK'
  <2>1. at' \in [Thread -> Labels]
    BY DEF PopUnlock, Step, HInv, MapTypeOK, Labels
  <2>2. cur' \in [Thread -> Cell \cup {Null}] /\ locked' \subseteq Cell
    BY DEF PopUnlock, HInv, MapTypeOK
  <2>. QED
    BY <1>1, <2>1, <2>2 DEF HInv, MapTypeOK
<1>4. Locals(t)'
  BY <1>1 DEF HInv, Locals, Owners, Valued, Holders
<1>5. Locks'
  <2>1. \A u \in Thread : at'[u] \in Holders => at[u] \in Holders /\ Bkt(u)' = Bkt(u) /\ Bkt(u) \in Bucket
    BY <1>1, <1>2, OthersStay, CellFacts DEF LocalsOf, Bkt, HInv, Locals, Holders
  <2>2. \A b \in Bucket : End(b) # cur[t]
    BY <1>1, CellFacts
  <2>. QED
    BY <1>1, <2>1, <2>2 DEF HInv, Locks
<1>. QED
  BY <1>1, <1>2, <1>3, <1>4, <1>5, MovesKeep DEF Linking

LEMMA EndLockKeeps ==
  ASSUME HInv, NEW t \in Thread, EndLock(t)
  PROVE  HInv'
<1>1. /\ at[t] = "endLock" /\ at'[t] = "pushLoad" /\ End(Bkt(t)) \notin locked
      /\ locked' = locked \cup {End(Bkt(t))} /\ arg[t] \in Key
      /\ UNCHANGED <<next, last, value, pool, node, cur, call, arg>>
  BY DEF EndLock, EndFree, Step, lists, callOf, HInv, MapTypeOK, Locals
<1>2. StepOf(t) /\ UNCHANGED <<lists, pool, node, callOf>>
  BY DEF StepOf, Moves, EndLock
<1>3. MapTypeOK'
  <2>1. at' \in [Thread -> Labels]
    BY DEF EndLock, Step, HInv, MapTypeOK, Labels
  <2>2. End(Bkt(t)) \in Cell
    BY <1>1, CellFacts DEF Bkt
  <2>3. locked' \subseteq Cell
    BY <1>1, <2>2 DEF HInv, MapTypeOK
  <2>. QED
    BY <1>1, <2>1, <2>3 DEF HInv, MapTypeOK
<1>4. Locals(t)'
  BY <1>1 DEF HInv, Locals, Owners, Valued, Holders
<1>5. Locks'
  <2>1. \A u \in Thread \ {t} : at'[u] = at[u] /\ Bkt(u)' = Bkt(u)
    BY <1>2, OthersStay DEF HInv, LocalsOf, Bkt
  <2>2. \A u \in Thread \ {t} : at[u] \in Holders => Bkt(u) # Bkt(t)
    BY <1>1 DEF HInv, Locks
  <2>3. Bkt(t)' = Bkt(t)
    BY <1>1 DEF Bkt
  <2>4. \A u \in Thread : at'[u] \in Holders => End(Bkt(u)') \in locked'
    BY <1>1, <2>1, <2>3 DEF HInv, Locks
  <2>5. \A u, v \in Thread : u # v /\ {at'[u], at'[v]} \subseteq Holders => Bkt(u)' # Bkt(v)'
    BY <1>1, <2>1, <2>2, <2>3 DEF HInv, Locks
  <2>. QED
    BY <1>1, <2>4, <2>5 DEF HInv, Locks
<1>. QED
  BY <1>1, <1>2, <1>3, <1>4, <1>5, MovesKeep DEF Linking

LEMMA PushLoadKeeps ==
  ASSUME HInv, NEW t \in Thread, PushLoad(t)
  PROVE  HInv'
<1>1. /\ at[t] = "pushLoad" /\ at'[t] = "pushTry" /\ cur'[t] = last[Bkt(t)] /\ arg[t] \in Key
      /\ UNCHANGED <<next, last, value, pool, locked, node, call, arg>>
  BY DEF PushLoad, Step, lists, callOf, HInv, MapTypeOK, Locals
<1>2. StepOf(t) /\ UNCHANGED <<lists, pool, node, callOf>>
  BY DEF StepOf, Moves, PushLoad
<1>3. Bkt(t) \in Bucket /\ last[Bkt(t)] \in Cell /\ \A b \in Bucket : last[Bkt(t)] # End(b)
  BY <1>1, CellFacts DEF Bkt, HInv, MapTypeOK, Locks
<1>4. MapTypeOK'
  <2>1. at' \in [Thread -> Labels]
    BY DEF PushLoad, Step, HInv, MapTypeOK, Labels
  <2>2. cur' \in [Thread -> Cell \cup {Null}]
    BY <1>3 DEF PushLoad, HInv, MapTypeOK
  <2>. QED
    BY <1>1, <2>1, <2>2 DEF HInv, MapTypeOK
<1>5. Locals(t)'
  BY <1>1, <1>3 DEF HInv, Locals, Owners, Valued, Holders
<1>6. Locks'
  BY <1>1, <1>2, OthersStay, LocksKept DEF HInv, Holders
<1>. QED
  BY <1>1, <1>2, <1>4, <1>5, <1>6, MovesKeep DEF Linking

LEMMA PushTryKeeps ==
  ASSUME HInv, NEW t \in Thread, PushTry(t)
  PROVE  HInv'
<1>1. at[t] = "pushTry" /\ cur[t] \in Cell /\ arg[t] \in Key
  BY DEF PushTry, TryLock, Step, HInv, Locals, Holders
<1>2. /\ MapTypeOK' /\ at'[t] \in {"link", "pushLoad"} /\ locked \subseteq locked'
      /\ UNCHANGED <<next, last, value, pool, node, cur, call, arg>>
  BY <1>1, TryLockTypes DEF PushTry, Labels
<1>3. StepOf(t) /\ UNCHANGED <<lists, pool, node, callOf>>
  BY DEF StepOf, Moves, PushTry, TryLock
<1>4. Locals(t)'
  BY <1>1, <1>2 DEF HInv, Locals, Owners, Valued, Holders
<1>5. Locks'
  BY <1>1, <1>2, <1>3, OthersStay, LocksKept DEF HInv, Holders
<1>. QED
  BY <1>1, <1>2, <1>3, <1>4, <1>5, MovesKeep DEF Linking

-----------------------------------------------------------------------------
(* The steps that change a list, or who has a node *)

LEMMA PopKeeps ==
  ASSUME HInv, NEW t \in Thread, Pop(t)
  PROVE  HInv'
<1>1. /\ at[t] = "pop" /\ at'[t] = "popUnlock" /\ node'[t] = FirstInPool /\ node[t] = Null
      /\ pool' = IF pool = <<>> THEN pool ELSE Tail(pool)
      /\ UNCHANGED <<next, last, value, locked, cur, call, arg>>
  BY DEF Pop, Popped, Step, lists, callOf, HInv, MapTypeOK, Locals, Owners, Holders
<1>2. StepOf(t)
  BY DEF StepOf, Moves
<1>3. /\ \A u \in Thread \ {t} : LocalsOf(u)' = LocalsOf(u)
      /\ \A u \in Thread \ {t} : node'[u] = node[u] /\ at'[u] = at[u]
  BY <1>2, OthersStay DEF HInv, LocalsOf
<1>4. /\ pool' \in Seq(Node)
      /\ FirstInPool \in ToSet(pool) \/ FirstInPool = PoolEnd
      /\ ToSet(pool') \subseteq ToSet(pool) /\ FirstInPool \notin ToSet(pool')
      /\ ToSet(pool) \subseteq ToSet(pool') \cup {FirstInPool}
      /\ \A i, j \in 1 .. Len(pool') : pool'[i] = pool'[j] => i = j
      /\ ToSet(pool) \subseteq Node
  <2>1. pool \in Seq(Node) /\ \A i, j \in 1 .. Len(pool) : pool[i] = pool[j] => i = j
    BY DEF HInv, MapTypeOK, Nodes1
  <2>2. CASE pool = <<>>
    <3>1. ToSet(pool) = {} /\ pool' = pool /\ FirstInPool = PoolEnd
      BY <1>1, <2>2 DEF ToSet, FirstInPool
    <3>. QED
      BY <2>1, <3>1
  <2>3. CASE pool # <<>>
    <3>1. /\ pool' = Tail(pool) /\ FirstInPool = pool[1] /\ Len(pool) \in Nat \ {0}
          /\ pool' \in Seq(Node) /\ Len(pool') = Len(pool) - 1
          /\ \A i \in 1 .. Len(pool') : pool'[i] = pool[i + 1]
      BY <1>1, <2>1, <2>3 DEF FirstInPool
    <3>2. /\ \A i \in 1 .. Len(pool) : pool[i] \in ToSet(pool) /\ pool[i] \in Node
          /\ \A i \in 1 .. Len(pool') : pool'[i] \in ToSet(pool')
          /\ \A n \in ToSet(pool) : \E i \in 1 .. Len(pool) : pool[i] = n
          /\ \A n \in ToSet(pool') : \E i \in 1 .. Len(pool') : pool'[i] = n
      BY <2>1 DEF ToSet
    <3>3. ToSet(pool') \subseteq ToSet(pool) /\ FirstInPool \notin ToSet(pool')
      <4>1. \A i \in 1 .. Len(pool') : i + 1 \in 1 .. Len(pool) /\ i + 1 # 1 /\ 1 \in 1 .. Len(pool)
        BY <3>1
      <4>. QED
        BY <2>1, <3>1, <3>2, <4>1
    <3>4. ToSet(pool) \subseteq ToSet(pool') \cup {FirstInPool}
      <4>1. ASSUME NEW i \in 1 .. Len(pool), i # 1 PROVE pool[i] \in ToSet(pool')
        <5>1. i - 1 \in 1 .. Len(pool') /\ (i - 1) + 1 = i
          BY <3>1, <4>1
        <5>2. pool'[i - 1] = pool[i]
          BY <3>1, <5>1
        <5>. QED
          BY <3>2, <5>1, <5>2
      <4>. QED
        BY <3>1, <3>2, <4>1
    <3>5. ASSUME NEW i \in 1 .. Len(pool'), NEW j \in 1 .. Len(pool'), pool'[i] = pool'[j] PROVE i = j
      <4>1. i + 1 \in 1 .. Len(pool) /\ j + 1 \in 1 .. Len(pool) /\ pool[i + 1] = pool[j + 1]
        BY <3>1, <3>5
      <4>2. i + 1 = j + 1
        BY <2>1, <4>1
      <4>. QED
        BY <4>2
    <3>6. 1 \in 1 .. Len(pool)
      BY <3>1
    <3>. QED
      BY <3>1, <3>2, <3>3, <3>4, <3>5, <3>6
  <2>. QED
    BY <2>2, <2>3
<1>5. PoolEnd \notin Node /\ PoolEnd # Null /\ Null \notin Node /\ FirstInPool # Null
  BY <1>4, CellFacts
<1>6. \A n \in Node : Apart(n)' <=> Apart(n)
  <2>. SUFFICES ASSUME NEW n \in Node PROVE Apart(n)' <=> Apart(n)
    OBVIOUS
  <2>1. CASE n = FirstInPool
    BY <1>1, <1>4, <1>5, <2>1 DEF Apart, Linking
  <2>2. CASE n # FirstInPool
    BY <1>1, <1>3, <1>4, <1>5, <2>2 DEF Apart
  <2>. QED
    BY <2>1, <2>2
<1>7. MapTypeOK'
  <2>1. at' \in [Thread -> Labels]
    BY DEF Pop, Step, HInv, MapTypeOK, Labels
  <2>2. node' \in [Thread -> Node \cup {PoolEnd, Null}]
    BY <1>4 DEF Pop, Popped, HInv, MapTypeOK
  <2>. QED
    BY <1>1, <1>4, <2>1, <2>2 DEF HInv, MapTypeOK
<1>8. Nodes1'
  <2>1. \A n \in ToSet(pool') : value[n] = Null
    BY <1>4 DEF HInv, Nodes1
  <2>2. ASSUME NEW u \in Thread PROVE node'[u] \notin ToSet(pool')
    BY <1>1, <1>3, <1>4 DEF HInv, Nodes1
  <2>3. ASSUME NEW u \in Thread \ {t} PROVE node[u] # FirstInPool \/ FirstInPool = PoolEnd
    BY <1>4 DEF HInv, Nodes1
  <2>4. ASSUME NEW u \in Thread, NEW v \in Thread, u # v, node'[u] \in Node PROVE node'[v] # node'[u]
    BY <1>1, <1>3, <1>5, <2>3, <2>4 DEF HInv, Nodes1
  <2>5. \A n \in Node : Apart(n)' => \A c \in Cell : next'[c] # n
    BY <1>1, <1>6 DEF HInv, Nodes1
  <2>. QED
    BY <1>1, <1>4, <2>1, <2>2, <2>4, <2>5 DEF Nodes1
<1>9. Locals(t)'
  BY <1>1, <1>5 DEF HInv, Locals, Owners, Valued, Holders
<1>10. \A u \in Thread : Locals(u)'
  BY <1>1, <1>3, <1>9, LocalsKept DEF HInv
<1>11. Locks'
  BY <1>1, <1>3, LocksKept DEF HInv, Holders
<1>12. ASSUME NEW p \in [Bucket -> Seq(Node)], Fits(p) PROVE Fits(p)'
  <2>1. Bkt(t)' = Bkt(t) /\ Bkt(t) \in Bucket
    BY <1>1, CellFacts DEF Bkt, HInv, Locals
  <2>2. PICK q \in Seq(Node) : q = p[Bkt(t)]
    BY <2>1
  <2>3. Finds(q, t)
    BY <1>1, <1>12, <2>1, <2>2 DEF Fits
  <2>4. Finds(q, t)'
    BY <1>1, <2>3 DEF Finds, Linking
  <2>5. Finds(p[Bkt(t)], t)'
    BY <2>1, <2>2, <2>4
  <2>. QED
    BY <1>1, <1>3, <1>6, <1>12, <2>5, FitsKept
<1>13. Exhausted => Exhausted'
  BY <1>2, ExhaustedStays DEF HInv
<1>14. ~Exhausted' => \E p \in [Bucket -> Seq(Node)] : Fits(p)'
  BY <1>12, <1>13 DEF HInv
<1>. QED
  BY <1>7, <1>8, <1>10, <1>11, <1>14 DEF HInv

LEMMA PrepareKeeps ==
  ASSUME HInv, NEW t \in Thread, Prepare(t)
  PROVE  HInv'
<1>1. /\ at[t] = "prepare" /\ at'[t] = "endLock" /\ arg[t] \in Key /\ node[t] # Null
      /\ next' = [next EXCEPT ![node[t]] = Null] /\ value' = [value EXCEPT ![node[t]] = arg[t]]
      /\ UNCHANGED <<last, pool, locked, node, cur, call, arg>>
  BY DEF Prepare, Step, callOf, HInv, MapTypeOK, Locals, Owners
<1>2. StepOf(t)
  BY DEF StepOf, Moves
<1>3. \A u \in Thread \ {t} : LocalsOf(u)' = LocalsOf(u)
  BY <1>2, OthersStay DEF HInv
<1>4. node[t] \in Node \cup {PoolEnd} /\ node[t] \in Cell /\ Node \subseteq Cell /\ PoolEnd \in Cell
  BY <1>1, CellFacts DEF HInv, MapTypeOK
<1>5. /\ next'[node[t]] = Null /\ \A c \in Cell \ {node[t]} : next'[c] = next[c]
      /\ value'[node[t]] = arg[t] /\ \A c \in Cell \ {node[t]} : value'[c] = value[c]
      /\ next' \in [Cell -> Cell \cup {Null}] /\ value' \in [Cell -> Key \cup {Null}]
  BY <1>1, <1>4 DEF HInv, MapTypeOK
<1>6. MapTypeOK'
  <2>1. at' \in [Thread -> Labels]
    BY DEF Prepare, Step, HInv, MapTypeOK, Labels
  <2>. QED
    BY <1>1, <1>5, <2>1 DEF HInv, MapTypeOK
<1>7. \A n \in Node : Apart(n)' <=> Apart(n)
  BY <1>1, <1>3, ApartSame DEF Linking
<1>8. Nodes1'
  <2>1. Null \notin Node
    BY CellFacts
  <2>2. \A n \in Node : Apart(n)' => \A c \in Cell : next'[c] # n
    BY <1>5, <1>7, <2>1 DEF HInv, Nodes1
  <2>3. \A n \in ToSet(pool) : n \in Cell /\ n # node[t]
    <3>1. ToSet(pool) \subseteq Node
      BY DEF ToSet, HInv, MapTypeOK
    <3>. QED
      BY <1>4, <3>1 DEF HInv, Nodes1
  <2>4. \A n \in ToSet(pool) : value'[n] = Null
    BY <1>5, <2>3 DEF HInv, Nodes1
  <2>. QED
    BY <1>1, <2>2, <2>4 DEF HInv, Nodes1
<1>9. Locals(t)'
  BY <1>1, <1>5 DEF HInv, Locals, Owners, Valued, Holders
<1>10. \A u \in Thread : Locals(u)'
  <2>1. ASSUME NEW u \in Thread \ {t}
        PROVE  \/ value'[node[u]] = value[node[u]]
               \/ node[u] = PoolEnd /\ value'[PoolEnd] \in Key
    <3>1. CASE node[u] = node[t]
      <4>1. node[t] \notin Node
        BY <3>1 DEF HInv, Nodes1
      <4>. QED
        BY <1>1, <1>4, <1>5, <3>1, <4>1
    <3>2. CASE node[u] # node[t] /\ node[u] # Null
      BY <1>4, <1>5, <3>2 DEF HInv, MapTypeOK
    <3>3. CASE node[u] = Null
      <4>1. Null \notin Cell
        BY CellFacts
      <4>2. value'[Null] = value[Null]
        BY <1>1, <1>4, <4>1 DEF HInv, MapTypeOK
      <4>. QED
        BY <3>3, <4>2
    <3>. QED
      BY <3>1, <3>2, <3>3
  <2>. QED
    BY <1>3, <1>9, <2>1, LocalsKept DEF HInv
<1>11. Locks'
  BY <1>1, <1>3, LocksKept DEF HInv, Holders
<1>12. ASSUME ~Exhausted', NEW p \in [Bucket -> Seq(Node)], Fits(p) PROVE Fits(p)'
  <2>1. node[t] \in Node /\ Apart(node[t])
    BY <1>1, <1>4, <1>12 DEF Exhausted, Apart, Linking
  <2>2. Bkt(t)' = Bkt(t) /\ Bkt(t) \in Bucket
    BY <1>1, CellFacts DEF Bkt
  <2>3. PICK q \in Seq(Node) : q = p[Bkt(t)]
    BY <2>2
  <2>4. Finds(q, t)
    BY <1>1, <1>12, <2>2, <2>3 DEF Fits
  <2>5. Finds(q, t)'
    BY <1>1, <1>5, <2>4 DEF Finds, Linking
  <2>6. Finds(p[Bkt(t)], t)'
    BY <2>2, <2>3, <2>5
  <2>7. \A n \in Node \ {node[t]} : value'[n] = value[n]
    BY <1>4, <1>5
  <2>. QED
    BY <1>1, <1>3, <1>5, <1>7, <1>12, <2>1, <2>6, <2>7, FitsKept
<1>13. Exhausted => Exhausted'
  BY <1>2, ExhaustedStays DEF HInv
<1>14. ~Exhausted' => \E p \in [Bucket -> Seq(Node)] : Fits(p)'
  BY <1>12, <1>13 DEF HInv
<1>. QED
  BY <1>6, <1>8, <1>10, <1>11, <1>14 DEF HInv
LEMMA PushUnlockKeeps ==
  ASSUME HInv, NEW t \in Thread, PushUnlock(t)
  PROVE  HInv'
<1>1. /\ UNCHANGED <<next, last, value, pool>> /\ at[t] = "unlock" /\ at'[t] = "idle" /\ node'[t] = Null
      /\ \A u \in Thread \ {t} : node'[u] = node[u]
      /\ locked' = locked \ {cur[t], End(Bkt(t))}
  BY ReturnTypes DEF PushUnlock, Unlocked, lists, HInv
<1>2. StepOf(t)
  BY DEF StepOf, Moves
<1>3. \A u \in Thread \ {t} : LocalsOf(u)' = LocalsOf(u)
  BY <1>2, OthersStay DEF HInv
<1>4. Null \notin Node
  BY CellFacts
<1>5. MapTypeOK'
  <2>1. locked' \subseteq Cell
    BY <1>1 DEF HInv, MapTypeOK
  <2>. QED
    BY <1>1, <2>1, ReturnTypes DEF PushUnlock, HInv, MapTypeOK
<1>6. \A n \in Node : Apart(n)' <=> Apart(n)
  BY <1>1, <1>3, <1>4, ApartSame DEF Linking
<1>7. Nodes1'
  <2>1. Null \notin ToSet(pool)
    <3>1. ToSet(pool) \subseteq Node
      BY DEF ToSet, HInv, MapTypeOK
    <3>. QED
      BY <1>4, <3>1
  <2>2. \A u \in Thread : node'[u] \notin ToSet(pool')
    BY <1>1, <2>1 DEF HInv, Nodes1
  <2>3. \A u, v \in Thread : u # v /\ node'[u] \in Node => node'[v] # node'[u]
    BY <1>1, <1>4 DEF HInv, Nodes1
  <2>4. \A n \in Node : Apart(n)' => \A c \in Cell : next'[c] # n
    BY <1>1, <1>6 DEF HInv, Nodes1
  <2>. QED
    BY <1>1, <2>2, <2>3, <2>4 DEF HInv, Nodes1
<1>8. \A u \in Thread : Locals(u)'
  <2>1. Locals(t)'
    BY <1>1 DEF Locals, Owners, Valued, Holders
  <2>. QED
    BY <1>1, <1>3, <2>1, LocalsKept DEF HInv
<1>9. Locks'
  <2>1. \A u \in Thread : at'[u] \in Holders =>
           u # t /\ at[u] \in Holders /\ Bkt(u)' = Bkt(u) /\ Bkt(u) \in Bucket /\ Bkt(u) # Bkt(t)
    BY <1>1, <1>3, CellFacts DEF LocalsOf, Bkt, HInv, Locals, Locks, Holders
  <2>2. (\A b \in Bucket : cur[t] # End(b)) /\ Bkt(t) \in Bucket
    BY <1>1, CellFacts DEF HInv, Locals, Holders, Bkt
  <2>3. \A u \in Thread : at'[u] \in Holders => End(Bkt(u)') \in locked'
    <3>. SUFFICES ASSUME NEW u \in Thread, at'[u] \in Holders PROVE End(Bkt(u)') \in locked'
      OBVIOUS
    <3>1. End(Bkt(u)) \in locked
      BY <2>1 DEF HInv, Locks
    <3>2. End(Bkt(u)) # End(Bkt(t)) /\ End(Bkt(u)) # cur[t]
      BY <2>1, <2>2, CellFacts
    <3>. QED
      BY <1>1, <2>1, <3>1, <3>2
  <2>4. \A u, v \in Thread : u # v /\ {at'[u], at'[v]} \subseteq Holders => Bkt(u)' # Bkt(v)'
    BY <2>1 DEF HInv, Locks
  <2>. QED
    BY <1>1, <2>3, <2>4 DEF HInv, Locks
<1>10. ASSUME NEW p \in [Bucket -> Seq(Node)], Fits(p) PROVE Fits(p)'
  BY <1>1, <1>3, <1>6, <1>10, FitsKept
<1>11. Exhausted => Exhausted'
  BY <1>2, ExhaustedStays DEF HInv
<1>12. ~Exhausted' => \E p \in [Bucket -> Seq(Node)] : Fits(p)'
  BY <1>10, <1>11 DEF HInv
<1>. QED
  BY <1>5, <1>7, <1>8, <1>9, <1>12 DEF HInv

\* In the other buckets no list and no PushBack sees the step of a thread that
\* is linking its node into its own.
LEMMA OtherBuckets ==
  ASSUME HInv, NEW t \in Thread, NEW B \in Bucket, Bkt(t) = B, at[t] \in Holders, \A u \in Thread \ {t} : LocalsOf(u)' = LocalsOf(u),
         arg'[t] = arg[t], value' = value,
         NEW p \in [Bucket -> Seq(Node)], Fits(p), NEW q \in Seq(Node),
         NEW d \in Cell, \A c \in Cell \ {d} : next'[c] = next[c],
         \A b \in Bucket \ {B} : /\ d \notin ToSet(p[b]) \cup {Begin(b), End(b)}
                                      /\ last'[b] = last[b]
                                      /\ \A n \in Node : Member(n, b)' <=> Member(n, b),
         \A u \in Thread \ {t} : at[u] \in Owners => node[u] # d,
         Len(p[B]) <= Len(q), \A i \in 1 .. Len(p[B]) : q[i] = p[B][i],
         Lists(B, q)', Finds(q, t)'
  PROVE  Fits([p EXCEPT ![B] = q])'
<1> DEFINE r == [p EXCEPT ![B] = q]
<1>1. Bkt(t)' = B
  BY DEF Bkt
<1>2. r[B] = q /\ (\A b \in Bucket \ {B} : r[b] = p[b]) /\ r \in [Bucket -> Seq(Node)]
  OBVIOUS
<1>. HIDE DEF r
<1>3. ASSUME NEW b \in Bucket \ {B} PROVE Lists(b, p[b])'
  <2>1. Lists(b, p[b]) /\ p[b] \in Seq(Node)
    BY DEF Fits
  <2>2. \A c \in ToSet(p[b]) \cup {Begin(b), End(b)} : next'[c] = next[c]
    <3>1. ToSet(p[b]) \subseteq Cell
      BY <2>1, CellFacts DEF ToSet
    <3>2. Begin(b) \in Cell /\ End(b) \in Cell
      BY CellFacts
    <3>. QED
      BY <3>1, <3>2
  <2>. QED
    BY <1>1, <2>1, <2>2, ListsKept
<1>4. ASSUME NEW u \in Thread \ {t}, at'[u] # "idle" PROVE Finds(r[Bkt(u)], u)'
  <2>1. LocalsOf(u)' = LocalsOf(u) /\ Bkt(u)' = Bkt(u) /\ at[u] # "idle" /\ Bkt(u) \in Bucket
    BY <1>4, CellFacts DEF LocalsOf, Bkt, HInv, Locals
  <2>2. PICK s \in Seq(Node) : s = p[Bkt(u)]
    BY <2>1
  <2>3. PICK z \in Seq(Node) : z = r[Bkt(u)]
    BY <1>2, <2>1
  <2>4. Finds(s, u)
    BY <2>1, <2>2 DEF Fits
  <2>5. at[u] \in Holders => Bkt(u) # B
    BY DEF HInv, Locks
  <2>6. at[u] \in Owners => next'[node[u]] = next[node[u]]
    <3>1. at[u] \in Owners => node[u] \in Cell
      BY CellFacts DEF HInv, Locals, MapTypeOK
    <3>. QED
      BY <3>1
  <2>7. Len(s) <= Len(z) /\ \A i \in 1 .. Len(s) : z[i] = s[i]
    <3>1. Len(s) \in Nat
      OBVIOUS
    <3>2. CASE Bkt(u) = B
      BY <1>2, <2>2, <2>3, <3>2
    <3>3. CASE Bkt(u) # B
      <4>1. z = s
        BY <1>2, <2>1, <2>2, <2>3, <3>3
      <4>. QED
        BY <3>1, <4>1
    <3>. QED
      BY <3>2, <3>3
  <2>8. at[u] \in Holders => z = s /\ last'[Bkt(u)] = last[Bkt(u)]
    BY <1>2, <2>1, <2>2, <2>3, <2>5
  <2>9. Finds(z, u)'
    BY <2>1, <2>4, <2>6, <2>7, <2>8, FindsKept
  <2>10. r[Bkt(u)'] = z
    BY <2>1, <2>3
  <2>. QED
    BY <2>9, <2>10
<1>5. \A b \in Bucket : Lists(b, r[b])'
  BY <1>2, <1>3
<1>6. \A u \in Thread : at'[u] # "idle" => Finds(r[Bkt(u)], u)'
  <2>1. Finds(r[Bkt(t)], t)'
    BY <1>1, <1>2
  <2>. QED
    BY <1>4, <2>1
<1>. QED
  BY <1>5, <1>6 DEF Fits, r

\* The steps that link a node leave every thread what it has.
LEMMA LinkingFrame ==
  ASSUME HInv, NEW t \in Thread, StepOf(t), at[t] \in {"link", "close", "last"}, at'[t] \in Linking,
         UNCHANGED <<value, pool, locked, node, cur, callOf>>, at' \in [Thread -> Labels],
         next' \in [Cell -> Cell \cup {Null}], last' \in [Bucket -> Cell],
         \A b, c \in Bucket : last'[b] # End(c)
  PROVE  /\ MapTypeOK' /\ (\A u \in Thread : Locals(u)') /\ Locks'
         /\ \A u \in Thread \ {t} : LocalsOf(u)' = LocalsOf(u)
         /\ Exhausted => Exhausted'
         /\ Bkt(t) \in Bucket /\ Bkt(t)' = Bkt(t)
         /\ node[t] \in Node \cup {PoolEnd} /\ value[node[t]] \in Key /\ cur[t] \in Cell
         /\ \A b \in Bucket : cur[t] # End(b)
<1>1. \A u \in Thread \ {t} : LocalsOf(u)' = LocalsOf(u)
  BY OthersStay DEF HInv
<1>2. UNCHANGED <<value, pool, locked, node, cur, call, arg>>
  BY DEF callOf
<1>3. MapTypeOK'
  BY <1>2 DEF HInv, MapTypeOK
<1>4. at[t] \in Holders /\ at[t] \in Valued /\ at[t] \in Owners /\ at[t] # "pushLoad" /\ at[t] # "idle"
  BY DEF Holders, Valued, Owners
<1>5. Bkt(t) \in Bucket /\ Bkt(t)' = Bkt(t)
  BY <1>2, <1>4, CellFacts DEF HInv, Locals, Bkt
<1>6. /\ node[t] \in Node \cup {PoolEnd} /\ value[node[t]] \in Key /\ cur[t] \in Cell
      /\ \A b \in Bucket : cur[t] # End(b)
  BY <1>4 DEF HInv, Locals, MapTypeOK
<1>7. Locals(t)'
  BY <1>2, <1>4 DEF HInv, Locals, Owners, Valued, Holders, Linking
<1>8. \A u \in Thread : Locals(u)'
  BY <1>1, <1>2, <1>7, LocalsKept DEF HInv
<1>9. Locks'
  <2>1. \A u \in Thread : at'[u] \in Holders => at[u] \in Holders /\ Bkt(u)' = Bkt(u)
    BY <1>1, <1>4, <1>5 DEF LocalsOf, Bkt
  <2>. QED
    BY <1>2, <2>1 DEF HInv, Locks
<1>10. Exhausted => Exhausted'
  BY <1>2 DEF Exhausted
<1>. QED
  BY <1>1, <1>3, <1>5, <1>6, <1>8, <1>9, <1>10

\* The node a thread is linking is in no bucket but its own, and nobody else's.
LEMMA OwnNode ==
  ASSUME HInv, ~Exhausted, NEW t \in Thread, at[t] \in Holders,
         NEW p \in [Bucket -> Seq(Node)], Fits(p)
  PROVE  /\ node[t] \in Node /\ value[node[t]] = arg[t]
         /\ \A b \in Bucket \ {Bkt(t)} : /\ node[t] \notin ToSet(p[b]) \cup {Begin(b), End(b)}
                                         /\ ~Member(node[t], b)
         /\ \A u \in Thread \ {t} : node[u] # node[t]
<1>1. node[t] \in Node
  BY DEF Exhausted, HInv, MapTypeOK, Locals, Owners
<1>2. value[node[t]] = arg[t]
  BY <1>1 DEF HInv, Locals, Valued
<1>3. \A u \in Thread \ {t} : node[u] # node[t]
  BY <1>1 DEF HInv, Nodes1
<1>4. ASSUME NEW b \in Bucket \ {Bkt(t)}
      PROVE  node[t] \notin ToSet(p[b]) \cup {Begin(b), End(b)} /\ ~Member(node[t], b)
  <2>1. ~Member(node[t], b)
    BY <1>2 DEF Member, Bkt
  <2>2. node[t] \notin {Begin(b), End(b)}
    BY <1>1, CellFacts
  <2>3. Lists(b, p[b])
    BY DEF Fits
  <2>. QED
    BY <1>1, <2>1, <2>2, <2>3 DEF Lists
<1>. QED
  BY <1>1, <1>2, <1>3, <1>4

LEMMA SetLastKeeps ==
  ASSUME HInv, NEW t \in Thread, SetLast(t)
  PROVE  HInv'
<1>0. PICK B \in Bucket : Bkt(t) = B
  BY CellFacts DEF SetLast, Step, HInv, Locals, Bkt
<1>1. /\ at[t] = "last" /\ at'[t] = "unlock" /\ at' \in [Thread -> Labels]
      /\ last' = [last EXCEPT ![B] = node[t]] /\ next' = next
      /\ UNCHANGED <<value, pool, locked, node, cur, callOf>>
      /\ UNCHANGED <<value, pool, locked, node, cur, call, arg>>
  BY <1>0 DEF SetLast, NewLast, Step, callOf, HInv, MapTypeOK, Labels
<1>2. StepOf(t)
  BY DEF StepOf, Moves
<1>3. node[t] \in Node \cup {PoolEnd} 
  BY <1>1, CellFacts DEF HInv, MapTypeOK, Locals, Owners, Holders
<1>4. last' \in [Bucket -> Cell] /\ \A b, c \in Bucket : last'[b] # End(c)
  <2>1. node[t] \in Cell /\ \A c \in Bucket : node[t] # End(c)
    BY <1>3, CellFacts
  <2>. QED
    BY <1>1, <2>1 DEF HInv, MapTypeOK, Locks
<1>5. /\ MapTypeOK' /\ (\A u \in Thread : Locals(u)') /\ Locks'
      /\ \A u \in Thread \ {t} : LocalsOf(u)' = LocalsOf(u)
      /\ Exhausted => Exhausted'
      /\ Bkt(t)' = B
  <2>1. next' \in [Cell -> Cell \cup {Null}]
    BY <1>1 DEF HInv, MapTypeOK
  <2>. QED
    BY <1>0, <1>1, <1>2, <1>4, <2>1, LinkingFrame DEF Linking
<1>6. \A n \in Node : Apart(n)' <=> Apart(n)
  BY <1>1, <1>5, ApartSame DEF Linking
<1>7. Nodes1'
  BY <1>1, <1>6 DEF HInv, Nodes1
<1>8. ASSUME NEW p \in [Bucket -> Seq(Node)], Fits(p), ~Exhausted PROVE Fits(p)'
  <2>1. PICK q \in Seq(Node) : q = p[B]
    BY <1>3
  <2>2. Lists(B, q) /\ Finds(q, t)
    BY <1>1, <1>0, <1>8, <2>1 DEF Fits
  <2>3. /\ node[t] \in Node
        /\ \A b \in Bucket \ {B} : node[t] \notin ToSet(p[b]) \cup {Begin(b), End(b)}
        /\ \A u \in Thread \ {t} : node[u] # node[t]
    BY <1>0, <1>1, <1>8, OwnNode DEF Holders
  <2>4. \A b \in Bucket : \A n \in Node : Member(n, b)' <=> Member(n, b)
    BY <1>1, <1>6 DEF Member
  <2>5. \A b \in Bucket \ {B} : last'[b] = last[b]
    BY <1>1 DEF HInv, MapTypeOK
  <2>6. Finds(q, t)'
    BY <1>1, <2>2 DEF Finds, Linking
  <2>7. \A u \in Thread \ {t} : at'[u] = at[u] /\ Bkt(u)' = Bkt(u) /\ (at[u] \in Holders => Bkt(u) # B)
    BY <1>0, <1>1, <1>5 DEF LocalsOf, Bkt, HInv, Locks, Holders
  <2>8. (~\E u \in Thread : at[u] = "close" /\ Bkt(u) = B) /\ ~(\E u \in Thread : at[u] = "close" /\ Bkt(u) = B)'
    BY <1>0, <1>1, <1>5, <2>7 DEF Holders
  <2>9. last'[B] = LastCell(B, q)
    BY <1>1, <1>3, <2>2 DEF Finds, Linking, LastCell, HInv, MapTypeOK
  <2>10. Lists(B, q)'
    BY <1>1, <2>2, <2>4, <2>8, <2>9, <1>3 DEF Lists, LastCell
  <2>11. node[t] \in Cell /\ at[t] \in Holders
    BY <1>1, <2>3, CellFacts DEF Holders
  <2>12. Fits([p EXCEPT ![B] = q])'
    <3>1. Len(p[B]) <= Len(q) /\ \A i \in 1 .. Len(p[B]) : q[i] = p[B][i]
      BY <2>1
    <3>2. arg'[t] = arg[t] /\ value' = value /\ \A c \in Cell \ {node[t]} : next'[c] = next[c]
      BY <1>1
    <3>. QED
      BY <1>0, <1>5, <1>8, <2>3, <2>4, <2>5, <2>6, <2>10, <2>11, <3>1, <3>2, OtherBuckets
  <2>13. [p EXCEPT ![B] = q] = p
    BY <2>1
  <2>. QED
    BY <2>12, <2>13
<1>9. ~Exhausted' => \E p \in [Bucket -> Seq(Node)] : Fits(p)'
  BY <1>5, <1>8 DEF HInv
<1>. QED
  BY <1>5, <1>7, <1>9 DEF HInv

LEMMA CloseListKeeps ==
  ASSUME HInv, NEW t \in Thread, CloseList(t)
  PROVE  HInv'
<1>0. PICK B \in Bucket : Bkt(t) = B
  BY CellFacts DEF CloseList, Step, HInv, Locals, Bkt
<1>1. /\ at[t] = "close" /\ at'[t] = "last" /\ at' \in [Thread -> Labels]
      /\ next' = [next EXCEPT ![node[t]] = End(B)] /\ last' = last
      /\ UNCHANGED <<value, pool, locked, node, cur, callOf>>
      /\ UNCHANGED <<value, pool, locked, node, cur, call, arg>>
  BY <1>0 DEF CloseList, Step, callOf, HInv, MapTypeOK, Labels
<1>2. StepOf(t)
  BY DEF StepOf, Moves
<1>3. node[t] \in Node \cup {PoolEnd} /\ node[t] \in Cell
  BY <1>1, CellFacts DEF HInv, MapTypeOK, Locals, Owners, Holders
<1>4. /\ next' \in [Cell -> Cell \cup {Null}] /\ next'[node[t]] = End(B)
      /\ \A c \in Cell \ {node[t]} : next'[c] = next[c]
      /\ End(B) \notin Node
  BY <1>1, <1>3, CellFacts DEF HInv, MapTypeOK
<1>5. /\ MapTypeOK' /\ (\A u \in Thread : Locals(u)') /\ Locks'
      /\ \A u \in Thread \ {t} : LocalsOf(u)' = LocalsOf(u)
      /\ Exhausted => Exhausted'
      /\ Bkt(t)' = B
  <2>1. last' \in [Bucket -> Cell] /\ \A b, c \in Bucket : last'[b] # End(c)
    BY <1>1 DEF HInv, MapTypeOK, Locks
  <2>. QED
    BY <1>0, <1>1, <1>2, <1>4, <2>1, LinkingFrame DEF Linking
<1>6. \A n \in Node : Apart(n)' <=> Apart(n)
  BY <1>1, <1>5, ApartSame DEF Linking
<1>7. Nodes1'
  <2>1. \A n \in Node : Apart(n)' => \A c \in Cell : next'[c] # n
    BY <1>4, <1>6 DEF HInv, Nodes1
  <2>. QED
    BY <1>1, <2>1 DEF HInv, Nodes1
<1>8. ASSUME NEW p \in [Bucket -> Seq(Node)], Fits(p), ~Exhausted PROVE Fits(p)'
  <2>1. PICK q \in Seq(Node) : q = p[B]
    OBVIOUS
  <2>2. Lists(B, q) /\ Finds(q, t)
    BY <1>1, <1>0, <1>8, <2>1 DEF Fits
  <2>3. /\ node[t] \in Node
        /\ \A b \in Bucket \ {B} : node[t] \notin ToSet(p[b]) \cup {Begin(b), End(b)}
        /\ \A u \in Thread \ {t} : node[u] # node[t]
    BY <1>0, <1>1, <1>8, OwnNode DEF Holders
  <2>4. \A b \in Bucket : \A n \in Node : Member(n, b)' <=> Member(n, b)
    BY <1>1, <1>6 DEF Member
  <2>5. Finds(q, t)'
    BY <1>1, <2>2 DEF Finds, Linking
  <2>6. \A u \in Thread \ {t} : at'[u] = at[u] /\ Bkt(u)' = Bkt(u) /\ (at[u] \in Holders => Bkt(u) # B)
    BY <1>0, <1>1, <1>5 DEF LocalsOf, Bkt, HInv, Locks, Holders
  <2>7. ~(\E u \in Thread : at[u] = "close" /\ Bkt(u) = B)'
    BY <1>1, <1>5, <2>6 DEF Holders
  <2>8. Lists(B, q)'
    <3>1. /\ next'[Begin(B)] = next[Begin(B)] /\ next'[End(B)] = next[End(B)]
      BY <1>4, <2>3, CellFacts
    <3>2. Len(q) \in Nat /\ q[Len(q)] = node[t] /\ Len(q) # 0
      BY <1>1, <2>2 DEF Finds, Linking
    <3>3. \A i \in 1 .. Len(q) - 1 : next'[q[i]] = q[i + 1]
      <4>. SUFFICES ASSUME NEW i \in 1 .. Len(q) - 1 PROVE next'[q[i]] = q[i + 1]
        OBVIOUS
      <4>1. q[i] # node[t]
        BY <2>2, <3>2 DEF Lists
      <4>2. q[i] \in Cell
        BY <3>2, CellFacts
      <4>. QED
        BY <1>4, <2>2, <4>1, <4>2 DEF Lists
    <3>4. next'[q[Len(q)]] = End(B)
      BY <1>4, <3>2
    <3>5. (last[B] = LastCell(B, q) \/ \E u \in Thread : at[u] \in {"close", "last"} /\ Bkt(u) = B)'
      BY <1>1, <1>5
    <3>6. (\A n \in Node : n \in ToSet(q) <=> Member(n, B))'
      BY <2>2, <2>4 DEF Lists
    <3>7. \A i, j \in 1 .. Len(q) : q[i] = q[j] => i = j
      BY <2>2 DEF Lists
    <3>8. next'[Begin(B)] = q[1] /\ next'[End(B)] = Null
      BY <2>2, <3>1, <3>2 DEF Lists
    <3>. QED
      BY <2>7, <3>2, <3>3, <3>4, <3>5, <3>6, <3>7, <3>8 DEF Lists
  <2>9. at[t] \in Holders
    BY <1>1 DEF Holders
  <2>10. Fits([p EXCEPT ![B] = q])'
    <3>1. Len(p[B]) <= Len(q) /\ \A i \in 1 .. Len(p[B]) : q[i] = p[B][i]
      BY <2>1
    <3>2. arg'[t] = arg[t] /\ value' = value /\ \A b \in Bucket : last'[b] = last[b]
      BY <1>1
    <3>. QED
      BY <1>0, <1>3, <1>4, <1>5, <1>8, <2>3, <2>4, <2>5, <2>8, <2>9, <3>1, <3>2, OtherBuckets
  <2>11. [p EXCEPT ![B] = q] = p
    BY <2>1
  <2>. QED
    BY <2>10, <2>11
<1>9. ~Exhausted' => \E p \in [Bucket -> Seq(Node)] : Fits(p)'
  BY <1>5, <1>8 DEF HInv
<1>. QED
  BY <1>5, <1>7, <1>9 DEF HInv

\* The list grows by the node that is linked.
LEMMA LinkJoins ==
  ASSUME HInv, NEW t \in Thread, Link(t)
  PROVE  \A n \in Node : Apart(n)' <=> Apart(n) /\ n # node[t]
<1>1. /\ at[t] = "link" /\ at'[t] = "close" /\ pool' = pool /\ node' = node
      /\ at'[t] \in Linking /\ at[t] \notin Linking
  BY DEF Link, Step, HInv, MapTypeOK, Linking
<1>2. \A u \in Thread \ {t} : at'[u] = at[u]
  BY OthersStay DEF HInv, LocalsOf, StepOf, Moves
<1>3. \A n \in Node : n = node[t] => n \notin ToSet(pool) /\ \A u \in Thread \ {t} : node[u] # n
  BY DEF HInv, Nodes1
<1>. QED
  BY <1>1, <1>2, <1>3 DEF Apart

LEMMA LinkKeeps ==
  ASSUME HInv, NEW t \in Thread, Link(t)
  PROVE  HInv'
<1>0. PICK B \in Bucket : Bkt(t) = B
  BY CellFacts DEF Link, Step, HInv, Locals, Bkt
<1>1. /\ at[t] = "link" /\ at'[t] = "close" /\ at' \in [Thread -> Labels]
      /\ next' = [next EXCEPT ![cur[t]] = node[t]] /\ last' = last
      /\ UNCHANGED <<value, pool, locked, node, cur, callOf>>
      /\ UNCHANGED <<value, pool, locked, node, cur, call, arg>>
  BY DEF Link, Step, callOf, HInv, MapTypeOK, Labels
<1>2. StepOf(t)
  BY DEF StepOf, Moves
<1>3. node[t] \in Node \cup {PoolEnd} /\ node[t] \in Cell /\ cur[t] \in Cell
  BY <1>1, CellFacts DEF HInv, MapTypeOK, Locals, Owners, Holders
<1>4. /\ next' \in [Cell -> Cell \cup {Null}] /\ next'[cur[t]] = node[t]
      /\ \A c \in Cell \ {cur[t]} : next'[c] = next[c]
  BY <1>1, <1>3 DEF HInv, MapTypeOK
<1>5. /\ MapTypeOK' /\ (\A u \in Thread : Locals(u)') /\ Locks'
      /\ \A u \in Thread \ {t} : LocalsOf(u)' = LocalsOf(u)
      /\ Exhausted => Exhausted'
      /\ Bkt(t)' = B
  <2>1. last' \in [Bucket -> Cell] /\ \A b, c \in Bucket : last'[b] # End(c)
    BY <1>1 DEF HInv, MapTypeOK, Locks
  <2>. QED
    BY <1>0, <1>1, <1>2, <1>4, <2>1, LinkingFrame DEF Linking
<1>6. \A n \in Node : Apart(n)' <=> Apart(n) /\ n # node[t]
  BY LinkJoins
<1>7. Nodes1'
  <2>1. \A n \in Node : Apart(n)' => \A c \in Cell : next'[c] # n
    BY <1>4, <1>6 DEF HInv, Nodes1
  <2>. QED
    BY <1>1, <2>1 DEF HInv, Nodes1
<1>8. ASSUME NEW p \in [Bucket -> Seq(Node)], Fits(p), ~Exhausted
      PROVE  \E r \in [Bucket -> Seq(Node)] : Fits(r)'
  <2>1. PICK q \in Seq(Node) : q = p[B]
    OBVIOUS
  <2>2. Lists(B, q) /\ Finds(q, t) /\ Len(q) \in Nat
    BY <1>1, <1>0, <1>8, <2>1 DEF Fits
  <2>3. /\ node[t] \in Node /\ value[node[t]] = arg[t]
        /\ \A b \in Bucket \ {B} : ~Member(node[t], b)
        /\ \A u \in Thread \ {t} : node[u] # node[t]
    BY <1>0, <1>1, <1>8, OwnNode DEF Holders
  <2>4. PICK n0 \in Node : n0 = node[t]
    BY <2>3
  <2>5. PICK s \in Seq(Node) : s = Append(q, n0)
    <3>1. Append(q, n0) \in Seq(Node)
      OBVIOUS
    <3>. QED
      BY <3>1
  <2>6. Len(s) = Len(q) + 1 /\ s[Len(s)] = n0 /\ \A i \in 1 .. Len(q) : s[i] = q[i]
    BY <2>2, <2>5
  <2>7. Apart(n0) /\ ~Member(n0, B) /\ n0 \notin ToSet(q)
    <3>1. Apart(n0)
      BY <1>1, <2>4 DEF Apart, Linking
    <3>. QED
      BY <2>2, <3>1 DEF Member, Lists
  <2>8. cur[t] = LastCell(B, q)
    <3>1. cur[t] = last[B]
      BY <1>0, <1>1, <2>2 DEF Finds
    <3>2. ~\E u \in Thread : at[u] \in {"close", "last"} /\ Bkt(u) = B
      BY <1>0, <1>1 DEF HInv, Locks, Holders
    <3>. QED
      BY <2>2, <3>1, <3>2 DEF Lists
  <2>9. cur[t] = Begin(B) \/ (cur[t] \in ToSet(q) /\ cur[t] \in Node /\ Member(cur[t], B))
    <3>1. CASE Len(q) = 0
      BY <2>8, <3>1 DEF LastCell
    <3>2. CASE Len(q) # 0
      <4>1. Len(q) \in 1 .. Len(q) /\ cur[t] = q[Len(q)]
        BY <2>2, <2>8, <3>2 DEF LastCell
      <4>2. cur[t] \in ToSet(q) /\ cur[t] \in Node
        BY <4>1 DEF ToSet
      <4>. QED
        BY <2>2, <4>2 DEF Lists
    <3>. QED
      BY <3>1, <3>2
  <2>10. \A b \in Bucket \ {B} : cur[t] \notin ToSet(p[b]) \cup {Begin(b), End(b)}
    <3>. SUFFICES ASSUME NEW b \in Bucket \ {B} PROVE cur[t] \notin ToSet(p[b]) \cup {Begin(b), End(b)}
      OBVIOUS
    <3>1. ToSet(p[b]) \subseteq Node
      BY DEF ToSet
    <3>2. \A n \in Node : n \in ToSet(p[b]) => Member(n, b)
      BY <1>8 DEF Fits, Lists
    <3>3. \A n \in Node : Member(n, B) => ~Member(n, b)
      BY DEF Member
    <3>. QED
      BY <2>9, <3>1, <3>2, <3>3, CellFacts
  <2>11. \A n \in Node : \A b \in Bucket : Member(n, b)' <=> Member(n, b) \/ (n = n0 /\ b = B)
    <3>. SUFFICES ASSUME NEW n \in Node, NEW b \in Bucket
                  PROVE  Member(n, b)' <=> Member(n, b) \/ (n = n0 /\ b = B)
      OBVIOUS
    <3>1. Hash[value[n0]] = B /\ value[n0] # Null
      <4>1. arg[t] \in Key
        BY <1>1 DEF HInv, Locals
      <4>. QED
        BY <1>0, <2>3, <2>4, <4>1, CellFacts DEF Bkt
    <3>2. Apart(n)' <=> Apart(n) /\ n # n0
      BY <1>6, <2>4
    <3>. QED
      BY <1>1, <2>7, <3>1, <3>2 DEF Member
  <2>12. ASSUME NEW u \in Thread \ {t}, at[u] \in Owners PROVE node[u] # cur[t]
    <3>1. CASE cur[t] = Begin(B)
      BY <3>1, CellFacts DEF HInv, MapTypeOK
    <3>2. CASE cur[t] \in Node /\ Member(cur[t], B)
      <4>. SUFFICES ASSUME node[u] = cur[t] PROVE FALSE
        OBVIOUS
      <4>1. at[u] \in Linking
        BY <3>2 DEF Member, Apart
      <4>2. value[node[u]] = arg[u]
        BY <3>2, <4>1 DEF HInv, Locals, Linking, Valued, Holders
      <4>3. Bkt(u) = B
        BY <3>2, <4>2 DEF Member, Bkt
      <4>. QED
        BY <1>0, <1>1, <4>1, <4>3 DEF HInv, Locks, Linking, Holders
    <3>. QED
      BY <2>9, <3>1, <3>2
  <2>13. Lists(B, s)'
    <3>1. n0 # cur[t] /\ next[n0] = Null /\ next'[n0] = Null
      <4>1. n0 # cur[t]
        BY <2>7, <2>9, CellFacts
      <4>2. next[n0] = Null
        BY <1>1, <2>2, <2>4 DEF Finds
      <4>. QED
        BY <1>3, <1>4, <2>4, <4>1, <4>2
    <3>2. next'[Begin(B)] = s[1]
      <4>1. CASE Len(q) = 0
        BY <1>4, <2>4, <2>6, <2>8, <4>1 DEF LastCell
      <4>2. CASE Len(q) # 0
        <5>1. cur[t] # Begin(B)
          BY <2>2, <2>8, <4>2, CellFacts DEF LastCell
        <5>2. next'[Begin(B)] = next[Begin(B)] /\ s[1] = q[1]
          BY <1>4, <2>2, <2>6, <4>2, <5>1, CellFacts
        <5>. QED
          BY <2>2, <4>2, <5>2 DEF Lists
      <4>. QED
        BY <4>1, <4>2
    <3>3. \A i \in 1 .. Len(s) - 1 : next'[s[i]] = s[i + 1]
      <4>. SUFFICES ASSUME NEW i \in 1 .. Len(q) PROVE next'[q[i]] = s[i + 1]
        BY <2>2, <2>6
      <4>1. CASE i = Len(q)
        <5>1. cur[t] = q[i] /\ s[i + 1] = n0
          BY <2>6, <2>8, <4>1 DEF LastCell
        <5>. QED
          BY <1>4, <2>4, <5>1
      <4>2. CASE i # Len(q)
        <5>1. cur[t] = q[Len(q)] /\ Len(q) \in 1 .. Len(q) /\ i \in 1 .. Len(q) - 1
          BY <2>2, <2>8, <4>2 DEF LastCell
        <5>2. q[i] # cur[t] /\ q[i] \in Cell
          BY <2>2, <4>2, <5>1, CellFacts DEF Lists
        <5>3. next[q[i]] = q[i + 1]
          BY <2>2, <5>1 DEF Lists
        <5>4. i + 1 \in 1 .. Len(q)
          BY <2>2, <5>1
        <5>5. s[i + 1] = q[i + 1]
          BY <2>6, <5>4
        <5>. QED
          BY <1>4, <5>2, <5>3, <5>5
      <4>. QED
        BY <4>1, <4>2
    <3>4. next'[End(B)] = Null
      <4>1. End(B) # cur[t] /\ End(B) \in Cell
        BY <2>9, CellFacts
      <4>. QED
        BY <1>4, <2>2, <4>1 DEF Lists
    <3>5. \A i, j \in 1 .. Len(s) : s[i] = s[j] => i = j
      <4>1. \A i \in 1 .. Len(q) : q[i] # n0
        BY <2>7 DEF ToSet
      <4>2. \A i, j \in 1 .. Len(q) : q[i] = q[j] => i = j
        BY <2>2 DEF Lists
      <4>3. \A i \in 1 .. Len(s) : i \in 1 .. Len(q) \/ i = Len(s)
        BY <2>2, <2>6
      <4>. QED
        BY <2>6, <4>1, <4>2, <4>3
    <3>6. (\A n \in Node : n \in ToSet(s) <=> Member(n, B))'
      <4>1. \A n \in Node : n \in ToSet(s) <=> n \in ToSet(q) \/ n = n0
        <5>1. \A i \in 1 .. Len(s) : i \in 1 .. Len(q) \/ i = Len(s)
          BY <2>2, <2>6
        <5>2. \A i \in 1 .. Len(q) : i \in 1 .. Len(s)
          BY <2>2, <2>6
        <5>3. Len(s) \in 1 .. Len(s)
          BY <2>2, <2>6
        <5>. QED
          <6>1. /\ \A n : n \in ToSet(s) <=> \E i \in 1 .. Len(s) : s[i] = n
                /\ \A n : n \in ToSet(q) <=> \E i \in 1 .. Len(q) : q[i] = n
            BY DEF ToSet
          <6>. QED
            BY <2>6, <5>1, <5>2, <5>3, <6>1
      <4>. QED
        BY <2>2, <2>11, <4>1 DEF Lists
    <3>7. (\E u \in Thread : at[u] = "close" /\ Bkt(u) = B)'
      BY <1>1, <1>5
    <3>8. (last[B] = LastCell(B, s) \/ \E u \in Thread : at[u] \in {"close", "last"} /\ Bkt(u) = B)'
      BY <3>7
    <3>9. Len(s) # 0 /\ next'[s[Len(s)]] = Null
      BY <2>2, <2>6, <3>1
    <3>. QED
      BY <3>2, <3>3, <3>4, <3>5, <3>6, <3>7, <3>8, <3>9 DEF Lists
  <2>14. Finds(s, t)'
    <3>1. Len(s) # 0 /\ s[Len(s)] = node'[t] /\ call[t] = "insert"
      BY <1>1, <2>2, <2>4, <2>6 DEF Finds
    <3>. QED
      BY <1>1, <3>1 DEF Finds, Linking
  <2>15. Fits([p EXCEPT ![B] = s])'
    <3>1. Len(p[B]) <= Len(s) /\ \A i \in 1 .. Len(p[B]) : s[i] = p[B][i]
      BY <2>1, <2>2, <2>6
    <3>2. arg'[t] = arg[t] /\ value' = value /\ (\A b \in Bucket : last'[b] = last[b]) /\ at[t] \in Holders
      BY <1>1 DEF Holders
    <3>3. \A b \in Bucket \ {B} : \A n \in Node : Member(n, b)' <=> Member(n, b)
      BY <2>11
    <3>. QED
      BY <1>0, <1>3, <1>4, <1>5, <1>8, <2>10, <2>12, <2>13, <2>14, <3>1, <3>2, <3>3, OtherBuckets
  <2>16. [p EXCEPT ![B] = s] \in [Bucket -> Seq(Node)]
    OBVIOUS
  <2>. QED
    BY <2>15, <2>16
<1>9. ~Exhausted' => \E p \in [Bucket -> Seq(Node)] : Fits(p)'
  BY <1>5, <1>8 DEF HInv
<1>. QED
  BY <1>5, <1>7, <1>9 DEF HInv

-----------------------------------------------------------------------------
LEMMA OrderOf ==
  ASSUME NEW S, IsFiniteSet(S)
  PROVE  /\ SetToSeq(S) \in Seq(S)
         /\ \A i, j \in 1 .. Len(SetToSeq(S)) : SetToSeq(S)[i] = SetToSeq(S)[j] => i = j
<1>1. Cardinality(S) \in Nat /\ ExistsBijection(1 .. Cardinality(S), S)
  BY FS_CardinalityType
<1>2. PICK f \in [1 .. Cardinality(S) -> S] : IsInjective(f)
  BY <1>1 DEF ExistsBijection, Bijection, Injection, IsInjective
<1>3. SetToSeq(S) \in [1 .. Cardinality(S) -> S] /\ IsInjective(SetToSeq(S))
  BY <1>2 DEF SetToSeq
<1>4. \A s \in [1 .. Cardinality(S) -> S] : s \in Seq(S) /\ Len(s) = Cardinality(S)
  BY <1>1
<1>. QED
  BY <1>3, <1>4 DEF IsInjective

LEMMA HInvInit == MapInit => HInv
<1>. SUFFICES ASSUME MapInit PROVE HInv
  OBVIOUS
<1>1. pool \in Seq(Node) /\ \A i, j \in 1 .. Len(pool) : pool[i] = pool[j] => i = j
  BY NodeAssumption, OrderOf DEF MapInit
<1>2. /\ \A b \in Bucket : next[Begin(b)] = End(b)
      /\ \A c \in Cell : next[c] = Null \/ \E b \in Bucket : next[c] = End(b)
      /\ \A c \in Cell : (\A b \in Bucket : c # Begin(b)) => next[c] = Null
  <2>1. ASSUME NEW b \in Bucket PROVE next[Begin(b)] = End(b)
    <3>1. (CHOOSE a \in Bucket : Begin(b) = Begin(a)) = b
      BY CellFacts
    <3>. QED
      BY <3>1, CellFacts DEF MapInit
  <2>2. ASSUME NEW c \in Cell PROVE (\A b \in Bucket : c # Begin(b)) => next[c] = Null
    BY DEF MapInit
  <2>. QED
    BY <2>1, <2>2
<1>3. MapTypeOK
  <2>1. next \in [Cell -> Cell \cup {Null}]
    <3>1. \A c \in Cell : next[c] \in Cell \cup {Null}
      BY <1>2, CellFacts
    <3>2. next = [c \in Cell |-> next[c]]
      BY DEF MapInit
    <3>. QED
      BY <3>1, <3>2
  <2>2. last \in [Bucket -> Cell]
    BY CellFacts DEF MapInit
  <2>. QED
    BY <1>1, <2>1, <2>2 DEF MapInit, MapTypeOK, Labels
<1>4. \A t \in Thread : at[t] = "idle" /\ node[t] = Null
  BY DEF MapInit
<1>5. Nodes1
  <2>1. ToSet(pool) \subseteq Node /\ Null \notin Node /\ Node \subseteq Cell
    BY <1>1, CellFacts DEF ToSet
  <2>2. \A n \in ToSet(pool) : value[n] = Null
    BY <2>1 DEF MapInit
  <2>3. \A n \in Node : \A c \in Cell : next[c] # n
    BY <1>2, <2>1, CellFacts
  <2>. QED
    BY <1>1, <1>4, <2>1, <2>2, <2>3 DEF Nodes1
<1>6. (\A t \in Thread : Locals(t)) /\ Locks
  BY <1>4, CellFacts DEF Locals, Locks, Owners, Valued, Holders, MapInit
<1>7. Fits([b \in Bucket |-> <<>>])
  <2>1. ASSUME NEW b \in Bucket PROVE Lists(b, <<>>)
    <3>1. next[End(b)] = Null
      BY <1>2, CellFacts
    <3>2. \A n \in Node : ~Member(n, b)
      BY CellFacts DEF Member, MapInit
    <3>3. ToSet(<<>>) = {}
      BY DEF ToSet
    <3>. QED
      BY <1>2, <3>1, <3>2, <3>3 DEF Lists, LastCell, MapInit
  <2>. QED
    BY <1>4, <2>1 DEF Fits
<1>8. [b \in Bucket |-> <<>>] \in [Bucket -> Seq(Node)]
  OBVIOUS
<1>. QED
  BY <1>3, <1>5, <1>6, <1>7, <1>8 DEF HInv

LEMMA HInvNext == HInv /\ [MapNext]_mapVars => HInv'
<1>. SUFFICES ASSUME HInv, [MapNext]_mapVars PROVE HInv'
  OBVIOUS
<1>1. ASSUME NEW t \in Thread, Moves(t) PROVE HInv'
  <2>. StepOf(t)
    BY <1>1 DEF StepOf
  <2>1. CASE FindStep(t)
    BY <2>1, FindStepKeeps
  <2>2. CASE Found(t)
    BY <2>2, FindReturns DEF Found
  <2>3. CASE NotFound(t)
    <3>1. CASE call[t] = "find"
      BY <2>3, <3>1, FindReturns DEF NotFound
    <3>2. CASE call[t] # "find"
      BY <2>3, <3>2, NotFoundKeeps
    <3>. QED
      BY <3>1, <3>2
  <2>4. CASE PopLoad(t)
    BY <2>4, PopLoadKeeps
  <2>5. CASE PopTry(t)
    BY <2>5, PopTryKeeps
  <2>6. CASE Pop(t)
    BY <2>6, PopKeeps
  <2>7. CASE PopUnlock(t)
    BY <2>7, PopUnlockKeeps
  <2>8. CASE Prepare(t)
    BY <2>8, PrepareKeeps
  <2>9. CASE EndLock(t)
    BY <2>9, EndLockKeeps
  <2>10. CASE PushLoad(t) \/ PushTry(t)
    BY <2>10, PushLoadKeeps, PushTryKeeps
  <2>11. CASE Link(t)
    BY <2>11, LinkKeeps
  <2>12. CASE CloseList(t)
    BY <2>12, CloseListKeeps
  <2>13. CASE SetLast(t)
    BY <2>13, SetLastKeeps
  <2>14. CASE PushUnlock(t)
    BY <2>14, PushUnlockKeeps
  <2>. QED
    BY <1>1, <2>1, <2>2, <2>3, <2>4, <2>5, <2>6, <2>7, <2>8, <2>9, <2>10, <2>11, <2>12, <2>13, <2>14 DEF Moves
<1>2. ASSUME NEW t \in Thread, NEW k \in Key, NEW c \in {"find", "insert"}, Call(t, c, k) PROVE HInv'
  BY <1>2, MapCallKeeps
<1>3. CASE UNCHANGED mapVars
  <2>1. UNCHANGED <<next, last, value, pool, locked, at, call, arg, cur, node>>
    BY <1>3 DEF mapVars
  <2>2. \A n : Apart(n)' <=> Apart(n)
    BY <2>1 DEF Apart
  <2>3. MapTypeOK' /\ Nodes1'
    BY <2>1, <2>2 DEF HInv, MapTypeOK, Nodes1
  <2>4. (\A t \in Thread : Locals(t)') /\ Locks'
    BY <2>1 DEF HInv, Locals, Locks, Bkt
  <2>5. ASSUME NEW p, Fits(p) PROVE Fits(p)'
    <3>1. \A n, b : Member(n, b)' <=> Member(n, b)
      BY <2>1, <2>2 DEF Member
    <3>2. \A b \in Bucket : Lists(b, p[b])'
      BY <2>1, <2>5, <3>1 DEF Fits, Lists, LastCell, Bkt
    <3>3. \A t \in Thread : at'[t] # "idle" => Finds(p[Bkt(t)], t)'
      BY <2>1, <2>5 DEF Fits, Finds, Bkt
    <3>. QED
      BY <3>2, <3>3 DEF Fits
  <2>6. ~Exhausted' => ~Exhausted
    BY <2>1 DEF Exhausted
  <2>. QED
    BY <2>3, <2>4, <2>5, <2>6 DEF HInv
<1>. QED
  BY <1>1, <1>2, <1>3 DEF MapNext

LEMMA HInvHolds == MapSpec => []HInv
BY HInvInit, HInvNext, PTL DEF MapSpec

-----------------------------------------------------------------------------
(* What the chains of the buckets are *)

LEMMA CellFinite == IsFiniteSet(Cell)
<1>1. IsFiniteSet({Begin(b) : b \in Bucket}) /\ IsFiniteSet({End(b) : b \in Bucket})
  <2>1. [b \in Bucket |-> Begin(b)] \in Surjection(Bucket, {Begin(b) : b \in Bucket})
    BY DEF Surjection
  <2>2. [b \in Bucket |-> End(b)] \in Surjection(Bucket, {End(b) : b \in Bucket})
    BY DEF Surjection
  <2>. QED
    BY <2>1, <2>2, HashAssumption, FS_Surjection
<1>2. IsFiniteSet(Node \cup {PoolEnd})
  BY NodeAssumption, FS_AddElement
<1>. QED
  BY <1>1, <1>2, FS_Union DEF Cell, Dummies

LEMMA InBucketHas ==
  ASSUME MapTypeOK, NEW b \in Bucket, NEW n \in ToSet(InBucket(b))
  PROVE  n = Null \/ \E c \in Cell : next[c] = n
<1>. DEFINE cells == Chain(next, Begin(b), Null)
<1>1. Begin(b) \in Cell /\ next \in [Cell -> Cell \cup {Null}]
  BY CellFacts DEF MapTypeOK
<1>2. PICK m \in Nat : DOMAIN cells = 1 .. m
  BY <1>1, CellFinite, ChainIn
<1>3. \A i \in DOMAIN cells : cells[i] = Null \/ \E c \in Cell : next[c] = cells[i]
  BY <1>1, CellFinite, ChainIn
<1>4. \E i \in DOMAIN cells : n = cells[i]
  <2>1. InBucket(b) = cells \/ InBucket(b) = Front(cells)
    BY DEF InBucket
  <2>. HIDE DEF cells
  <2>2. CASE InBucket(b) = cells
    BY <2>2 DEF ToSet
  <2>3. CASE InBucket(b) = Front(cells)
    <3>1. Len(cells) = m
      BY <1>2
    <3>2. Front(cells) = [i \in 1 .. m - 1 |-> cells[i]]
      BY <1>2, <3>1 DEF Front
    <3>. QED
      BY <1>2, <2>3, <3>2 DEF ToSet
  <2>. QED
    BY <2>1, <2>2, <2>3
<1>. QED
  BY <1>3, <1>4

\* What is linked from begin_ is p, also while a PushBack has still to put
\* end_ behind its node.
LEMMA InBucketIs ==
  ASSUME HInv, ~Exhausted, NEW p \in [Bucket -> Seq(Node)], Fits(p), NEW b \in Bucket
  PROVE  InBucket(b) = p[b]
<1>1. PICK q \in Seq(Node) : q = p[b]
  OBVIOUS
<1>2. Lists(b, q) /\ Len(q) \in Nat
  BY <1>1 DEF Fits
<1>3. PICK S : S = Node \cup {End(b)}
  OBVIOUS
<1>4. S \subseteq Cell /\ Null \notin S /\ End(b) \notin Node
  BY <1>3, CellFacts
<1>5. IsFiniteSet(DOMAIN next) /\ DOMAIN next = Cell
  BY CellFinite DEF HInv, MapTypeOK
<1>6. ASSUME NEW s \in Seq(S), \A i, j \in 1 .. Len(s) : s[i] = s[j] => i = j
      PROVE  Len(s) <= Cardinality(DOMAIN next)
  <2>1. Len(s) \in Nat /\ \A i \in 1 .. Len(s) : s[i] \in Cell
    BY <1>4
  <2>2. s \in [1 .. Len(s) -> Cell]
    <3>1. s = [i \in 1 .. Len(s) |-> s[i]]
      OBVIOUS
    <3>. QED
      BY <2>1, <3>1
  <2>3. s \in Injection(1 .. Len(s), Cell)
    BY <1>6, <2>2 DEF Injection, IsInjective
  <2>4. Cardinality(1 .. Len(s)) <= Cardinality(Cell)
    BY <1>5, <2>3, FS_Injection
  <2>5. Cardinality(1 .. Len(s)) = Len(s)
    <3>1. \A n \in Nat : Cardinality(1 .. n) = n
      BY FS_Interval
    <3>. QED
      BY <2>1, <3>1
  <2>. QED
    BY <1>5, <2>4, <2>5
<1>7. \A i \in 1 .. Len(q) : q[i] \in Node /\ q[i] # End(b)
  BY <1>4
<1>8. CASE Len(q) # 0 /\ next[q[Len(q)]] = Null
  <2>1. q \in Seq(S)
    BY <1>3
  <2>2. Len(q) <= Cardinality(DOMAIN next)
    BY <1>2, <1>6, <2>1 DEF Lists
  <2>3. next[Begin(b)] = IF Len(q) = 0 THEN Null ELSE q[1]
    BY <1>2, <1>8 DEF Lists
  <2>4. \A i \in 1 .. Len(q) : next[q[i]] = IF i < Len(q) THEN q[i + 1] ELSE Null
    BY <1>2, <1>8 DEF Lists
  <2>5. Chain(next, Begin(b), Null) = q
    BY <1>4, <1>5, <2>1, <2>2, <2>3, <2>4, PathIsChain
  <2>6. q # <<>> /\ Last(q) # End(b)
    BY <1>2, <1>7, <1>8 DEF Last
  <2>. QED
    BY <1>1, <2>5, <2>6 DEF InBucket
<1>9. CASE ~(Len(q) # 0 /\ next[q[Len(q)]] = Null)
  <2>1. Len(q) # 0 => next[q[Len(q)]] = End(b)
    BY <1>2, <1>9 DEF Lists
  <2>2. PICK s \in Seq(S) : s = Append(q, End(b))
    <3>1. q \in Seq(S) /\ End(b) \in S
      BY <1>3
    <3>2. Append(q, End(b)) \in Seq(S)
      BY <3>1
    <3>. QED
      BY <3>2
  <2>3. Len(s) = Len(q) + 1 /\ s[Len(s)] = End(b) /\ \A i \in 1 .. Len(q) : s[i] = q[i]
    BY <1>2, <2>2
  <2>4. \A i \in 1 .. Len(s) : i \in 1 .. Len(q) \/ i = Len(s)
    BY <1>2, <2>3
  <2>5. \A i, j \in 1 .. Len(s) : s[i] = s[j] => i = j
    <3>1. \A i, j \in 1 .. Len(q) : q[i] = q[j] => i = j
      BY <1>2 DEF Lists
    <3>. QED
      BY <1>7, <2>3, <2>4, <3>1
  <2>6. next[Begin(b)] = IF Len(s) = 0 THEN Null ELSE s[1]
    BY <1>2, <2>3 DEF Lists
  <2>7. \A i \in 1 .. Len(s) : next[s[i]] = IF i < Len(s) THEN s[i + 1] ELSE Null
    <3>1. next[s[Len(s)]] = Null
      BY <1>2, <2>3 DEF Lists
    <3>2. ASSUME NEW i \in 1 .. Len(q) PROVE next[s[i]] = s[i + 1]
      <4>1. CASE i = Len(q)
        BY <1>2, <2>1, <2>3, <4>1
      <4>2. CASE i # Len(q)
        <5>1. i \in 1 .. Len(q) - 1 /\ i + 1 \in 1 .. Len(q)
          BY <1>2, <4>2
        <5>. QED
          BY <1>2, <2>3, <5>1 DEF Lists
      <4>. QED
        BY <4>1, <4>2
    <3>3. ASSUME NEW i \in 1 .. Len(s), i # Len(s) PROVE i \in 1 .. Len(q) /\ i < Len(s)
      BY <1>2, <2>3, <3>3
    <3>. QED
      BY <3>1, <3>2, <3>3
  <2>8. Chain(next, Begin(b), Null) = s
    BY <1>4, <1>5, <1>6, <2>5, <2>6, <2>7, PathIsChain
  <2>9. s # <<>> /\ Last(s) = End(b)
    BY <1>2, <2>3 DEF Last
  <2>10. Front(s) = q
    <3>1. Front(s) = [i \in 1 .. Len(q) |-> s[i]]
      BY <1>2, <2>3 DEF Front
    <3>2. q = [i \in 1 .. Len(q) |-> q[i]]
      OBVIOUS
    <3>. QED
      BY <2>3, <3>1, <3>2
  <2>. QED
    BY <1>1, <2>8, <2>9, <2>10 DEF InBucket
<1>. QED
  BY <1>8, <1>9

LEMMA UnlockedBucket ==
  ASSUME HInv, ~Exhausted, NEW p \in [Bucket -> Seq(Node)], Fits(p), NEW b \in Bucket, End(b) \notin locked
  PROVE  /\ last[b] = LastCell(b, p[b]) /\ next[last[b]] = End(b)
         /\ \A t \in Thread : at[t] \in Holders => Bkt(t) # b
<1>1. \A t \in Thread : at[t] \in Holders => Bkt(t) # b
  BY DEF HInv, Locks
<1>2. PICK q \in Seq(Node) : q = p[b]
  OBVIOUS
<1>3. Lists(b, q) /\ Len(q) \in Nat
  BY <1>2 DEF Fits
<1>4. last[b] = LastCell(b, q) /\ (Len(q) # 0 => next[q[Len(q)]] = End(b))
  BY <1>1, <1>3 DEF Lists, Holders
<1>5. next[last[b]] = End(b)
  BY <1>3, <1>4 DEF Lists, LastCell
<1>. QED
  BY <1>1, <1>2, <1>4, <1>5

LEMMA OneOwnerHolds ==
  ASSUME HInv
  PROVE  OneOwner
<1>. SUFFICES ASSUME NEW t \in Thread, node[t] \in Node
              PROVE  /\ node[t] \notin ToSet(pool)
                     /\ \A u \in Thread \ {t} : node[u] # node[t]
                     /\ at[t] \notin {"close", "last", "unlock"} =>
                          \A b \in Bucket : node[t] \notin ToSet(InBucket(b))
  BY DEF OneOwner
<1>1. node[t] \notin ToSet(pool) /\ \A u \in Thread \ {t} : node[u] # node[t]
  BY DEF HInv, Nodes1
<1>2. ASSUME at[t] \notin Linking, NEW b \in Bucket PROVE node[t] \notin ToSet(InBucket(b))
  <2>1. Apart(node[t])
    BY <1>2 DEF Apart
  <2>2. \A c \in Cell : next[c] # node[t]
    BY <2>1 DEF HInv, Nodes1
  <2>. QED
    BY <2>2, InBucketHas, CellFacts DEF HInv
<1>. QED
  BY <1>1, <1>2 DEF Linking

\* Every node has one owner, also after the pool has run empty; until then a
\* bucket on which no PushBack is at work holds exactly the nodes inserted into
\* it: the property of the runs, for every number of threads, keys, nodes and
\* buckets.
THEOREM BucketsStayIntact == MapSpec => []BucketsIntact
<1>1. HInv => BucketsIntact
  <2>. SUFFICES ASSUME HInv PROVE BucketsIntact
    OBVIOUS
  <2>1. MapTypeOK /\ OneOwner
    BY OneOwnerHolds DEF HInv
  <2>2. ASSUME ~Exhausted, NEW b \in Bucket, End(b) \notin locked
        PROVE  /\ ToSet(InBucket(b)) =
                    {c \in Node : /\ value[c] # Null /\ Hash[value[c]] = b
                                  /\ \A t \in Thread : node[t] # c}
               /\ last[b] = Last(<<Begin(b)>> \o InBucket(b))
               /\ next[last[b]] = End(b)
    <3>1. PICK p \in [Bucket -> Seq(Node)] : Fits(p)
      BY <2>2 DEF HInv
    <3>2. PICK q \in Seq(Node) : q = p[b]
      OBVIOUS
    <3>3. /\ InBucket(b) = q /\ last[b] = LastCell(b, q) /\ next[last[b]] = End(b)
          /\ \A t \in Thread : at[t] \in Holders => Bkt(t) # b
      BY <2>2, <3>1, <3>2, InBucketIs, UnlockedBucket
    <3>4. \A n \in Node : n \in ToSet(q) <=> Member(n, b)
      BY <3>1, <3>2 DEF Fits, Lists
    <3>5. ToSet(q) \subseteq Node
      BY DEF ToSet
    <3>6. ASSUME NEW n \in Node, value[n] # Null, Hash[value[n]] = b
          PROVE  ~Apart(n) <=> \A t \in Thread : node[t] # n
      <4>1. n \notin ToSet(pool)
        BY <3>6 DEF HInv, Nodes1
      <4>2. ASSUME NEW t \in Thread, node[t] = n PROVE at[t] \notin Linking
        <5>. SUFFICES ASSUME at[t] \in Linking PROVE FALSE
          OBVIOUS
        <5>1. value[n] = arg[t] /\ at[t] \in Holders
          BY <4>2 DEF HInv, Locals, Linking, Valued, Holders
        <5>. QED
          BY <3>3, <3>6, <5>1 DEF Bkt
      <4>. QED
        BY <4>1, <4>2 DEF Apart
    <3>7. last[b] = Last(<<Begin(b)>> \o q)
      <4>1. Len(q) \in Nat /\ Len(<<Begin(b)>> \o q) = Len(q) + 1
        OBVIOUS
      <4>2. CASE Len(q) = 0
        <5>1. (<<Begin(b)>> \o q)[1] = Begin(b)
          BY <4>1
        <5>. QED
          BY <3>3, <4>1, <4>2, <5>1 DEF Last, LastCell
      <4>3. CASE Len(q) # 0
        <5>1. (<<Begin(b)>> \o q)[Len(q) + 1] = q[Len(q)]
          BY <4>1, <4>3
        <5>. QED
          BY <3>3, <4>1, <4>3, <5>1 DEF Last, LastCell
      <4>. QED
        BY <4>2, <4>3
    <3>8. ToSet(q) = {c \in Node : /\ value[c] # Null /\ Hash[value[c]] = b
                                    /\ \A t \in Thread : node[t] # c}
      BY <3>4, <3>5, <3>6 DEF Member
    <3>. QED
      BY <3>3, <3>7, <3>8
  <2>. QED
    BY <2>1, <2>2 DEF BucketsIntact
<1>. QED
  BY <1>1, HInvHolds, PTL

-----------------------------------------------------------------------------
(* What the callers of the map see *)

\* The keys in place are those of the nodes that are linked.
LEMMA KeysAre ==
  ASSUME HInv, ~Exhausted
  PROVE  \A k \in Key : k \in Keys <=> \E n \in Node : value[n] = k /\ ~Apart(n)
<1>1. PICK p \in [Bucket -> Seq(Node)] : Fits(p)
  BY DEF HInv
<1>2. \A b \in Bucket : \A n \in Node : n \in ToSet(p[b]) <=> Member(n, b)
  BY <1>1 DEF Fits, Lists
<1>3. \A b \in Bucket : InBucket(b) = p[b] /\ ToSet(p[b]) \subseteq Node
  BY <1>1, InBucketIs DEF ToSet
<1>. SUFFICES ASSUME NEW k \in Key PROVE k \in Keys <=> \E n \in Node : value[n] = k /\ ~Apart(n)
  OBVIOUS
<1>4. ASSUME k \in Keys PROVE \E n \in Node : value[n] = k /\ ~Apart(n)
  <2>1. PICK b \in Bucket : \E n \in ToSet(InBucket(b)) : value[n] = k
    BY <1>4 DEF Keys
  <2>. QED
    BY <1>2, <1>3, <2>1 DEF Member
<1>5. ASSUME NEW n \in Node, value[n] = k, ~Apart(n) PROVE k \in Keys
  <2>1. Member(n, Hash[k]) /\ Hash[k] \in Bucket
    BY <1>5, CellFacts DEF Member
  <2>2. n \in ToSet(InBucket(Hash[k]))
    BY <1>2, <1>3, <2>1
  <2>. QED
    BY <1>5, <2>1, <2>2 DEF Keys
<1>. QED
  BY <1>4, <1>5

LEMMA KeysNext == (HInv /\ ~Exhausted => \A k \in Key : k \in Keys <=> \E n \in Node : value[n] = k /\ ~Apart(n))'
<1>1. HInv /\ ~Exhausted => \A k \in Key : k \in Keys <=> \E n \in Node : value[n] = k /\ ~Apart(n)
  BY KeysAre
<1>. QED
  BY <1>1, PTL

LEMMA KeysTyped == ASSUME HInv, ~Exhausted PROVE Keys \subseteq Key
<1>1. PICK p \in [Bucket -> Seq(Node)] : Fits(p)
  BY DEF HInv
<1>2. ASSUME NEW b \in Bucket, NEW n \in ToSet(InBucket(b)) PROVE value[n] \in Key
  <2>1. InBucket(b) = p[b] /\ ToSet(p[b]) \subseteq Node
    BY <1>1, InBucketIs DEF ToSet
  <2>2. Member(n, b)
    BY <1>1, <1>2, <2>1 DEF Fits, Lists
  <2>. QED
    BY <1>2, <2>1, <2>2, CellFacts DEF Member, HInv, MapTypeOK
<1>. QED
  BY <1>2 DEF Keys

LEMMA KeysTypedNext == (HInv /\ ~Exhausted => Keys \subseteq Key)'
<1>1. HInv /\ ~Exhausted => Keys \subseteq Key
  BY KeysTyped
<1>. QED
  BY <1>1, PTL

\* The only step that links a node or cuts one off is Link.
LEMMA ApartStays ==
  ASSUME HInv, NEW t \in Thread, StepOf(t), ~Link(t), ~Exhausted'
  PROVE  \A n \in Node : /\ Apart(n)' <=> Apart(n)
                         /\ ~Apart(n) => value'[n] = value[n]
<1>1. \A u \in Thread \ {t} : LocalsOf(u)' = LocalsOf(u)
  BY OthersStay DEF HInv
<1>2. CASE Pop(t)
  <2>1. /\ at[t] = "pop" /\ at'[t] = "popUnlock" /\ node'[t] = FirstInPool
        /\ pool' = (IF pool = <<>> THEN pool ELSE Tail(pool)) /\ value' = value
    BY <1>2 DEF Pop, Popped, Step, lists, HInv, MapTypeOK
  <2>2. pool # <<>> /\ node'[t] = Head(pool)
    BY <2>1 DEF FirstInPool, Exhausted
  <2>3. pool \in Seq(Node) /\ Len(pool) \in Nat /\ Len(pool) # 0
    BY <2>2 DEF HInv, MapTypeOK
  <2>4. \A n : n \in ToSet(pool) <=> n = Head(pool) \/ n \in ToSet(Tail(pool))
    <3>1. Len(Tail(pool)) = Len(pool) - 1 /\ \A i \in 1 .. Len(pool) - 1 : Tail(pool)[i] = pool[i + 1]
      BY <2>2, <2>3
    <3>2. \A i \in 1 .. Len(pool) : i = 1 \/ i - 1 \in 1 .. Len(pool) - 1
      BY <2>3
    <3>3. \A i \in 1 .. Len(pool) - 1 : i + 1 \in 1 .. Len(pool)
      BY <2>3
    <3>4. Head(pool) = pool[1] /\ 1 \in 1 .. Len(pool) /\ \A i \in 1 .. Len(pool) : i - 1 + 1 = i
      BY <2>2, <2>3
    <3>5. DOMAIN pool = 1 .. Len(pool) /\ DOMAIN Tail(pool) = 1 .. Len(pool) - 1
      BY <2>2, <2>3, <3>1
    <3>6. /\ \A n : n \in ToSet(pool) <=> \E i \in 1 .. Len(pool) : pool[i] = n
          /\ \A n : n \in ToSet(Tail(pool)) <=> \E i \in 1 .. Len(pool) - 1 : Tail(pool)[i] = n
      BY <3>5 DEF ToSet
    <3>7. ASSUME NEW n, n \in ToSet(pool), n # Head(pool) PROVE n \in ToSet(Tail(pool))
      <4>1. PICK i \in 1 .. Len(pool) : pool[i] = n
        BY <3>6, <3>7
      <4>2. i # 1 /\ i - 1 \in 1 .. Len(pool) - 1
        BY <3>2, <3>4, <3>7, <4>1
      <4>3. Tail(pool)[i - 1] = pool[i]
        BY <3>1, <3>4, <4>2
      <4>. QED
        BY <3>6, <4>1, <4>2, <4>3
    <3>8. ASSUME NEW n, n \in ToSet(Tail(pool)) PROVE n \in ToSet(pool)
      BY <3>1, <3>3, <3>6, <3>8
    <3>. QED
      BY <3>4, <3>6, <3>7, <3>8
  <2>5. node[t] = Null /\ Null \notin Node
    BY <2>1, CellFacts DEF HInv, Locals, Owners, Holders
  <2>6. \A u \in Thread \ {t} : node'[u] = node[u] /\ at'[u] = at[u]
    BY <1>1 DEF LocalsOf
  <2>. QED
    BY <2>1, <2>2, <2>4, <2>5, <2>6 DEF Apart, Linking
<1>3. CASE Prepare(t)
  <2>1. /\ pool' = pool /\ node' = node /\ at[t] = "prepare" /\ at'[t] = "endLock"
        /\ value' = [value EXCEPT ![node[t]] = arg[t]]
    BY <1>3 DEF Prepare, Step, HInv, MapTypeOK
  <2>2. \A n \in Node : Apart(n)' <=> Apart(n)
    BY <1>1, <2>1, ApartSame DEF Linking
  <2>3. \A n \in Node : ~Apart(n) => n # node[t]
    BY <2>1 DEF Apart, Linking
  <2>4. \A n \in Node : n # node[t] => value'[n] = value[n]
    BY <2>1, CellFacts DEF HInv, MapTypeOK
  <2>. QED
    BY <2>2, <2>3, <2>4
<1>4. CASE Found(t) \/ NotFound(t) \/ PushUnlock(t)
  <2>1. pool' = pool /\ value' = value
    BY <1>4 DEF Found, NotFound, PushUnlock, lists
  <2>2. \A n \in Node : (node'[t] = n /\ at'[t] \notin Linking) <=> (node[t] = n /\ at[t] \notin Linking)
    <3>1. Null \notin Node
      BY CellFacts
    <3>2. CASE PushUnlock(t)
      BY <3>1, <3>2 DEF PushUnlock, Return, Step, Linking, HInv, MapTypeOK
    <3>3. CASE Found(t) \/ NotFound(t)
      <4>1. node[t] = Null /\ node'[t] = Null
        BY <3>3 DEF Found, NotFound, Return, Step, HInv, MapTypeOK, Locals, Owners, Holders
      <4>. QED
        BY <3>1, <4>1
    <3>. QED
      BY <1>4, <3>2, <3>3
  <2>. QED
    BY <1>1, <2>1, <2>2, ApartSame
<1>5. CASE ~(Pop(t) \/ Prepare(t) \/ Found(t) \/ NotFound(t) \/ PushUnlock(t))
  <2>1. /\ pool' = pool /\ value' = value /\ node' = node
        /\ at[t] \in Linking <=> at'[t] \in Linking
    <3>1. ASSUME NEW k \in Key, NEW c \in {"find", "insert"}, Call(t, c, k)
          PROVE  /\ pool' = pool /\ value' = value /\ node' = node
                 /\ at[t] \in Linking <=> at'[t] \in Linking
      <4>1. at[t] = "idle" /\ at'[t] = "find"
        BY <3>1 DEF Call, Step, HInv, MapTypeOK
      <4>. QED
        BY <3>1, <4>1 DEF Call, lists, Linking
    <3>2. CASE FindStep(t) \/ PopLoad(t) \/ PopTry(t) \/ PopUnlock(t) \/ EndLock(t) \/ PushLoad(t) \/ PushTry(t)
      <4>1. pool' = pool /\ value' = value /\ node' = node
        BY <3>2 DEF FindStep, PopLoad, PopTry, TryLock, PopUnlock, EndLock, PushLoad, PushTry, lists
      <4>2. CASE FindStep(t) \/ PopLoad(t) \/ PopUnlock(t) \/ EndLock(t) \/ PushLoad(t)
        BY <4>1, <4>2 DEF FindStep, PopLoad, PopUnlock, EndLock, PushLoad, Step, Linking, HInv, MapTypeOK
      <4>3. CASE PopTry(t)
        BY <4>1, <4>3 DEF PopTry, TryLock, Step, Linking, HInv, MapTypeOK
      <4>4. CASE PushTry(t)
        BY <4>1, <4>4 DEF PushTry, TryLock, Step, Linking, HInv, MapTypeOK
      <4>. QED
        BY <3>2, <4>2, <4>3, <4>4
    <3>3. CASE CloseList(t) \/ SetLast(t)
      BY <3>3 DEF CloseList, SetLast, Step, Linking, HInv, MapTypeOK
    <3>. QED
      BY <1>5, <3>1, <3>2, <3>3 DEF StepOf, Moves
  <2>. QED
    BY <1>1, <2>1, ApartSame
<1>. QED
  BY <1>2, <1>3, <1>4, <1>5

LEMMA KeysStay ==
  ASSUME HInv, HInv', NEW t \in Thread, StepOf(t), ~Link(t), ~Exhausted, ~Exhausted'
  PROVE  Keys' = Keys
<1>1. \A n \in Node : /\ Apart(n)' <=> Apart(n)
                      /\ ~Apart(n) => value'[n] = value[n]
  BY ApartStays
<1>2. \A k \in Key : k \in Keys' <=> k \in Keys
  BY <1>1, KeysAre, KeysNext
<1>. QED
  BY <1>2, KeysTyped, KeysTypedNext

LEMMA LinkAdds ==
  ASSUME HInv, HInv', NEW t \in Thread, Link(t), ~Exhausted, ~Exhausted'
  PROVE  Keys' = Keys \cup {arg[t]}
<1>1. value' = value /\ at[t] \in Holders /\ at[t] \notin Linking /\ at[t] \in Valued
  BY DEF Link, Step, Holders, Linking, Valued
<1>2. node[t] \in Node
  BY <1>1 DEF HInv, MapTypeOK, Locals, Owners, Exhausted
<1>3. value[node[t]] = arg[t] /\ arg[t] \in Key
  BY <1>1, <1>2 DEF HInv, Locals
<1>4. \A k \in Key : k \in Keys' <=> k \in Keys \/ k = arg[t]
  <2>1. ASSUME NEW n \in Node PROVE ~Apart(n)' <=> ~Apart(n) \/ n = node[t]
    BY LinkJoins
  <2>2. \A k \in Key : k \in Keys' <=> \E n \in Node : value[n] = k /\ ~Apart(n)'
    BY <1>1, KeysNext
  <2>3. \A k \in Key : k \in Keys <=> \E n \in Node : value[n] = k /\ ~Apart(n)
    BY KeysAre
  <2>. QED
    BY <1>2, <1>3, <2>1, <2>2, <2>3
<1>. QED
  BY <1>3, <1>4, KeysTyped, KeysTypedNext

\* end_ of a bucket never has a value, so no cursor takes it for a node.
EndsEmpty == \A b \in Bucket : value[End(b)] = Null

LEMMA EndsStayEmpty ==
  ASSUME HInv, EndsEmpty, [MapNext]_mapVars
  PROVE  EndsEmpty'
<1>1. CASE UNCHANGED mapVars
  BY <1>1 DEF EndsEmpty, mapVars
<1>2. ASSUME NEW t \in Thread, StepOf(t) PROVE EndsEmpty'
  <2>1. CASE Prepare(t)
    <3>1. value' = [value EXCEPT ![node[t]] = arg[t]] /\ node[t] \in Node \cup {PoolEnd, Null}
      BY <2>1 DEF Prepare, HInv, MapTypeOK
    <3>2. \A b \in Bucket : End(b) \in Cell /\ End(b) # node[t]
      BY <3>1, CellFacts
    <3>. QED
      BY <3>1, <3>2 DEF EndsEmpty, HInv, MapTypeOK
  <2>2. CASE ~Prepare(t)
    <3>1. value' = value
      BY <1>2, <2>2 DEF StepOf, Moves, FindStep, Found, NotFound, PopLoad, PopTry, TryLock, Pop, PopUnlock, EndLock,
                        PushLoad, PushTry, Link, CloseList, SetLast, PushUnlock, Call, lists
    <3>. QED
      BY <3>1 DEF EndsEmpty
  <2>. QED
    BY <2>1, <2>2
<1>. QED
  BY <1>1, <1>2 DEF MapNext, StepOf

\* Where a cursor may be
LEMMA CursorAt ==
  ASSUME HInv, ~Exhausted, NEW t \in Thread, at[t] = "find"
  PROVE  \/ cur[t] \in {Null, End(Bkt(t))}
         \/ cur[t] \in Node /\ ~Apart(cur[t])
<1>1. PICK p \in [Bucket -> Seq(Node)] : Fits(p)
  BY DEF HInv
<1>2. Bkt(t) \in Bucket
  BY CellFacts DEF HInv, Locals, Bkt
<1>3. PICK q \in Seq(Node) : q = p[Bkt(t)]
  BY <1>2
<1>4. Finds(q, t) /\ Lists(Bkt(t), q)
  BY <1>1, <1>2, <1>3 DEF Fits
<1>5. CASE \E i \in 1 .. Len(q) : cur[t] = q[i]
  <2>1. cur[t] \in Node /\ cur[t] \in ToSet(q)
    BY <1>5 DEF ToSet
  <2>. QED
    BY <1>4, <2>1 DEF Lists, Member
<1>. QED
  BY <1>4, <1>5 DEF Finds

LEMMA PresentIs ==
  ASSUME HInv, EndsEmpty, ~Exhausted, NEW t \in Thread, at[t] = "find", Matches(t)
  PROVE  arg[t] \in Keys
<1>1. arg[t] \in Key /\ Bkt(t) \in Bucket
  BY CellFacts DEF HInv, Locals, Bkt
<1>2. cur[t] # Null /\ value[cur[t]] = arg[t] /\ cur[t] # End(Bkt(t))
  BY <1>1, CellFacts DEF Matches, EndsEmpty
<1>. QED
  BY <1>1, <1>2, CursorAt, KeysAre

LEMMA PresentNext ==
  ASSUME NEW t \in Thread
  PROVE  (HInv /\ EndsEmpty /\ ~Exhausted /\ at[t] = "find" /\ Matches(t) => arg[t] \in Keys)'
<1>1. HInv /\ EndsEmpty /\ ~Exhausted /\ at[t] = "find" /\ Matches(t) => arg[t] \in Keys
  BY PresentIs
<1>. QED
  BY <1>1, PTL

Ends == {Null} \cup {End(b) : b \in Bucket}

\* A cursor goes past the last node.
LEMMA AbsentIs ==
  ASSUME HInv, ~Exhausted, NEW t \in Thread, at[t] = "find", cur[t] \notin Ends, ~Matches(t),
         next[cur[t]] \in Ends
  PROVE  arg[t] \notin Keys
<1>1. arg[t] \in Key /\ Bkt(t) \in Bucket
  BY CellFacts DEF HInv, Locals, Bkt
<1>2. PICK p \in [Bucket -> Seq(Node)] : Fits(p)
  BY DEF HInv
<1>3. PICK q \in Seq(Node) : q = p[Bkt(t)]
  BY <1>1
<1>4. Finds(q, t) /\ Lists(Bkt(t), q) /\ Len(q) \in Nat
  BY <1>1, <1>2, <1>3 DEF Fits
<1>5. PICK i \in 1 .. Len(q) : cur[t] = q[i] /\ \A j \in 1 .. i - 1 : value[q[j]] # arg[t]
  BY <1>1, <1>4 DEF Finds, Ends
<1>6. i = Len(q)
  <2>. SUFFICES ASSUME i # Len(q) PROVE FALSE
    OBVIOUS
  <2>1. i \in 1 .. Len(q) - 1 /\ i + 1 \in 1 .. Len(q)
    BY <1>4
  <2>2. next[cur[t]] = q[i + 1] /\ q[i + 1] \in Node
    BY <1>4, <1>5, <2>1 DEF Lists
  <2>. QED
    BY <2>2, CellFacts DEF Ends
<1>7. \A j \in 1 .. Len(q) : value[q[j]] # arg[t]
  <2>1. value[q[i]] # arg[t]
    BY <1>5 DEF Matches, Ends
  <2>2. \A j \in 1 .. Len(q) : j = i \/ j \in 1 .. i - 1
    BY <1>4, <1>6
  <2>. QED
    BY <1>5, <2>1, <2>2
<1>8. ASSUME NEW n \in Node, value[n] = arg[t], ~Apart(n) PROVE FALSE
  <2>1. Member(n, Bkt(t))
    BY <1>1, <1>8, CellFacts DEF Member, Bkt
  <2>2. n \in ToSet(q)
    BY <1>4, <2>1 DEF Lists
  <2>. QED
    BY <1>7, <1>8, <2>2 DEF ToSet
<1>. QED
  BY <1>1, <1>8, KeysAre

\* A cursor begins at the first cell after begin_.
LEMMA FirstIs ==
  ASSUME HInv, EndsEmpty, ~Exhausted, NEW k \in Key
  PROVE  LET c == next[Begin(Hash[k])]
         IN  /\ c # Null /\ value[c] = k => k \in Keys
             /\ c \in Ends => k \notin Keys
<1>1. PICK b \in Bucket : b = Hash[k]
  BY CellFacts
<1>2. PICK p \in [Bucket -> Seq(Node)] : Fits(p)
  BY DEF HInv
<1>3. PICK q \in Seq(Node) : q = p[b]
  OBVIOUS
<1>4. Lists(b, q) /\ Len(q) \in Nat
  BY <1>2, <1>3 DEF Fits
<1>5. \A n \in ToSet(q) : n \in Node /\ ~Apart(n)
  BY <1>4 DEF Lists, Member, ToSet
<1>6. CASE Len(q) = 0
  <2>1. next[Begin(b)] = End(b) /\ value[End(b)] = Null
    BY <1>4, <1>6 DEF Lists, EndsEmpty
  <2>2. ASSUME NEW n \in Node, value[n] = k, ~Apart(n) PROVE FALSE
    <3>1. Member(n, b)
      BY <1>1, <2>2, CellFacts DEF Member
    <3>2. n \in ToSet(q)
      BY <1>4, <3>1 DEF Lists
    <3>. QED
      BY <1>6, <3>2 DEF ToSet
  <2>. QED
    BY <1>1, <2>1, <2>2, KeysAre, CellFacts
<1>7. CASE Len(q) # 0
  <2>1. next[Begin(b)] = q[1] /\ 1 \in 1 .. Len(q)
    BY <1>4, <1>7 DEF Lists
  <2>2. q[1] \in ToSet(q)
    BY <2>1 DEF ToSet
  <2>3. q[1] \in Node /\ ~Apart(q[1]) /\ q[1] \notin Ends
    BY <1>5, <2>2, CellFacts DEF Ends
  <2>. QED
    BY <1>1, <2>1, <2>3, KeysAre
<1>. QED
  BY <1>6, <1>7

\* A step of one thread leaves the answers of the others as they are.
LEMMA AnswersStay ==
  ASSUME HInv, NEW t \in Thread, StepOf(t), ~Exhausted, ~Exhausted'
  PROVE  \A u \in Thread \ {t} : Answer(u)' = Answer(u)
<1>. SUFFICES ASSUME NEW u \in Thread \ {t} PROVE Answer(u)' = Answer(u)
  OBVIOUS
<1>1. at'[u] = at[u] /\ arg'[u] = arg[u] /\ cur'[u] = cur[u]
  BY OthersStay DEF HInv, LocalsOf
<1>2. ASSUME at[u] = "find", cur[u] # Null PROVE value'[cur[u]] = value[cur[u]]
  <2>1. CASE Prepare(t)
    <3>1. /\ at[t] = "prepare" /\ node[t] \in Node \cup {PoolEnd, Null}
          /\ value' = [value EXCEPT ![node[t]] = arg[t]]
      BY <2>1 DEF Prepare, Step, HInv, MapTypeOK
    <3>2. node[t] \in Node /\ Apart(node[t])
      BY <3>1 DEF HInv, Locals, Owners, Exhausted, Apart, Linking
    <3>3. cur[u] # node[t] /\ cur[u] \in Cell
      <4>1. Bkt(u) \in Bucket
        BY <1>2, CellFacts DEF HInv, Locals, Bkt
      <4>. QED
        BY <1>2, <3>2, <4>1, CursorAt, CellFacts
    <3>. QED
      BY <3>1, <3>3 DEF HInv, MapTypeOK
  <2>2. CASE ~Prepare(t)
    <3>1. value' = value
      BY <2>2 DEF StepOf, Moves, FindStep, Found, NotFound, PopLoad, PopTry, TryLock, Pop, PopUnlock, EndLock,
                  PushLoad, PushTry, Link, CloseList, SetLast, PushUnlock, Call, lists
    <3>. QED
      BY <3>1
  <2>. QED
    BY <2>1, <2>2
<1>3. at[u] = "find" => (Matches(u)' <=> Matches(u))
  BY <1>1, <1>2 DEF Matches
<1>. QED
  BY <1>1, <1>3 DEF Answer

LEMMA SaysIs ==
  ASSUME NEW t \in Thread, \A u \in Thread \ {t} : Answer(u)' = Answer(u)
  PROVE  /\ Abstract!Says(t, Answer(t)')
         /\ Answer(t)' = Answer(t) =>
              [u \in Thread |-> Answer(u)]' = [u \in Thread |-> Answer(u)]
  BY DEF Abstract!Says

-----------------------------------------------------------------------------
(* Each step of the map is a step of the set, or none                      *)

LEMMA CallBegins ==
  ASSUME HInv, EndsEmpty, ~Exhausted, ~Exhausted', NEW t \in Thread,
         NEW k \in Key, NEW c \in {"find", "insert"}, Call(t, c, k), Keys' = Keys
  PROVE  Abstract!Begin(t, c, k)
<1>1. /\ at[t] = "idle" /\ at'[t] = "find" /\ value' = value
      /\ call' = [call EXCEPT ![t] = c]
      /\ arg' = [arg EXCEPT ![t] = k] /\ arg'[t] = k
      /\ cur'[t] = next[Begin(Hash[k])]
  BY DEF Call, Step, lists, HInv, MapTypeOK
<1>2. Answer(t) = "none"
  BY <1>1 DEF Answer, Matches
<1>3. /\ Answer(t)' \in {"open", "present", "absent"}
      /\ Answer(t)' = "present" => cur'[t] # Null /\ value[cur'[t]] = k
      /\ Answer(t)' = "absent" => cur'[t] \in Ends
  BY <1>1 DEF Answer, Matches, Ends
<1>4. Abstract!Says(t, Answer(t)') /\ Abstract!Right(Answer(t)', k)
  BY <1>1, <1>3, FirstIs, AnswersStay, SaysIs DEF StepOf, Abstract!Right
<1>. QED
  BY <1>1, <1>2, <1>3, <1>4 DEF Abstract!Begin

LEMMA FindStepLooks ==
  ASSUME HInv, HInv', EndsEmpty, EndsEmpty', ~Exhausted, ~Exhausted', NEW t \in Thread,
         FindStep(t), Keys' = Keys
  PROVE  Abstract!Look(t) \/ Answer(t)' = Answer(t)
<1>1. /\ at[t] = "find" /\ at'[t] = "find" /\ cur[t] # Null /\ ~Matches(t)
      /\ UNCHANGED <<call, arg, value>> /\ cur'[t] = next[cur[t]]
  BY DEF FindStep, lists, callOf, HInv, MapTypeOK
<1>2. CASE cur[t] \in Ends
  <2>1. Bkt(t) \in Bucket
    BY <1>1, CellFacts DEF HInv, Locals, Bkt
  <2>2. cur[t] = End(Bkt(t))
    BY <1>1, <1>2, CursorAt, CellFacts DEF Ends
  <2>3. next[End(Bkt(t))] = Null
    BY <2>1 DEF HInv, Fits, Lists
  <2>. QED
    BY <1>1, <1>2, <2>2, <2>3 DEF Answer, Matches, Ends
<1>3. CASE cur[t] \notin Ends
  <2>1. Answer(t) = "open"
    BY <1>1, <1>3 DEF Answer, Matches, Ends
  <2>2. Answer(t)' \in {"open", "present", "absent"}
    BY <1>1 DEF Answer, Matches
  <2>3. Answer(t)' = "present" => arg[t] \in Keys
    BY <1>1, PresentNext DEF Answer, Matches
  <2>4. Answer(t)' = "absent" => arg[t] \notin Keys
    BY <1>1, <1>3, AbsentIs DEF Answer, Matches, Ends
  <2>5. Abstract!Says(t, Answer(t)')
    BY AnswersStay, SaysIs DEF StepOf, Moves
  <2>. QED
    BY <1>1, <2>1, <2>2, <2>3, <2>4, <2>5 DEF Abstract!Look, Abstract!Right
<1>. QED
  BY <1>2, <1>3

LEMMA ReturnReturns ==
  ASSUME HInv, ~Exhausted, ~Exhausted', NEW t \in Thread, Keys' = Keys,
         Found(t) \/ (NotFound(t) /\ call[t] = "find") \/ PushUnlock(t)
  PROVE  Abstract!Return(t)
<1>1. /\ at'[t] = "idle" /\ call' = [call EXCEPT ![t] = "find"] /\ arg' = [arg EXCEPT ![t] = Null]
  BY DEF Found, NotFound, PushUnlock, Return, Step, HInv, MapTypeOK
<1>2. Answer(t)' = "none"
  BY <1>1 DEF Answer, Matches
<1>3. Answer(t) \in {"present", "added"} \/ (call[t] = "find" /\ Answer(t) = "absent")
  BY DEF Found, NotFound, PushUnlock, Return, Step, Answer, Matches
<1>4. Abstract!Says(t, "none")
  BY <1>2, AnswersStay, SaysIs DEF StepOf, Moves
<1>. QED
  BY <1>1, <1>3, <1>4 DEF Abstract!Return

LEMMA LinkIsAdd ==
  ASSUME HInv, HInv', ~Exhausted, ~Exhausted', NEW t \in Thread, Link(t)
  PROVE  Abstract!Add(t)
<1>1. at[t] = "link" /\ at'[t] = "close" /\ UNCHANGED <<call, arg>>
  BY DEF Link, Step, callOf, HInv, MapTypeOK
<1>2. Answer(t) = "absent" /\ Answer(t)' = "added"
  BY <1>1 DEF Answer, Matches
<1>3. call[t] = "insert"
  BY <1>1, CellFacts DEF HInv, Fits, Finds
<1>4. Abstract!Says(t, "added")
  BY <1>2, AnswersStay, SaysIs DEF StepOf, Moves
<1>. QED
  BY <1>1, <1>2, <1>3, <1>4, LinkAdds DEF Abstract!Add

\* The steps between the search of insert and its link, and those after it
LEMMA WorkIsHidden ==
  ASSUME MapTypeOK, NEW t \in Thread,
         \/ NotFound(t) /\ call[t] # "find"
         \/ PopLoad(t) \/ PopTry(t) \/ Pop(t) \/ PopUnlock(t) \/ Prepare(t)
         \/ EndLock(t) \/ PushLoad(t) \/ PushTry(t) \/ CloseList(t) \/ SetLast(t)
  PROVE  Answer(t)' = Answer(t) /\ UNCHANGED <<call, arg>>
<1>0. UNCHANGED <<call, arg>>
  BY DEF NotFound, PopLoad, PopTry, TryLock, Pop, PopUnlock, Prepare, EndLock, PushLoad, PushTry,
         CloseList, SetLast, callOf
<1>1. CASE NotFound(t) /\ call[t] # "find"
  <2>1. at[t] = "find" /\ cur[t] = Null /\ at'[t] = "popLoad"
    BY <1>1 DEF NotFound, Step, MapTypeOK
  <2>. QED
    BY <1>0, <2>1 DEF Answer, Matches
<1>2. CASE PopLoad(t) \/ Pop(t) \/ PopUnlock(t) \/ Prepare(t) \/ EndLock(t) \/ PushLoad(t)
  <2>1. /\ at[t] \in {"popLoad", "pop", "popUnlock", "prepare", "endLock", "pushLoad"}
        /\ at'[t] \in {"popTry", "popUnlock", "prepare", "endLock", "pushLoad", "pushTry"}
    BY <1>2 DEF PopLoad, Pop, PopUnlock, Prepare, EndLock, PushLoad, Step, MapTypeOK
  <2>. QED
    BY <1>0, <2>1 DEF Answer, Matches
<1>3. CASE PopTry(t) \/ PushTry(t)
  <2>1. at[t] \in {"popTry", "pushTry"} /\ at'[t] \in {"pop", "popLoad", "link", "pushLoad"}
    BY <1>3 DEF PopTry, PushTry, TryLock, Step, MapTypeOK
  <2>. QED
    BY <1>0, <2>1 DEF Answer, Matches
<1>4. CASE CloseList(t) \/ SetLast(t)
  <2>1. {at[t], at'[t]} \subseteq {"close", "last", "unlock"}
    BY <1>4 DEF CloseList, SetLast, Step, MapTypeOK
  <2>. QED
    BY <1>0, <2>1 DEF Answer, Matches
<1>. QED
  BY <1>0, <1>1, <1>2, <1>3, <1>4

LEMMA StepImplements ==
  ASSUME HInv, HInv', EndsEmpty, EndsEmpty', ~Exhausted, ~Exhausted', NEW t \in Thread, StepOf(t)
  PROVE  Abstract!Next \/ UNCHANGED Abstract!vars
<1>1. CASE Link(t)
  BY <1>1, LinkIsAdd DEF Abstract!Next
<1>2. CASE ~Link(t)
  <2>1. Keys' = Keys
    BY <1>2, KeysStay
  <2>2. Answer(t)' = Answer(t) => [u \in Thread |-> Answer(u)]' = [u \in Thread |-> Answer(u)]
    BY AnswersStay, SaysIs
  <2>3. ASSUME NEW k \in Key, NEW c \in {"find", "insert"}, Call(t, c, k) PROVE Abstract!Next
    BY <2>1, <2>3, CallBegins DEF Abstract!Next
  <2>4. CASE FindStep(t)
    <3>1. Abstract!Look(t) \/ Answer(t)' = Answer(t)
      BY <2>1, <2>4, FindStepLooks
    <3>2. UNCHANGED <<call, arg>>
      BY <2>4 DEF FindStep, callOf
    <3>. QED
      BY <2>1, <2>2, <3>1, <3>2 DEF Abstract!Next, Abstract!vars
  <2>5. CASE Found(t) \/ (NotFound(t) /\ call[t] = "find") \/ PushUnlock(t)
    BY <2>1, <2>5, ReturnReturns DEF Abstract!Next
  <2>6. CASE \/ NotFound(t) /\ call[t] # "find"
             \/ PopLoad(t) \/ PopTry(t) \/ Pop(t) \/ PopUnlock(t) \/ Prepare(t)
             \/ EndLock(t) \/ PushLoad(t) \/ PushTry(t) \/ CloseList(t) \/ SetLast(t)
    <3>1. Answer(t)' = Answer(t) /\ UNCHANGED <<call, arg>>
      BY <2>6, WorkIsHidden DEF HInv
    <3>. QED
      BY <2>1, <2>2, <3>1 DEF Abstract!vars
  <2>. QED
    BY <1>2, <2>3, <2>4, <2>5, <2>6 DEF StepOf, Moves
<1>. QED
  BY <1>1, <1>2

\* A thread that finds or inserts sees a set that only grows: whatever Find
\* meets of lists half linked and of other inserts, its answer was true at one
\* moment of the call, and insert adds its key at the moment it links its node.
\* For every number of threads, keys, nodes and buckets, until the pool is empty.
THEOREM ImplementsKeySet == MapSpec => IsKeySet
<1>1. MapInit => EndsEmpty /\ Abstract!Init
  <2>. SUFFICES ASSUME MapInit PROVE EndsEmpty /\ Abstract!Init
    OBVIOUS
  <2>1. HInv
    BY HInvInit
  <2>2. /\ \A c \in Cell : value[c] = Null
        /\ ~Exhausted
    BY CellFacts DEF MapInit, Exhausted
  <2>3. EndsEmpty
    BY <2>2, CellFacts DEF EndsEmpty
  <2>4. Keys = {}
    BY <2>1, <2>2, KeysAre, KeysTyped, CellFacts
  <2>5. \A t \in Thread : Answer(t) = "none"
    BY DEF MapInit, Answer, Matches
  <2>. QED
    BY <2>3, <2>4, <2>5 DEF MapInit, Abstract!Init
<1>2. HInv /\ HInv' /\ EndsEmpty /\ [MapNext]_mapVars =>
        EndsEmpty' /\ [Exhausted' \/ Abstract!Next]_(Abstract!vars)
  <2>. SUFFICES ASSUME HInv, HInv', EndsEmpty, [MapNext]_mapVars
                PROVE  EndsEmpty' /\ [Exhausted' \/ Abstract!Next]_(Abstract!vars)
    OBVIOUS
  <2>1. EndsEmpty'
    BY EndsStayEmpty
  <2>2. CASE UNCHANGED mapVars
    <3>1. Keys' = Keys /\ \A t \in Thread : Answer(t)' = Answer(t)
      BY <2>2 DEF mapVars, Keys, InBucket, Answer, Matches
    <3>2. UNCHANGED <<call, arg>>
      BY <2>2 DEF mapVars
    <3>. QED
      BY <2>1, <3>1, <3>2 DEF Abstract!vars
  <2>3. ASSUME NEW t \in Thread, StepOf(t) PROVE [Exhausted' \/ Abstract!Next]_(Abstract!vars)
    <3>1. Exhausted => Exhausted'
      BY <2>3, ExhaustedStays DEF HInv
    <3>2. CASE ~Exhausted'
      BY <2>1, <2>3, <3>1, <3>2, StepImplements
    <3>. QED
      BY <3>2
  <2>. QED
    BY <2>1, <2>2, <2>3 DEF MapNext, StepOf
<1>. QED
  BY <1>1, <1>2, HInvHolds, PTL DEF MapSpec, IsKeySet
=============================================================================
