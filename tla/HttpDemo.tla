------------------------------ MODULE HttpDemo ------------------------------
(***************************************************************************)
(* HttpClient of c++/utils/web_server/httpclient against HttpServer.  A    *)
(* client process calls SendReq a few times in a row; its exit flag and    *)
(* its callback are static members, so they outlive a call.  Websocket     *)
(* peers are browsers: they upgrade, send frames and close as they like.   *)
(*                                                                         *)
(* A connection attempt may fail, a stream is read in pieces of any size,  *)
(* and the server process may end at any time.                             *)
(***************************************************************************)
EXTENDS HttpServer

CONSTANTS
    Client,
    Peer,           \* websocket connections
    MaxReq,         \* bound of the model: calls of SendReq per client
    MaxFrames       \* bound of the model: frames unanswered or unread per peer

ASSUME ConnAssumption == Conn = (Client \X (1 .. MaxReq)) \cup Peer
ASSUME PeerAssumption == Peer \cap (Client \X (1 .. MaxReq)) = {}
ASSUME BoundsAssumption == MaxReq \in Nat /\ MaxFrames \in Nat

VARIABLES
    pc,         \* pc[c]: "idle", in the "loop" of SendReq, or in mg_mgr_"free"
    req,        \* req[c]: how many times SendReq has been called
    url,        \* url[c]: the argument of the current call
    exitFlag,   \* s_exit_flag
    state,      \* state[c]: of the client's connection
    buf,        \* buf[c]: recv_mbuf of the client's connection
    calls       \* history: what s_req_callback has been called with

clientVars == <<pc, req, url, exitFlag, state, buf, calls>>
vars == <<serverVars, clientVars>>

Current(c) == <<c, req[c]>>

ClientInit == /\ pc    = [c \in Client |-> "idle"]
              /\ req   = [c \in Client |-> 0]
              /\ url   \in [Client -> Url]
              /\ exitFlag = [c \in Client |-> 0]
              /\ state = [c \in Client |-> "closed"]
              /\ buf   = [c \in Client |-> <<>>]
              /\ calls = [c \in Client |-> <<>>]

Init == ServerInit /\ ClientInit

-----------------------------------------------------------------------------
(* SendReq *)
\* Nothing resets the flag: what an earlier call left is tested.
FlagAtCall(c) == exitFlag[c]

SendReq(c, u) == /\ pc[c] = "idle" /\ req[c] < MaxReq
                 /\ req' = [req EXCEPT ![c] = @ + 1]
                 /\ url' = [url EXCEPT ![c] = u]
                 /\ exitFlag' = [exitFlag EXCEPT ![c] = FlagAtCall(c)]
                 /\ state' = [state EXCEPT ![c] = "connecting"]
                 /\ buf' = [buf EXCEPT ![c] = <<>>]
                 /\ pc' = [pc EXCEPT ![c] = "loop"]
                 /\ UNCHANGED <<calls, serverVars>>

Polls(c) == pc[c] = "loop" /\ exitFlag[c] = 0

\* The connection is made, and the request that waits for it is written.
Connected(c) == /\ Polls(c) /\ state[c] = "connecting" /\ server = "up"
                /\ state' = [state EXCEPT ![c] = "open"]
                /\ inbox' = [inbox EXCEPT ![Current(c)] = <<Request(url[c])>>]
                /\ UNCHANGED <<pc, req, url, exitFlag, buf, calls>>
                /\ UNCHANGED <<server, table, sessions, accepted, websocket, outbox>>

\* MG_EV_CONNECT with an error, then MG_EV_CLOSE
FlagAfterError_Kept(c) == exitFlag[c]
FlagAfterError(c) == 1
Refused(c) == /\ Polls(c) /\ state[c] = "connecting"
              /\ exitFlag' = [exitFlag EXCEPT ![c] = FlagAfterError(c)]
              /\ state' = [state EXCEPT ![c] = "closed"]
              /\ UNCHANGED <<pc, req, url, buf, calls, serverVars>>

\* What mg_http_handler leaves in the buffer `b' after a message: the length
\* of a chunked message includes all that was buffered behind it.
Leftover(b) == <<>>

Whole(b) == Len(b) >= 2 /\ b[2].kind = "rest"
Begun(b) == b # <<>> /\ Head(b).kind = "head"

\* The reply events: for a whole message that is in the buffer, and for what
\* is left in it when the connection closes
Buffered(b) == IF Whole(b) THEN <<Head(b)>> ELSE <<>>
AtClose(b)  == IF Begun(b) THEN <<Head(b)>> ELSE <<>>

\* s_req_callback is called once for every one of them.
Replied(c, b, closing) ==
    LET left  == IF Whole(b) THEN Leftover(b) ELSE b
        heads == Buffered(b) \o (IF closing THEN AtClose(left) ELSE <<>>)
    IN  [i \in DOMAIN heads |-> [to |-> req[c], url |-> url[c], head |-> heads[i]]]

\* A reply makes OnHttpEvent close the connection at the end of the poll; so
\* does the end of the stream.  Either sets the flag.
Read(c) ==
    /\ Polls(c) /\ state[c] = "open"
    /\ \E k \in 1 .. Len(outbox[Current(c)]) :
          LET got    == SubSeq(outbox[Current(c)], 1, k)
              ended  == Last(got) = Fin
              b      == buf[c] \o (IF ended THEN Front(got) ELSE got)
              closes == Whole(b) \/ ended
          IN  /\ outbox' = [outbox EXCEPT ![Current(c)] = SubSeq(@, k + 1, Len(@))]
              /\ buf' = [buf EXCEPT ![c] = IF closes THEN <<>> ELSE b]
              /\ calls' = [calls EXCEPT ![c] = @ \o Replied(c, b, closes)]
              /\ exitFlag' = [exitFlag EXCEPT ![c] = IF closes THEN 1 ELSE @]
              /\ state' = [state EXCEPT ![c] = IF closes THEN "closed" ELSE @]
              /\ inbox' = IF closes THEN [inbox EXCEPT ![Current(c)] = Append(@, Fin)] ELSE inbox
    /\ UNCHANGED <<pc, req, url, server, table, sessions, accepted, websocket>>

LeaveLoop(c) == /\ pc[c] = "loop" /\ exitFlag[c] # 0
                /\ pc' = [pc EXCEPT ![c] = "free"]
                /\ UNCHANGED <<req, url, exitFlag, state, buf, calls, serverVars>>

\* mg_mgr_free polls once more before it closes what is open: a connection
\* that is just being made may send its request then.
MgrFree(c) == /\ pc[c] = "free"
              /\ pc' = [pc EXCEPT ![c] = "idle"]
              /\ state' = [state EXCEPT ![c] = "closed"]
              /\ \/ UNCHANGED inbox
                 \/ /\ state[c] = "connecting" /\ server = "up"
                    /\ inbox' = [inbox EXCEPT ![Current(c)] = <<Request(url[c]), Fin>>]
              /\ UNCHANGED <<req, url, exitFlag, buf, calls>>
              /\ UNCHANGED <<server, table, sessions, accepted, websocket, outbox>>

ClientStep(c) == Connected(c) \/ Refused(c) \/ Read(c) \/ LeaveLoop(c) \/ MgrFree(c)

(* A websocket peer *)
PeerSends(p, m) == /\ server = "up" /\ Fin \notin ToSet(inbox[p])
                   /\ inbox' = [inbox EXCEPT ![p] = Append(@, m)]
                   /\ UNCHANGED <<clientVars, server, table, sessions, accepted, websocket, outbox>>

PeerStep(p) == \/ inbox[p] = <<>> /\ outbox[p] = <<>> /\ p \notin accepted /\ PeerSends(p, Upgrade)
               \/ Len(inbox[p] \o outbox[p]) \in 1 .. MaxFrames /\ PeerSends(p, Frame)
               \/ (inbox[p] # <<>> \/ p \in accepted) /\ PeerSends(p, Fin)

ServerSetup == \/ \E u \in Url : RemoveHandler(u) \/ \E h \in Handler : AddHandler(u, h)
               \/ Start

Next == \/ (ServerSetup \/ Poll \/ Exit) /\ UNCHANGED clientVars
        \/ \E c \in Client : ClientStep(c) \/ \E u \in Url : SendReq(c, u)
        \/ \E p \in Peer : PeerStep(p)

Spec == Init /\ [][Next]_vars

\* The server's loop and the client's loop go on polling.
Fairness == /\ WF_vars(Start /\ UNCHANGED clientVars)
            /\ \A n \in Conn : /\ WF_vars(Accept(n) /\ UNCHANGED clientVars)
                               /\ \A u \in Url : WF_vars(HandleHttpEvent(n, u) /\ UNCHANGED clientVars)
            /\ \A c \in Client : WF_vars(ClientStep(c))

FairSpec == Spec /\ Fairness

-----------------------------------------------------------------------------
(* Properties *)

\* An open websocket connection is in the session set exactly as long as the
\* server has the connection: a broadcast to the set reaches no connection
\* that has been freed.
SessionsAreOpen == ServerTypeOK /\ sessions = websocket /\ sessions \subseteq accepted

\* A callback runs at most once per call, and with the first answer to the
\* request of that call: the registered handler's when there is one, although
\* a second answer follows on the same connection, the answers arrive in
\* pieces, and the server may end in between.
AnswersOwnRequest ==
    \A c \in Client : \A i \in DOMAIN calls[c] :
        LET call == calls[c][i]
        IN  /\ call.head.conn = <<c, call.to>>
            /\ call.head.by = IF call.url \in DOMAIN table THEN table[call.url] ELSE Builtin
            /\ \A j \in DOMAIN calls[c] : calls[c][j].to = call.to => j = i

\* SendReq sends its request and handles the answer in the callback, as
\* http_client.cc:47 says: it leaves its loop only when the connection has
\* failed or ended, or the callback has run.
RequestHandled ==
    \A c \in Client : pc[c] = "free" => \/ state[c] = "closed"
                                       \/ \E i \in DOMAIN calls[c] : calls[c][i].to = req[c]

\* SendReq returns, whether the server answers, refuses or ends.
SendReqReturns == \A c \in Client : pc[c] # "idle" ~> pc[c] = "idle"
=============================================================================
