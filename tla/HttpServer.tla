----------------------------- MODULE HttpServer -----------------------------
(***************************************************************************)
(* HttpServer of c++/utils/web_server/httpserver: a table of handlers that *)
(* is filled before Start, and one thread that polls its connections and   *)
(* handles one event at a time.  A connection is a pair of streams; the    *)
(* client's end is in HttpDemo, which composes this module with HttpClient.*)
(***************************************************************************)
EXTENDS Naturals, Sequences, SequencesExt

CONSTANTS
    Conn,       \* connections, each used once
    Url,
    Handler,    \* what a ReqHandler answers
    Builtin     \* what the routes of HandleHttpEvent answer

ASSUME BuiltinAssumption == Builtin \notin Handler

VARIABLES
    server,     \* "init" before Start, "up" in its loop, "down" after
    table,      \* s_handler_map
    sessions,   \* s_websocket_session_set
    accepted,   \* the connections the server has an mg_connection for
    websocket,  \* those with MG_F_IS_WEBSOCKET
    inbox,      \* inbox[n]: sent by the client of n and not yet read
    outbox      \* outbox[n]: sent by the server and not yet read

serverVars == <<server, table, sessions, accepted, websocket, inbox, outbox>>

Request(u) == [kind |-> "request", url |-> u]
Upgrade    == [kind |-> "upgrade"]
Frame      == [kind |-> "frame"]
Fin        == [kind |-> "fin"]

\* A reader may get a reply in two pieces: what its parser needs to see a
\* message, and the rest.
Reply(n, h) == <<[kind |-> "head", conn |-> n, by |-> h], [kind |-> "rest", conn |-> n, by |-> h]>>

ServerTypeOK ==
    /\ server    \in {"init", "up", "down"}
    /\ DOMAIN table \subseteq Url /\ Range(table) \subseteq Handler
    /\ sessions \subseteq Conn /\ accepted \subseteq Conn /\ websocket \subseteq Conn
    /\ inbox  \in [Conn -> Seq([kind : {"request"}, url : Url] \cup {Upgrade, Frame, Fin})]
    /\ outbox \in [Conn -> Seq([kind : {"head", "rest"}, conn : Conn, by : Handler \cup {Builtin}]
                                \cup {Frame, Fin})]

ServerInit == /\ server = "init" /\ table = <<>>
              /\ sessions = {} /\ accepted = {} /\ websocket = {}
              /\ inbox  = [n \in Conn |-> <<>>]
              /\ outbox = [n \in Conn |-> <<>>]

-----------------------------------------------------------------------------
(* Before Start *)
AddHandler(u, h) == /\ server = "init"
                    /\ u \notin DOMAIN table
                    /\ table' = [v \in DOMAIN table \cup {u} |-> IF v = u THEN h ELSE table[v]]
                    /\ UNCHANGED <<server, sessions, accepted, websocket, inbox, outbox>>

RemoveHandler(u) == /\ server = "init"
                    /\ u \in DOMAIN table
                    /\ table' = [v \in DOMAIN table \ {u} |-> table[v]]
                    /\ UNCHANGED <<server, sessions, accepted, websocket, inbox, outbox>>

\* Start returns false when it cannot bind the port, and main returns.
Start == /\ server = "init" /\ server' \in {"up", "down"}
         /\ UNCHANGED <<table, sessions, accepted, websocket, inbox, outbox>>

(* The loop of Start *)
Accept(n) == /\ server = "up" /\ n \notin accepted
             /\ inbox[n] # <<>> /\ Fin \notin ToSet(outbox[n])
             /\ accepted' = accepted \cup {n}
             /\ UNCHANGED <<server, table, sessions, websocket, inbox, outbox>>

\* The next message of connection n is `m'.
Receives(n, m) == /\ server = "up" /\ n \in accepted
                  /\ inbox[n] # <<>> /\ Head(inbox[n]) = m
                  /\ inbox' = [inbox EXCEPT ![n] = Tail(@)]

\* A registered handler answers, and then the built-in route answers too.
Answers_BuiltinFirst(n, u) ==
    Reply(n, Builtin) \o (IF u \in DOMAIN table THEN Reply(n, table[u]) ELSE <<>>)
Answers(n, u) ==
    (IF u \in DOMAIN table THEN Reply(n, table[u]) ELSE <<>>) \o Reply(n, Builtin)

HandleHttpEvent(n, u) == /\ Receives(n, Request(u))
                         /\ outbox' = [outbox EXCEPT ![n] = @ \o Answers(n, u)]
                         /\ UNCHANGED <<server, table, sessions, accepted, websocket>>

HandshakeDone(n) == /\ Receives(n, Upgrade)
                    /\ websocket' = websocket \cup {n}
                    /\ sessions'  = sessions \cup {n}
                    /\ outbox' = [outbox EXCEPT ![n] = Append(@, Frame)]
                    /\ UNCHANGED <<server, table, accepted>>

HandleFrame(n) == /\ Receives(n, Frame)
                  /\ outbox' = [outbox EXCEPT ![n] = Append(@, Frame)]
                  /\ UNCHANGED <<server, table, sessions, accepted, websocket>>

\* MG_EV_CLOSE for connection n
SessionsAfterClose_All(n) == sessions
SessionsAfterClose(n) == IF n \in websocket THEN sessions \ {n} ELSE sessions

\* The peer has closed.  What it had sent may still be read before, or a
\* write fails and it is not.
HandleClose(n) == /\ server = "up" /\ n \in accepted
                  /\ Fin \in ToSet(inbox[n])
                  /\ accepted' = accepted \ {n} /\ websocket' = websocket \ {n}
                  /\ sessions' = SessionsAfterClose(n)
                  /\ inbox'  = [inbox EXCEPT ![n] = <<>>]
                  /\ outbox' = [outbox EXCEPT ![n] = Append(@, Fin)]
                  /\ UNCHANGED <<server, table>>

\* The process ends: its memory is gone and every stream is closed.
Exit == /\ server = "up" /\ server' = "down"
        /\ sessions' = {} /\ accepted' = {} /\ websocket' = {}
        /\ outbox' = [n \in Conn |-> IF inbox[n] # <<>> \/ n \in accepted
                                     THEN Append(outbox[n], Fin) ELSE outbox[n]]
        /\ inbox' = [n \in Conn |-> <<>>]
        /\ UNCHANGED table

Poll == \E n \in Conn : \/ Accept(n) \/ (\E u \in Url : HandleHttpEvent(n, u))
                        \/ HandshakeDone(n) \/ HandleFrame(n) \/ HandleClose(n)
=============================================================================
