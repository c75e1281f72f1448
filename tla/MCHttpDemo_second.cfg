SPECIFICATION Spec
CONSTANTS
    c1 = c1
    p1 = p1
    fun1 = fun1
    other = other
    h1 = h1
    h2 = h2
    Client <- MCClient
    Peer   <- MCPeer
    Conn   <- MCConn
    Url = {fun1, other}
    Handler = {h1, h2}
    Builtin = builtin
    MaxReq = 2
    MaxFrames = 2
INVARIANT
    RequestHandled
\* the model stops when every client has made its calls
CHECK_DEADLOCK FALSE
