--------------------------- MODULE ServiceLifecycle ---------------------------
(***************************************************************************)
(* Start and shutdown of one service (cmd/main.go and internal/app/app.go  *)
(* of identity and of board): the main goroutine, the two servers, the     *)
(* connection of the gateway to the gRPC server and the requests on their  *)
(* way when SIGTERM comes or a server fails.  The relay or the consumer,   *)
(* which Run also starts, may stop anywhere in EventPipeline.              *)
(***************************************************************************)
EXTENDS FiniteSets

CONSTANT Request    \* requests; each is made at most once

VARIABLES
    service,        \* which of the two
    main,           \* where main is
    db, rdb,        \* the pools
    exit,           \* how the process ended
    signalled,      \* ctx is done
    conn,           \* the gateway's connection to the gRPC server
    grpcServer, httpServer,
    errCh,          \* the servers whose error waits in errCh
    timedOut,       \* the 10 seconds of shutdownCtx are over
    kind,           \* what a request is: a REST call, an OIDC document or a gRPC call
    client,         \* what the client of a request has
    handler,        \* the gRPC handler of a request
    \* History
    grpcFailed      \* the gRPC server's Serve returned an error

stores == <<db, rdb>>
servers == <<conn, grpcServer, httpServer, errCh, grpcFailed>>
requests == <<kind, client, handler>>
vars == <<service, main, stores, exit, signalled, servers, timedOut, requests>>

Bootstrap == {"openMySQL", "openRedis", "key", "gateway"}
Serving == {"listen", "select"}
Stopping == {"Shutdown", "shutting", "GracefulStop", "stopping"}
Closing == {"closeRedis", "closeMySQL", "return"}

Kinds == {"rest", "grpc"} \cup (IF service = "identity" THEN {"oidc"} ELSE {})

\* The type invariant; whoever gets past New has both stores, until requests
\* can no longer be running.
TypeOK ==
    /\ service \in {"identity", "board"}
    /\ main \in Bootstrap \cup Serving \cup Stopping \cup Closing \cup {"exited"}
    /\ {db, rdb} \subseteq {"none", "open", "closed"}
    /\ exit \in {"none", "ok", "fatal"}
    /\ {signalled, timedOut, grpcFailed} \subseteq BOOLEAN
    /\ conn \in {"none", "open", "closed"}
    /\ grpcServer \in {"none", "up", "failed", "stopped"}
    /\ httpServer \in {"none", "up", "failed", "closed"}
    /\ errCh \subseteq {"grpc", "http"}
    /\ kind \in [Request -> {"none"} \cup Kinds]
    /\ client \in [Request -> {"none", "accepted", "forwarded", "replied", "failed", "lost"}]
    /\ handler \in [Request -> {"none", "running", "done"}]
    /\ main \in Serving \cup Stopping => db = "open" /\ rdb = "open"

Init ==
    /\ service \in {"identity", "board"}
    /\ main = "openMySQL"
    /\ db = "none" /\ rdb = "none"
    /\ exit = "none"
    /\ signalled = FALSE /\ timedOut = FALSE /\ grpcFailed = FALSE
    /\ conn = "none" /\ grpcServer = "none" /\ httpServer = "none" /\ errCh = {}
    /\ kind = [r \in Request |-> "none"]
    /\ client = [r \in Request |-> "none"]
    /\ handler = [r \in Request |-> "none"]

Exited == main = "exited"

-----------------------------------------------------------------------------
(* New: a failed step is fatal.  A ping fails when ctx is done.            *)

Goto(next) == main' = next /\ UNCHANGED exit
Fatal == main' = "exited" /\ exit' = "fatal"

NewLeaves == UNCHANGED <<service, signalled, servers, timedOut, requests>>

OpenMySQL ==
    /\ main = "openMySQL"
    /\ \/ ~signalled /\ db' = "open" /\ Goto("openRedis")
       \/ db' = "closed" /\ Fatal
    /\ UNCHANGED rdb /\ NewLeaves

\* Mutant: the error of the ping is not returned.
OpenRedis_Ignored ==
    /\ main = "openRedis" /\ service = "identity"
    /\ rdb' = "open" \/ UNCHANGED rdb
    /\ Goto("key")
    /\ UNCHANGED db /\ NewLeaves

\* The identity service closes the client whose ping failed.
OpenRedis ==
    /\ main = "openRedis" /\ service = "identity"
    /\ \/ ~signalled /\ rdb' = "open" /\ Goto("key")
       \/ rdb' = "closed" /\ Fatal
    /\ UNCHANGED db /\ NewLeaves

\* The board closes the database instead.
OpenBoardRedis ==
    /\ main = "openRedis" /\ service = "board"
    /\ \/ ~signalled /\ rdb' = "open" /\ Goto("gateway") /\ UNCHANGED db
       \/ db' = "closed" /\ Fatal /\ UNCHANGED rdb
    /\ NewLeaves

LoadKey ==
    /\ main = "key"
    /\ Goto("gateway") \/ Fatal
    /\ UNCHANGED stores /\ NewLeaves

\* NewClient does not connect yet; a goroutine closes conn when ctx is done.
RegisterGateway ==
    /\ main = "gateway"
    /\ \/ conn' = "open" /\ Goto("listen")
       \/ Fatal /\ UNCHANGED conn
    /\ UNCHANGED <<service, stores, signalled, grpcServer, httpServer, errCh, grpcFailed,
                   timedOut, requests>>

Signal ==
    /\ ~signalled /\ ~Exited
    /\ signalled' = TRUE
    /\ UNCHANGED <<service, main, stores, exit, servers, timedOut, requests>>

CloseConn ==
    /\ signalled /\ conn = "open" /\ ~Exited
    /\ conn' = "closed"
    /\ UNCHANGED <<service, main, stores, exit, signalled, grpcServer, httpServer, errCh,
                   grpcFailed, timedOut, requests>>

-----------------------------------------------------------------------------
(* Run.                                                                    *)

RunLeaves == UNCHANGED <<service, signalled, conn, grpcFailed, requests>>

Listen ==
    /\ main = "listen"
    /\ Goto("select") \/ Fatal
    /\ UNCHANGED <<stores, grpcServer, httpServer, errCh, timedOut>> /\ RunLeaves

\* A server comes up some time after Listen, and not after it was stopped.
ServeGRPC ==
    /\ grpcServer = "none" /\ main \in {"select"} \cup Stopping
    /\ grpcServer' = "up"
    /\ UNCHANGED <<main, stores, exit, httpServer, errCh, timedOut>> /\ RunLeaves

ListenAndServe ==
    /\ httpServer = "none" /\ main \in {"select"} \cup Stopping
    /\ httpServer' = "up"
    /\ UNCHANGED <<main, stores, exit, grpcServer, errCh, timedOut>> /\ RunLeaves

\* Accept fails, or the HTTP port is taken.
GRPCFails ==
    /\ grpcServer = "up" /\ ~Exited
    /\ grpcServer' = "failed" /\ grpcFailed' = TRUE
    /\ errCh' = errCh \cup {"grpc"}
    /\ UNCHANGED <<service, main, stores, exit, signalled, conn, httpServer, timedOut, requests>>

HTTPFails ==
    /\ httpServer \in {"none", "up"} /\ main \in {"select"} \cup Stopping
    /\ httpServer' = "failed" /\ errCh' = errCh \cup {"http"}
    /\ UNCHANGED <<main, stores, exit, grpcServer, timedOut>> /\ RunLeaves

\* Mutant: the gRPC server is stopped first.
ShutdownOrder_Swapped ==
    [select |-> "GracefulStop", GracefulStop |-> "stopping", stopping |-> "Shutdown",
     Shutdown |-> "shutting", shutting |-> "closeRedis",
     closeRedis |-> "closeMySQL", closeMySQL |-> "return"]

\* What Run does after what.
ShutdownOrder ==
    [select |-> "Shutdown", Shutdown |-> "shutting", shutting |-> "GracefulStop",
     GracefulStop |-> "stopping", stopping |-> "closeRedis",
     closeRedis |-> "closeMySQL", closeMySQL |-> "return"]

Proceed(step) == main = step /\ main' = ShutdownOrder[step]

\* With both at hand, select takes either; the error becomes Run's result.
Select ==
    /\ Proceed("select")
    /\ \/ signalled /\ exit' = "ok" /\ UNCHANGED errCh
       \/ \E s \in errCh : exit' = "fatal" /\ errCh' = errCh \ {s}
    /\ UNCHANGED <<stores, grpcServer, httpServer, timedOut>> /\ RunLeaves

\* http.Server.Shutdown closes the listener and waits for the requests it has.
Shutdown ==
    /\ Proceed("Shutdown")
    /\ httpServer' = "closed"
    /\ UNCHANGED <<stores, exit, grpcServer, errCh, timedOut>> /\ RunLeaves

Pending(K) == {r \in Request : kind[r] \in K /\ client[r] \in {"accepted", "forwarded"}}

\* Mutant: the context of Shutdown has no deadline.
ShutdownWaits_Forever == Pending({"rest", "oidc"}) # {}

ShutdownWaits == Pending({"rest", "oidc"}) # {} /\ ~timedOut

ShutdownReturns ==
    /\ ~ShutdownWaits
    /\ Proceed("shutting")
    /\ UNCHANGED <<stores, exit, grpcServer, httpServer, errCh, timedOut>> /\ RunLeaves

Timeout ==
    /\ main = "shutting" /\ ~timedOut
    /\ timedOut' = TRUE
    /\ UNCHANGED <<main, stores, exit, grpcServer, httpServer, errCh>> /\ RunLeaves

\* grpc.Server.GracefulStop: no new streams; it waits for those it has.
GracefulStop ==
    /\ Proceed("GracefulStop")
    /\ grpcServer' = "stopped"
    /\ UNCHANGED <<stores, exit, httpServer, errCh, timedOut>> /\ RunLeaves

\* Mutant: Stop, which closes the connections and does not wait for handlers.
GracefulStopWaits_Never == FALSE

\* It also waits for handlers whose caller has gone.
GracefulStopWaits == Pending({"grpc"}) # {} \/ \E r \in Request : handler[r] = "running"

GracefulStopReturns ==
    /\ ~GracefulStopWaits
    /\ Proceed("stopping")
    /\ UNCHANGED <<stores, exit, grpcServer, httpServer, errCh, timedOut>> /\ RunLeaves

CloseRedis ==
    /\ Proceed("closeRedis")
    /\ rdb' = "closed"
    /\ UNCHANGED <<db, exit, grpcServer, httpServer, errCh, timedOut>> /\ RunLeaves

CloseMySQL ==
    /\ Proceed("closeMySQL")
    /\ db' = "closed"
    /\ UNCHANGED <<rdb, exit, grpcServer, httpServer, errCh, timedOut>> /\ RunLeaves

\* main returns, or exits with Run's error; the process takes its sockets along.
Return ==
    /\ main = "return" /\ main' = "exited"
    /\ client' = [r \in Request |-> IF r \in Pending(Kinds) THEN "lost" ELSE client[r]]
    /\ UNCHANGED <<service, stores, exit, signalled, servers, timedOut, kind, handler>>

-----------------------------------------------------------------------------
(* Requests.                                                               *)

Is(r, k, c) == kind[r] = k /\ client[r] = c /\ ~Exited
Client(r, c) == client' = [client EXCEPT ![r] = c]
RequestLeaves == UNCHANGED <<service, main, stores, exit, signalled, servers, timedOut>>

\* A server has the connection, or stream, of a request; its client may take its
\* time to send it, neither server has a read timeout.  So a request that
\* arrives during Shutdown on a connection accepted before is served too.  A
\* connection that sends nothing is no request: Shutdown closes it as idle.
Accept(r, k) ==
    /\ client[r] = "none" /\ ~Exited
    /\ (IF k = "grpc" THEN grpcServer ELSE httpServer) = "up"
    /\ kind' = [kind EXCEPT ![r] = k]
    /\ Client(r, "accepted")
    /\ UNCHANGED handler /\ RequestLeaves

\* The handlers of token/jwks.go use the key in memory only.
OIDC(r) ==
    /\ Is(r, "oidc", "accepted")
    /\ Client(r, "replied")
    /\ UNCHANGED <<kind, handler>> /\ RequestLeaves

Handle(r) ==
    /\ Client(r, "forwarded")
    /\ handler' = [handler EXCEPT ![r] = "running"]
    /\ UNCHANGED kind /\ RequestLeaves

HandleGRPC(r) == Is(r, "grpc", "accepted") /\ Handle(r)

\* The gateway has decoded the body and calls the gRPC server over conn; a
\* server whose Serve failed still serves the connection it has.
Forward(r) ==
    /\ Is(r, "rest", "accepted")
    /\ conn = "open" /\ grpcServer \in {"up", "failed"}
    /\ Handle(r)

\* The call cannot be made, or its connection is closed under it: the client
\* gets an error and a handler that runs goes on running.
GatewayFails(r) ==
    /\ \/ Is(r, "rest", "accepted") /\ (conn = "closed" \/ grpcServer \in {"failed", "stopped"})
       \/ Is(r, "rest", "forwarded") /\ conn = "closed"
    /\ Client(r, "failed")
    /\ UNCHANGED <<kind, handler>> /\ RequestLeaves

HandlerReturns(r) ==
    /\ handler[r] = "running"
    /\ handler' = [handler EXCEPT ![r] = "done"]
    /\ UNCHANGED <<kind, client>> /\ RequestLeaves

Reply(r) ==
    /\ handler[r] = "done"
    /\ Is(r, "grpc", "forwarded") \/ (Is(r, "rest", "forwarded") /\ conn = "open")
    /\ Client(r, "replied")
    /\ UNCHANGED <<kind, handler>> /\ RequestLeaves

-----------------------------------------------------------------------------

New == OpenMySQL \/ OpenRedis \/ OpenBoardRedis \/ LoadKey \/ RegisterGateway

Run ==
    \/ Listen \/ Select
    \/ Shutdown \/ ShutdownReturns
    \/ GracefulStop \/ GracefulStopReturns
    \/ CloseRedis \/ CloseMySQL \/ Return

Server == ServeGRPC \/ ListenAndServe \/ GRPCFails \/ HTTPFails

Next ==
    \/ New \/ Run \/ Server \/ Timeout \/ Signal \/ CloseConn
    \/ \E r \in Request :
        \/ \E k \in Kinds : Accept(r, k)
        \/ OIDC(r) \/ HandleGRPC(r) \/ Forward(r) \/ GatewayFails(r)
        \/ HandlerReturns(r) \/ Reply(r)

\* main runs, time passes, handlers return and a gRPC client sends the message
\* of the call it opened; an HTTP client may never send its body.
Fairness ==
    /\ WF_vars(New \/ Run) /\ WF_vars(Timeout)
    /\ \A r \in Request : WF_vars(HandleGRPC(r)) /\ WF_vars(HandlerReturns(r)) /\ WF_vars(Reply(r))

Spec == Init /\ [][Next]_vars
FairSpec == Spec /\ Fairness

-----------------------------------------------------------------------------
(* Properties.                                                             *)

\* A handler never finds a pool closed and is never killed half way: Run
\* closes the pools and returns when the last handler has returned, those
\* whose client the gateway has given up on included.
NoUseAfterClose ==
    \A r \in Request : handler[r] = "running" => db = "open" /\ rdb = "open" /\ ~Exited

\* Whose request was accepted gets an answer.  Only a REST call may get the
\* gateway's error, and only if ctx was cancelled, the gRPC server failed or
\* the 10 seconds ran out; only an HTTP client that outlasts the 10 seconds may
\* get nothing.
NoRequestDropped ==
    \A r \in Request :
        /\ client[r] = "failed" =>
                kind[r] = "rest" /\ (signalled \/ grpcFailed \/ timedOut)
        /\ client[r] = "lost" => kind[r] # "grpc" /\ timedOut

\* After SIGTERM the process ends, however slow an HTTP client is.
ShutdownEnds == signalled ~> Exited
=============================================================================
