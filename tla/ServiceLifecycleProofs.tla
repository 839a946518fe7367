------------------------ MODULE ServiceLifecycleProofs ------------------------
(***************************************************************************)
(* Proofs about ServiceLifecycle, for any set of requests.                 *)
(***************************************************************************)
EXTENDS ServiceLifecycle, TLAPS

Begun == {"stopping"} \cup Closing

\* What New has opened when it gets to a step, and what is not there yet.
BootInv ==
    /\ main \in {"openRedis", "key", "gateway"} => db = "open"
    /\ main \in {"key", "gateway"} => rdb = "open"
    /\ main \in Bootstrap \cup {"listen"} => grpcServer = "none" /\ httpServer = "none"

\* A server is stopped by its step of Run and by nothing else, for good.
StopInv ==
    /\ grpcServer = "stopped" => main \in Begun \cup {"exited"}
    /\ main \in Begun => grpcServer = "stopped"
    /\ main \in {"shutting", "GracefulStop"} \cup Begun => httpServer = "closed"

\* Before Run there are no requests; after GracefulStop no handler runs and no
\* gRPC call can start one.
QuietInv ==
    /\ main \in Bootstrap \cup {"listen"} =>
            \A r \in Request : handler[r] = "none" /\ client[r] = "none"
    /\ main \in Closing =>
            \A r \in Request : handler[r] # "running" /\ r \notin Pending({"grpc"})
    /\ Exited => \A r \in Request : handler[r] # "running"

\* Shutdown returns with requests pending only when the 10 seconds are over;
\* and the other causes of a failed request.
CauseInv ==
    /\ conn = "closed" => signalled
    /\ grpcServer = "failed" => grpcFailed
    /\ main \in {"GracefulStop"} \cup Begun =>
            timedOut \/ \A r \in Request : r \notin Pending({"rest", "oidc"})

\* The inductive invariant.
IInv == TypeOK /\ BootInv /\ StopInv /\ QuietInv /\ CauseInv /\ NoRequestDropped

-----------------------------------------------------------------------------

\* The order of Run's last steps, entry by entry.
LEMMA OrderOfSteps ==
    /\ ShutdownOrder["select"] = "Shutdown"
    /\ ShutdownOrder["Shutdown"] = "shutting"
    /\ ShutdownOrder["shutting"] = "GracefulStop"
    /\ ShutdownOrder["GracefulStop"] = "stopping"
    /\ ShutdownOrder["stopping"] = "closeRedis"
    /\ ShutdownOrder["closeRedis"] = "closeMySQL"
    /\ ShutdownOrder["closeMySQL"] = "return"
  BY DEF ShutdownOrder

\* The program starts in the invariant.
LEMMA InitIInv == Init => IInv
  BY DEF Init, IInv, TypeOK, BootInv, StopInv, QuietInv, CauseInv, NoRequestDropped, Kinds,
         Bootstrap, Serving, Stopping, Closing, Begun, Exited, Pending

-----------------------------------------------------------------------------
(* New: there are no requests, and no server to take one.                  *)

\* A step of New keeps the invariant.
LEMMA NewIInv ==
  ASSUME IInv, New
  PROVE  IInv'
<1> USE DEF NewLeaves, Goto, Fatal, stores, servers, requests
<1>1. CASE OpenMySQL
  BY <1>1 DEF OpenMySQL, IInv, TypeOK, BootInv, StopInv, QuietInv, CauseInv, NoRequestDropped,
     Kinds, Bootstrap, Serving, Stopping, Closing, Begun, Exited, Pending
<1>2. CASE OpenRedis
  BY <1>2 DEF OpenRedis, IInv, TypeOK, BootInv, StopInv, QuietInv, CauseInv, NoRequestDropped,
     Kinds, Bootstrap, Serving, Stopping, Closing, Begun, Exited, Pending
<1>3. CASE OpenBoardRedis
  BY <1>3 DEF OpenBoardRedis, IInv, TypeOK, BootInv, StopInv, QuietInv, CauseInv,
     NoRequestDropped, Kinds, Bootstrap, Serving, Stopping, Closing, Begun, Exited, Pending
<1>4. CASE LoadKey
  BY <1>4 DEF LoadKey, IInv, TypeOK, BootInv, StopInv, QuietInv, CauseInv, NoRequestDropped,
     Kinds, Bootstrap, Serving, Stopping, Closing, Begun, Exited, Pending
<1>5. CASE RegisterGateway
  BY <1>5 DEF RegisterGateway, IInv, TypeOK, BootInv, StopInv, QuietInv, CauseInv,
     NoRequestDropped, Kinds, Bootstrap, Serving, Stopping, Closing, Begun, Exited, Pending
<1> QED
  BY <1>1, <1>2, <1>3, <1>4, <1>5 DEF New

-----------------------------------------------------------------------------
(* Run: one step per statement.                                           *)

\* A step of Run keeps the invariant.
LEMMA RunIInv ==
  ASSUME IInv, Run
  PROVE  IInv'
<1> USE DEF RunLeaves, Goto, Fatal, Proceed, ShutdownWaits, GracefulStopWaits, stores, servers, requests
<1>1. CASE Listen
  BY <1>1 DEF Listen, IInv, TypeOK, BootInv, StopInv, QuietInv, CauseInv,
     NoRequestDropped, Kinds, Bootstrap, Serving, Stopping, Closing, Begun, Exited, Pending
<1>2. CASE Select
  <2>1. /\ main = "select" /\ main' = "Shutdown" /\ exit' \in {"ok", "fatal"}
        /\ UNCHANGED <<stores, grpcServer, httpServer, timedOut>> /\ RunLeaves
        /\ errCh' \subseteq errCh
    BY <1>2, OrderOfSteps DEF Select
  <2>2. TypeOK'
    BY <2>1 DEF IInv, TypeOK, Kinds, Bootstrap, Serving, Stopping, Closing, Exited
  <2>3. BootInv' /\ StopInv' /\ QuietInv' /\ CauseInv'
    BY <2>1 DEF IInv, BootInv, StopInv, QuietInv, CauseInv, Bootstrap, Stopping, Closing, Begun,
       Exited, Pending
  <2>4. NoRequestDropped'
    BY <2>1 DEF IInv, NoRequestDropped, Stopping, Closing, Begun, Exited
  <2>5. QED
    BY <2>2, <2>3, <2>4 DEF IInv
<1>3. CASE Shutdown
  BY <1>3, OrderOfSteps DEF Shutdown, IInv, TypeOK, BootInv, StopInv, QuietInv, CauseInv,
     NoRequestDropped, Kinds, Bootstrap, Serving, Stopping, Closing, Begun, Exited, Pending
<1>4. CASE ShutdownReturns
  BY <1>4, OrderOfSteps DEF ShutdownReturns, IInv, TypeOK, BootInv, StopInv, QuietInv, CauseInv,
     NoRequestDropped, Kinds, Bootstrap, Serving, Stopping, Closing, Begun, Exited, Pending
<1>5. CASE GracefulStop
  BY <1>5, OrderOfSteps DEF GracefulStop, IInv, TypeOK, BootInv, StopInv, QuietInv, CauseInv,
     NoRequestDropped, Kinds, Bootstrap, Serving, Stopping, Closing, Begun, Exited, Pending
<1>6. CASE GracefulStopReturns
  BY <1>6, OrderOfSteps DEF GracefulStopReturns, IInv, TypeOK, BootInv, StopInv, QuietInv, CauseInv,
     NoRequestDropped, Kinds, Bootstrap, Serving, Stopping, Closing, Begun, Exited, Pending
<1>7. CASE CloseRedis
  BY <1>7, OrderOfSteps DEF CloseRedis, IInv, TypeOK, BootInv, StopInv, QuietInv, CauseInv,
     NoRequestDropped, Kinds, Bootstrap, Serving, Stopping, Closing, Begun, Exited, Pending
<1>8. CASE CloseMySQL
  BY <1>8, OrderOfSteps DEF CloseMySQL, IInv, TypeOK, BootInv, StopInv, QuietInv, CauseInv,
     NoRequestDropped, Kinds, Bootstrap, Serving, Stopping, Closing, Begun, Exited, Pending
<1>9. CASE Return
  BY <1>9 DEF Return, IInv, TypeOK, BootInv, StopInv, QuietInv, CauseInv,
     NoRequestDropped, Kinds, Bootstrap, Serving, Stopping, Closing, Begun, Exited, Pending
<1> QED
  BY <1>1, <1>2, <1>3, <1>4, <1>5, <1>6, <1>7, <1>8, <1>9 DEF Run

-----------------------------------------------------------------------------
(* The servers, the signal, the connection of the gateway and time.        *)

\* What servers, signals and time do keeps the invariant.
LEMMA ServerIInv ==
  ASSUME IInv, Server \/ Timeout \/ Signal \/ CloseConn
  PROVE  IInv'
<1> USE DEF RunLeaves, stores, servers, requests
<1>1. CASE ServeGRPC
  BY <1>1 DEF ServeGRPC, IInv, TypeOK, BootInv, StopInv, QuietInv, CauseInv,
     NoRequestDropped, Kinds, Bootstrap, Serving, Stopping, Closing, Begun, Exited, Pending
<1>2. CASE ListenAndServe
  BY <1>2 DEF ListenAndServe, IInv, TypeOK, BootInv, StopInv, QuietInv, CauseInv,
     NoRequestDropped, Kinds, Bootstrap, Serving, Stopping, Closing, Begun, Exited, Pending
<1>3. CASE GRPCFails
  BY <1>3 DEF GRPCFails, IInv, TypeOK, BootInv, StopInv, QuietInv, CauseInv,
     NoRequestDropped, Kinds, Bootstrap, Serving, Stopping, Closing, Begun, Exited, Pending
<1>4. CASE HTTPFails
  BY <1>4 DEF HTTPFails, IInv, TypeOK, BootInv, StopInv, QuietInv, CauseInv,
     NoRequestDropped, Kinds, Bootstrap, Serving, Stopping, Closing, Begun, Exited, Pending
<1>5. CASE Timeout
  BY <1>5 DEF Timeout, IInv, TypeOK, BootInv, StopInv, QuietInv, CauseInv,
     NoRequestDropped, Kinds, Bootstrap, Serving, Stopping, Closing, Begun, Exited, Pending
<1>6. CASE Signal
  BY <1>6 DEF Signal, IInv, TypeOK, BootInv, StopInv, QuietInv, CauseInv,
     NoRequestDropped, Kinds, Bootstrap, Serving, Stopping, Closing, Begun, Exited, Pending
<1>7. CASE CloseConn
  BY <1>7 DEF CloseConn, IInv, TypeOK, BootInv, StopInv, QuietInv, CauseInv,
     NoRequestDropped, Kinds, Bootstrap, Serving, Stopping, Closing, Begun, Exited, Pending
<1> QED
  BY <1>1, <1>2, <1>3, <1>4, <1>5, <1>6, <1>7 DEF Server

-----------------------------------------------------------------------------
(* Requests.                                                               *)

\* What becomes of a request keeps the invariant.
LEMMA RequestIInv ==
  ASSUME IInv, NEW r \in Request,
         \/ \E k \in Kinds : Accept(r, k)
         \/ OIDC(r) \/ HandleGRPC(r) \/ Forward(r) \/ GatewayFails(r)
         \/ HandlerReturns(r) \/ Reply(r)
  PROVE  IInv'
<1> USE DEF RequestLeaves, Client, Is, Handle, stores, servers
<1>1. ASSUME NEW k \in Kinds, Accept(r, k) PROVE IInv'
  BY <1>1 DEF Accept, IInv, TypeOK, BootInv, StopInv, QuietInv, CauseInv,
     NoRequestDropped, Kinds, Bootstrap, Serving, Stopping, Closing, Begun, Exited, Pending
<1>2. CASE OIDC(r)
  BY <1>2 DEF OIDC, IInv, TypeOK, BootInv, StopInv, QuietInv, CauseInv,
     NoRequestDropped, Kinds, Bootstrap, Serving, Stopping, Closing, Begun, Exited, Pending
<1>3. CASE HandleGRPC(r)
  BY <1>3 DEF HandleGRPC, IInv, TypeOK, BootInv, StopInv, QuietInv, CauseInv,
     NoRequestDropped, Kinds, Bootstrap, Serving, Stopping, Closing, Begun, Exited, Pending
<1>4. CASE Forward(r)
  BY <1>4 DEF Forward, IInv, TypeOK, BootInv, StopInv, QuietInv, CauseInv,
     NoRequestDropped, Kinds, Bootstrap, Serving, Stopping, Closing, Begun, Exited, Pending
<1>5. CASE GatewayFails(r)
  BY <1>5 DEF GatewayFails, IInv, TypeOK, BootInv, StopInv, QuietInv, CauseInv,
     NoRequestDropped, Kinds, Bootstrap, Serving, Stopping, Closing, Begun, Exited, Pending
<1>6. CASE HandlerReturns(r)
  BY <1>6 DEF HandlerReturns, IInv, TypeOK, BootInv, StopInv, QuietInv, CauseInv,
     NoRequestDropped, Kinds, Bootstrap, Serving, Stopping, Closing, Begun, Exited, Pending
<1>7. CASE Reply(r)
  BY <1>7 DEF Reply, IInv, TypeOK, BootInv, StopInv, QuietInv, CauseInv,
     NoRequestDropped, Kinds, Bootstrap, Serving, Stopping, Closing, Begun, Exited, Pending
<1> QED
  BY <1>1, <1>2, <1>3, <1>4, <1>5, <1>6, <1>7

-----------------------------------------------------------------------------
(* The theorems.                                                           *)

\* What the stages of New and Run, the servers and the requests have to do with
\* each other is an invariant of either service, whatever fails and whenever
\* the signal comes.
THEOREM InvariantTheorem == Spec => []IInv
<1>1. IInv /\ [Next]_vars => IInv'
  <2> SUFFICES ASSUME IInv, [Next]_vars PROVE IInv'
    OBVIOUS
  <2>1. CASE New
    BY <2>1, NewIInv
  <2>2. CASE Run
    BY <2>2, RunIInv
  <2>3. CASE Server \/ Timeout \/ Signal \/ CloseConn
    BY <2>3, ServerIInv
  <2>4. CASE \E r \in Request :
            \/ \E k \in Kinds : Accept(r, k)
            \/ OIDC(r) \/ HandleGRPC(r) \/ Forward(r) \/ GatewayFails(r)
            \/ HandlerReturns(r) \/ Reply(r)
    BY <2>4, RequestIInv
  <2>5. CASE UNCHANGED vars
    BY <2>5 DEF vars, stores, servers, requests, IInv, TypeOK, BootInv, StopInv, QuietInv,
       CauseInv, NoRequestDropped, Kinds, Bootstrap, Serving, Stopping, Closing, Begun, Exited,
       Pending
  <2> QED
    BY <2>1, <2>2, <2>3, <2>4, <2>5 DEF Next
<1> QED
  BY InitIInv, <1>1, PTL DEF Spec

\* TypeOK, and with it that Run never works with a store that New did not open.
THEOREM TypeCorrect == Spec => []TypeOK
<1>1. IInv => TypeOK
  BY DEF IInv
<1> QED
  BY InvariantTheorem, <1>1, PTL

\* No gRPC handler of either service meets a closed pool or is killed half way,
\* for any number of requests.
THEOREM NoUseAfterCloseTheorem == Spec => []NoUseAfterClose
<1>1. IInv => NoUseAfterClose
  BY DEF IInv, TypeOK, QuietInv, NoUseAfterClose, Bootstrap, Serving, Stopping, Closing, Exited
<1> QED
  BY InvariantTheorem, <1>1, PTL

\* A request fails or is lost only for the causes NoRequestDropped names.
THEOREM NoRequestDroppedTheorem == Spec => []NoRequestDropped
<1>1. IInv => NoRequestDropped
  BY DEF IInv
<1> QED
  BY InvariantTheorem, <1>1, PTL
=============================================================================
