------------------------------- MODULE Listener -------------------------------
(***************************************************************************)
(* A listener of a job and the connections it accepts: accept of           *)
(* job/context.go with runTunnel of job/tunnel.go or the SSH server of     *)
(* job/scp.go behind it.  done is the context of the job.  The channel     *)
(* between accept and its receiver is unbuffered: handing over is one step *)
(* of both.                                                                *)
(***************************************************************************)
EXTENDS Naturals, FiniteSets

CONSTANTS Conns, NoConn

VARIABLES
    done,       \* the context has ended
    kind,       \* what listens: "tunnel", "scp"
    listener,   \* "open", "closed"
    acceptor,   \* the goroutine of accept: "accepting", "sending", "ended"
    offer,      \* what it sends: a connection, or NoConn with the error
    server,     \* the loop that receives: "select", "ended"
    conn,       \* a connection: "none", "queued" at the listener, "held" by accept,
                \* "starting" (dialling or shaking hands), "serving", "closed"
    client,     \* the remote end of a connection
    endpoint,   \* what the tunnel dialled for it
    session     \* the channel of an SSH connection: "none", "open", "running" a
                \* transfer, "over"

Ends == {"none", "open", "closed"}

ListenerInit ==
    /\ kind \in {"tunnel", "scp"}
    /\ listener = "open" /\ server = "select"
    /\ acceptor = "accepting" /\ offer = NoConn
    /\ conn = [c \in Conns |-> "none"]
    /\ client = [c \in Conns |-> "none"] /\ endpoint = [c \in Conns |-> "none"]
    /\ session = [c \in Conns |-> "none"]

CloseConn(c) == conn' = [conn EXCEPT ![c] = "closed"]

-----------------------------------------------------------------------------
(* The other ends.                                                         *)

Connect(c) ==
    /\ conn[c] = "none" /\ listener = "open"
    /\ conn' = [conn EXCEPT ![c] = "queued"]
    /\ client' = [client EXCEPT ![c] = "open"]
    /\ UNCHANGED <<done, kind, listener, acceptor, offer, server, endpoint, session>>

ClientCloses(c) ==
    /\ client[c] = "open"
    /\ client' = [client EXCEPT ![c] = "closed"]
    /\ UNCHANGED <<done, kind, listener, acceptor, offer, server, conn, endpoint, session>>

EndpointCloses(c) ==
    /\ endpoint[c] = "open"
    /\ endpoint' = [endpoint EXCEPT ![c] = "closed"]
    /\ UNCHANGED <<done, kind, listener, acceptor, offer, server, conn, client, session>>

\* The network takes the listener down; of a remote one, the end of its connection.
ListenerFails ==
    /\ listener = "open"
    /\ listener' = "closed"
    /\ conn' = [c \in Conns |-> IF conn[c] = "queued" THEN "closed" ELSE conn[c]]
    /\ UNCHANGED <<done, kind, acceptor, offer, server, client, endpoint, session>>

-----------------------------------------------------------------------------
(* accept: the goroutine that accepts, and the one that closes.            *)

AcceptConn(c) ==
    /\ acceptor = "accepting" /\ conn[c] = "queued"
    /\ acceptor' = "sending" /\ offer' = c
    /\ conn' = [conn EXCEPT ![c] = "held"]
    /\ UNCHANGED <<done, kind, listener, server, client, endpoint, session>>

AcceptFails ==
    /\ acceptor = "accepting" /\ listener = "closed"
    /\ acceptor' = "sending" /\ offer' = NoConn
    /\ UNCHANGED <<done, kind, listener, server, conn, client, endpoint, session>>

\* Mutant of CloseListener: the goroutine waits for the receiver as well.
CloseListenerLate ==
    /\ done /\ listener = "open" /\ acceptor = "ended"
    /\ listener' = "closed"
    /\ conn' = [c \in Conns |-> IF conn[c] = "queued" THEN "closed" ELSE conn[c]]
    /\ UNCHANGED <<done, kind, acceptor, offer, server, client, endpoint, session>>

CloseListener ==
    /\ done /\ listener = "open"
    /\ listener' = "closed"
    /\ conn' = [c \in Conns |-> IF conn[c] = "queued" THEN "closed" ELSE conn[c]]
    /\ UNCHANGED <<done, kind, acceptor, offer, server, client, endpoint, session>>

-----------------------------------------------------------------------------
(* The loops of runTunnel and doSCP.                                        *)

\* Mutant of Receive: accept still holds the connection it has handed over.
ReceiveKeeping ==
    /\ server = "select" /\ acceptor = "sending"
    /\ IF offer # NoConn
       THEN /\ conn' = [conn EXCEPT ![offer] = "starting"]
            /\ acceptor' = "accepting" /\ UNCHANGED server
       ELSE /\ server' = "ended" /\ acceptor' = "ended"
            /\ UNCHANGED conn
    /\ UNCHANGED <<done, kind, listener, offer, client, endpoint, session>>

Receive ==
    /\ server = "select" /\ acceptor = "sending"
    /\ IF offer # NoConn
       THEN /\ conn' = [conn EXCEPT ![offer] = "starting"]   \* go ...
            /\ acceptor' = "accepting" /\ UNCHANGED server
       ELSE /\ server' = "ended" /\ acceptor' = "ended"
            /\ UNCHANGED conn
    /\ offer' = NoConn
    /\ UNCHANGED <<done, kind, listener, client, endpoint, session>>

ServerDone ==
    /\ server = "select" /\ done
    /\ server' = "ended"
    /\ UNCHANGED <<done, kind, listener, acceptor, offer, conn, client, endpoint, session>>

-----------------------------------------------------------------------------
(* A connection of a tunnel.  Nothing closes the connection to the          *)
(* endpoint, and the copy towards it ends without a trace.                  *)

Dial(c) ==
    /\ kind = "tunnel" /\ conn[c] = "starting"
    /\ \/ conn' = [conn EXCEPT ![c] = "serving"] /\ endpoint' = [endpoint EXCEPT ![c] = "open"]
       \/ CloseConn(c) /\ UNCHANGED endpoint
    /\ UNCHANGED <<done, kind, listener, acceptor, offer, server, client, session>>

\* copyConn(conn, localConn) reaches the end of the endpoint's data...
CopyEnds(c) ==
    /\ kind = "tunnel" /\ conn[c] = "serving" /\ endpoint[c] = "closed"
    /\ CloseConn(c)
    /\ UNCHANGED <<done, kind, listener, acceptor, offer, server, client, endpoint, session>>

\* ...or has data for a client that is gone.
CopyFails(c) ==
    /\ kind = "tunnel" /\ conn[c] = "serving"
    /\ client[c] = "closed" /\ endpoint[c] = "open"
    /\ CloseConn(c)
    /\ UNCHANGED <<done, kind, listener, acceptor, offer, server, client, endpoint, session>>

-----------------------------------------------------------------------------
(* A connection of the SSH server: handleSSHConnection, serveRequests and   *)
(* handleExecRequest.                                                       *)

\* NewServerConn waits for the client, whatever becomes of the context.
Handshake(c) ==
    /\ kind = "scp" /\ conn[c] = "starting" /\ client[c] = "open"
    /\ conn' \in {[conn EXCEPT ![c] = to] : to \in {"serving", "closed"}}
    /\ UNCHANGED <<done, kind, listener, acceptor, offer, server, client, endpoint, session>>

HandshakeFails(c) ==
    /\ kind = "scp" /\ conn[c] = "starting" /\ client[c] = "closed"
    /\ CloseConn(c)
    /\ UNCHANGED <<done, kind, listener, acceptor, offer, server, client, endpoint, session>>

OpenSession(c) ==
    /\ kind = "scp" /\ conn[c] = "serving" /\ client[c] = "open" /\ session[c] = "none"
    /\ session' = [session EXCEPT ![c] = "open"]
    /\ UNCHANGED <<done, kind, listener, acceptor, offer, server, conn, client, endpoint>>

\* A request that is not for scp, or that comes too late, closes the channel.
ExecRequest(c) ==
    /\ session[c] = "open" /\ conn[c] = "serving" /\ client[c] = "open"
    /\ session' \in {[session EXCEPT ![c] = to] : to \in {"running", "over"}}
    /\ session'[c] = "running" => ~done
    /\ UNCHANGED <<done, kind, listener, acceptor, offer, server, conn, client, endpoint>>

\* The transfer is over, or its channel has gone with the connection.
SessionEnds(c) ==
    /\ session[c] \in {"open", "running"}
    /\ session[c] = "open" => (conn[c] = "closed" \/ done)
    /\ session' = [session EXCEPT ![c] = "over"]
    /\ UNCHANGED <<done, kind, listener, acceptor, offer, server, conn, client, endpoint>>

\* handleSSHConnection returns and closes the connection.
ConnectionEnds(c) ==
    /\ kind = "scp" /\ conn[c] = "serving"
    /\ done \/ client[c] = "closed"
    /\ CloseConn(c)
    /\ UNCHANGED <<done, kind, listener, acceptor, offer, server, client, endpoint, session>>

-----------------------------------------------------------------------------

Acceptor == AcceptFails \/ \E c \in Conns : AcceptConn(c)
Server == Receive \/ ServerDone

\* What the goroutines of a connection do without waiting for its other ends.
ConnProceeds(c) == Dial(c) \/ CopyEnds(c) \/ HandshakeFails(c) \/ ConnectionEnds(c)
SessionProceeds(c) == (session[c] = "running" => conn[c] = "closed") /\ SessionEnds(c)

Peers(c) ==
    \/ Connect(c) \/ ClientCloses(c) \/ EndpointCloses(c) \/ CopyFails(c)
    \/ Handshake(c) \/ OpenSession(c) \/ ExecRequest(c) \/ SessionEnds(c)

ListenerNext ==
    \/ Acceptor \/ Server \/ CloseListener \/ ListenerFails
    \/ \E c \in Conns : ConnProceeds(c) \/ Peers(c)

=============================================================================
