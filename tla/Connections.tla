----------------------------- MODULE Connections -----------------------------
(***************************************************************************)
(* LimitedTcpIncoming (src/src/limited_incoming.rs): a permit is taken     *)
(* before a connection is accepted, and the connection keeps it until it   *)
(* is closed.  The server polls the stream of connections all the time.    *)
(***************************************************************************)
EXTENDS Integers

CONSTANTS
    MaxConnections,  \* max_connections, at least 1
    MaxBacklog,      \* bound on the clients that wait
    MaxFailures      \* bound on the failures of accept

ASSUME ConnectionsAssumption == MaxConnections \in Nat \ {0}

VARIABLES
    acceptor,   \* accept_state: Idle and WaitingPermit are "permit", WaitingAccept "accept"
    permits,    \* the semaphore
    open,       \* accepted connections (connections, their counter)
    backlog,    \* clients that wait for accept
    failures    \* failures of accept so far

connectionVars == <<acceptor, permits, open, backlog, failures>>

Connects ==
    /\ backlog < MaxBacklog
    /\ backlog' = backlog + 1
    /\ UNCHANGED <<acceptor, permits, open, failures>>

TakePermit ==
    /\ acceptor = "permit" /\ permits > 0
    /\ acceptor' = "accept"
    /\ permits' = permits - 1
    /\ UNCHANGED <<open, backlog, failures>>

\* The permit moves into the CountedTcpStream.
Accept ==
    /\ acceptor = "accept" /\ backlog > 0
    /\ acceptor' = "permit"
    /\ open' = open + 1
    /\ backlog' = backlog - 1
    /\ UNCHANGED <<permits, failures>>

AcceptFails_LosesPermit ==
    /\ acceptor = "accept" /\ failures < MaxFailures
    /\ acceptor' = "permit"
    /\ failures' = failures + 1
    /\ UNCHANGED <<permits, open, backlog>>

\* The permit is dropped with the state.
AcceptFails ==
    /\ acceptor = "accept" /\ failures < MaxFailures
    /\ acceptor' = "permit"
    /\ permits' = permits + 1
    /\ failures' = failures + 1
    /\ UNCHANGED <<open, backlog>>

\* CountedTcpStream::drop.
Closes ==
    /\ open > 0
    /\ open' = open - 1
    /\ permits' = permits + 1
    /\ UNCHANGED <<acceptor, backlog, failures>>

ConnectionsInit ==
    /\ acceptor = "permit" /\ permits = MaxConnections
    /\ open = 0 /\ backlog = 0 /\ failures = 0

ConnectionsNext == Connects \/ TakePermit \/ Accept \/ AcceptFails \/ Closes

\* Whatever fails, and in whatever order connections come and go: every permit
\* is free, with the acceptor or with one open connection, so never more are
\* open than the limit and none is lost.
PermitsConserved ==
    /\ permits + open + (IF acceptor = "accept" THEN 1 ELSE 0) = MaxConnections
    /\ open <= MaxConnections

\* A client in the backlog is accepted while fewer than the limit are open,
\* however often accept has failed before: again and again nobody waits, or all
\* connections are in use, or one is accepted.
WaitingClientAccepted ==
    \/ []<>(backlog = 0 \/ open = MaxConnections)
    \/ []<><<Accept>>_connectionVars
=============================================================================
