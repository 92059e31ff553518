-------------------------- MODULE WebSocketClient --------------------------
(***************************************************************************)
(* The connection of the web client to the server                          *)
(* (packages/core/api/ws-client.ts), once it has been authenticated for    *)
(* the first time: the events the server has sent and the client has not   *)
(* handled yet, in order, all lost when the connection goes.               *)
(*                                                                         *)
(* The modules of the web client share it; each says what its own handlers *)
(* do with an event and with a reconnection.                               *)
(***************************************************************************)
EXTENDS QueryCache, Sequences

CONSTANTS MaxOps        \* bound: what the user, others and the network do

VARIABLES conn,     \* "up" or "down"; "new" before the first authentication of
                    \* a client that replaces another
          wire,     \* events on their way
          ops       \* bound on the moves of the environment

socketVars == <<conn, wire, ops>>

SocketInit == conn = "up" /\ wire = <<>> /\ ops = 0

Spend == ops < MaxOps /\ ops' = ops + 1

\* The server broadcasts events to the clients it knows.
Send(events) == wire' = IF conn = "up" THEN wire \o events ELSE wire

\* onclose: what was on its way is lost.  The client tries again every three
\* seconds.
Disconnect ==
    /\ conn = "up" /\ Spend
    /\ conn' = "down" /\ wire' = <<>>

\* onAuthenticated of a later connection: the reconnect callbacks run.
Authenticated == conn = "down" /\ conn' = "up" /\ UNCHANGED <<wire, ops>>

\* onmessage: the next event, in the order they were sent.
Deliver == wire # <<>> /\ wire' = Tail(wire) /\ UNCHANGED <<conn, ops>>
===========================================================================
