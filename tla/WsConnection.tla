---------------------------- MODULE WsConnection ----------------------------
(***************************************************************************)
(* One managed WebSocket connection (exchanges/ws-manager.ts): a socket is *)
(* replaced by a new one, after a delay, whenever it closes abnormally.    *)
(* The back-off changes the delay only, so it is left out.  onerror only   *)
(* logs, and onReconnect is given by no caller.                            *)
(***************************************************************************)
EXTENDS Naturals

CONSTANTS Slots,      \* sockets that may exist at the same time
          None,       \* `ws` before the first socket
          MaxDrops    \* bound: how often the network or the server fails

ASSUME SlotsAssumption == None \notin Slots
ASSUME DropsAssumption == MaxDrops \in Nat

VARIABLES socket,       \* per slot: "none", "connecting", "open" or "closing"
          ws,           \* the slot of the current socket
          intentional,  \* intentionallyClosed
          timer,        \* reconnectTimer is armed
          isConnected,  \* _isConnected
          ordered,      \* history: the server closed with a normal code
          drops         \* how many failures there were

wsVars == <<socket, ws, intentional, timer, isConnected, ordered, drops>>

Live(s) == socket[s] # "none"

\* Where the next socket goes (any slot will do, they are alike).
FreeSlot == CHOOSE s \in Slots : (\A x \in Slots : Live(x)) \/ ~Live(s)
FirstSlot == CHOOSE s \in Slots : TRUE

\* No connection yet.
Unconnected ==
  /\ socket = [s \in Slots |-> "none"] /\ ws = None
  /\ intentional = FALSE /\ timer = FALSE /\ isConnected = FALSE /\ ordered = FALSE

\* open(): the first socket of a connection that was not there before.
Connect ==
  /\ socket' = [x \in Slots |-> IF x = FirstSlot THEN "connecting" ELSE "none"]
  /\ ws' = FirstSlot
  /\ intentional' = FALSE /\ timer' = FALSE
  /\ isConnected' = FALSE /\ ordered' = FALSE
  /\ UNCHANGED drops

\* The process and its sockets are gone.
Disconnect ==
  /\ socket' = [s \in Slots |-> "none"] /\ ws' = None
  /\ intentional' = FALSE /\ timer' = FALSE
  /\ isConnected' = FALSE /\ ordered' = FALSE
  /\ UNCHANGED drops

\* Mutant: onopen does not look at intentionallyClosed.
SocketOpensAnyhow(s) ==
  /\ socket[s] = "connecting"
  /\ socket' = [socket EXCEPT ![s] = "open"]
  /\ isConnected' = TRUE
  /\ UNCHANGED <<ws, intentional, timer, ordered, drops>>

\* onopen: a socket that opens after close() is closed at once.
SocketOpens(s) ==
  /\ socket[s] = "connecting"
  /\ socket' = [socket EXCEPT ![s] = IF intentional THEN "closing" ELSE "open"]
  /\ isConnected' = (isConnected \/ ~intentional)
  /\ UNCHANGED <<ws, intentional, timer, ordered, drops>>

\* onclose after close(): nothing is scheduled any more.
SocketClosed(s) ==
  /\ Live(s) /\ intentional
  /\ socket' = [socket EXCEPT ![s] = "none"]
  /\ isConnected' = FALSE
  /\ UNCHANGED <<ws, intentional, timer, ordered, drops>>

\* Mutant: onclose leaves isConnected alone.
SocketDropsUnnoticed(s) ==
  /\ Live(s) /\ ~intentional /\ drops < MaxDrops
  /\ socket' = [socket EXCEPT ![s] = "none"]
  /\ timer' = TRUE
  /\ drops' = drops + 1
  /\ UNCHANGED <<ws, intentional, isConnected, ordered>>

\* Mutant: only the loss of an established connection schedules a new one.
SocketDropsIfConnected(s) ==
  /\ Live(s) /\ ~intentional /\ drops < MaxDrops
  /\ socket' = [socket EXCEPT ![s] = "none"]
  /\ isConnected' = FALSE
  /\ timer' = isConnected
  /\ drops' = drops + 1
  /\ UNCHANGED <<ws, intentional, ordered>>

\* onclose with an abnormal code: a failed attempt or a lost connection.
SocketDrops(s) ==
  /\ Live(s) /\ ~intentional
  /\ drops < MaxDrops
  /\ socket' = [socket EXCEPT ![s] = "none"]
  /\ isConnected' = FALSE
  /\ timer' = TRUE
  /\ drops' = drops + 1
  /\ UNCHANGED <<ws, intentional, ordered>>

\* onclose with code 1000 or 1001: the server ended the stream in order, and
\* the connection is not made again.
SocketEnds(s) ==
  /\ socket[s] = "open" /\ ~intentional
  /\ drops < MaxDrops
  /\ socket' = [socket EXCEPT ![s] = "none"]
  /\ isConnected' = FALSE
  /\ ordered' = TRUE
  /\ drops' = drops + 1
  /\ UNCHANGED <<ws, intentional, timer>>

\* The reconnect timer: a new socket takes the place of the lost one.
TimerFires ==
  /\ timer
  /\ timer' = FALSE
  /\ IF intentional
     THEN UNCHANGED <<socket, ws>>
     ELSE /\ Live(FreeSlot) = FALSE
          /\ socket' = [socket EXCEPT ![FreeSlot] = "connecting"]
          /\ ws' = FreeSlot
  /\ UNCHANGED <<intentional, isConnected, ordered, drops>>

\* close(): the timer is cleared; an open socket begins its closing
\* handshake, a connecting one may still report that it opened.
Close ==
  /\ intentional' = TRUE
  /\ timer' = FALSE
  /\ isConnected' = FALSE
  /\ socket' = [s \in Slots |-> IF s = ws /\ socket[s] = "open"
                                THEN "closing" ELSE socket[s]]
  /\ UNCHANGED <<ws, ordered, drops>>

\* A connection attempt or a closing handshake gets an answer.
SocketAnswers ==
  \E s \in Slots : /\ socket[s] \in {"connecting", "closing"}
                   /\ SocketOpens(s) \/ SocketClosed(s)

Network == \E s \in Slots : SocketOpens(s) \/ SocketClosed(s) \/ SocketDrops(s)
                            \/ SocketEnds(s)

-----------------------------------------------------------------------------
(***************************************************************************)
(* A connection never has a live socket but `ws`, the one close() can      *)
(* reach; it has none while the reconnect timer is armed; and isConnected, *)
(* which send() trusts, is TRUE only while that socket is open             *)
(* (createSocket, onclose, scheduleReconnect).  Two sockets would deliver  *)
(* every candle twice.                                                     *)
(***************************************************************************)
OneSocket ==
  /\ \A s \in Slots : Live(s) => s = ws
  /\ timer => \A s \in Slots : ~Live(s)
  /\ isConnected => ws \in Slots /\ socket[ws] = "open"

(***************************************************************************)
(* close() gets its way: whatever a connection was doing (connecting,      *)
(* waiting for the timer, open), after close() its sockets go down and     *)
(* none comes back (the checks of intentionallyClosed in onopen, onclose   *)
(* and the timer).                                                         *)
(***************************************************************************)
ClosesDown == intentional ~> (~timer /\ \A s \in Slots : ~Live(s))
=============================================================================
