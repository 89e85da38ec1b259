---------------------------- MODULE ConnectionPool ----------------------------
(***************************************************************************)
(* The shared browser connections of pulse-notify, for one server, address  *)
(* and token (packages/pulse-notify/src/connectionPool.ts, wsTransport.ts): *)
(* a pool entry per transport, opened by the first subscriber and closed by *)
(* the last.  An EventSource reconnects by itself after an error; a         *)
(* WebSocket is replaced by a timer its onclose arms.  Sockets are external *)
(* and report in their own time, also after they have been closed.          *)
(***************************************************************************)
EXTENDS Integers, Sequences, FiniteSets

CONSTANTS
    Hooks,       \* the mounted hooks that may subscribe
    Transports,  \* a subset of {"sse", "websocket"}
    MaxConns     \* BOUND on the entries ever made

ASSUME PoolAssumption == Transports \subseteq {"sse", "websocket"} /\ MaxConns \in Nat

VARIABLES
    conns,  \* every ConnectionEntry made, in order
    pool,   \* the number of each transport's entry, or 0
    handle  \* the entry each hook's connection belongs to, or 0

poolVars == <<conns, pool, handle>>

NewEntry(transport) ==
    [transport |-> transport, subscribers |-> {}, socket |-> "connecting", connected |-> FALSE,
     timer |-> FALSE, closedByClient |-> FALSE]

PoolInit ==
    /\ conns = <<>> /\ pool = [t \in Transports |-> 0] /\ handle = [h \in Hooks |-> 0]

-----------------------------------------------------------------------------
Acquire(h, t) ==
    LET fresh == pool[t] = 0
        n == IF fresh THEN Len(conns) + 1 ELSE pool[t]
        made == IF fresh THEN Append(conns, NewEntry(t)) ELSE conns
    IN  /\ handle[h] = 0 /\ n <= MaxConns
        /\ conns' = [made EXCEPT ![n].subscribers = @ \cup {h}]
        /\ pool' = [pool EXCEPT ![t] = n]
        /\ handle' = [handle EXCEPT ![h] = n]

(* close() ends an EventSource at once; a WebSocket says onclose later.      *)
IsLast(n, h) == conns[n].subscribers = {h}

Unsubscribe(h) ==
    LET n == handle[h] IN
    /\ n # 0
    /\ handle' = [handle EXCEPT ![h] = 0]
    /\ LET left == [conns[n] EXCEPT !.subscribers = @ \ {h}] IN
       IF IsLast(n, h)
       THEN /\ conns' = [conns EXCEPT ![n] =
                  [left EXCEPT !.closedByClient = TRUE, !.timer = FALSE,
                               !.socket = IF @ = "closed" \/ left.transport = "sse"
                                          THEN "closed" ELSE "closing"]]
            /\ pool' = [pool EXCEPT ![left.transport] = 0]
       ELSE conns' = [conns EXCEPT ![n] = left] /\ UNCHANGED pool

-----------------------------------------------------------------------------
OnOpen(n) ==
    /\ conns[n].socket = "connecting"
    /\ conns' = [conns EXCEPT ![n].socket = "open", ![n].connected = TRUE]
    /\ UNCHANGED <<pool, handle>>

(* The server says auth_expired, or a WebSocket has its onerror before its   *)
(* onclose; the socket stays.                                                *)
OnAuthExpired(n) ==
    /\ conns[n].socket = "open"
    /\ conns' = [conns EXCEPT ![n].connected = FALSE]
    /\ UNCHANGED <<pool, handle>>

(* An EventSource lost its connection and is getting another, or was refused *)
(* and stays closed; onerror is the same.                                    *)
OnSseError(n) ==
    /\ conns[n].transport = "sse" /\ conns[n].socket \in {"connecting", "open"}
    /\ \E socket \in {"connecting", "closed"} :
          conns' = [conns EXCEPT ![n].socket = socket, ![n].connected = FALSE]
    /\ UNCHANGED <<pool, handle>>

(* scheduleReconnect does nothing for an entry its subscribers have left, or *)
(* that has a timer already.                                                 *)
Reconnects(e) == ~e.closedByClient /\ e.subscribers # {} /\ ~e.timer

AfterClose(e) ==
    [e EXCEPT !.socket = "closed", !.connected = FALSE, !.timer = @ \/ Reconnects(e)]

OnClose(n) ==
    /\ conns[n].transport = "websocket" /\ conns[n].socket # "closed"
    /\ conns' = [conns EXCEPT ![n] = AfterClose(@)]
    /\ UNCHANGED <<pool, handle>>

MutReplaced(e) == [e EXCEPT !.timer = FALSE]
Replaced(e) == [e EXCEPT !.timer = FALSE, !.socket = "connecting"]

ReconnectTimer(n) ==
    /\ conns[n].timer
    /\ conns' = [conns EXCEPT ![n] =
                   IF @.closedByClient \/ @.subscribers = {} THEN [@ EXCEPT !.timer = FALSE]
                   ELSE Replaced(@)]
    /\ UNCHANGED <<pool, handle>>

PoolNext ==
    \/ \E h \in Hooks : Unsubscribe(h) \/ \E t \in Transports : Acquire(h, t)
    \/ \E n \in DOMAIN conns : \/ OnOpen(n) \/ OnAuthExpired(n) \/ OnSseError(n) \/ OnClose(n)
                               \/ ReconnectTimer(n)

PoolSpec == PoolInit /\ [][PoolNext]_poolVars

-----------------------------------------------------------------------------
(* The hooks of one key share one connection: a mounted hook subscribes the  *)
(* entry in the pool, every entry in the pool has a hook, and no other entry *)
(* has a live socket or a timer that would make one.                         *)
OneConnectionShared ==
    /\ \A h \in Hooks : handle[h] # 0 =>
          /\ pool[conns[handle[h]].transport] = handle[h]
          /\ h \in conns[handle[h]].subscribers
    /\ \A n \in DOMAIN conns :
          IF pool[conns[n].transport] = n THEN conns[n].subscribers # {}
          ELSE conns[n].socket \in {"closing", "closed"} /\ ~conns[n].timer

(* A mounted hook is never left without a connection for good: its entry has *)
(* a socket that is open or connecting, or a timer that will make one, or an *)
(* EventSource the server refused, which nothing reopens.                    *)
HooksComeBack ==
    \A h \in Hooks : handle[h] # 0 =>
        \/ conns[handle[h]].socket \in {"connecting", "open"} \/ conns[handle[h]].timer
        \/ conns[handle[h]].transport = "sse"

(* What a hook is shown as connected really is, whatever the order in which  *)
(* the sockets' events come.                                                 *)
ConnectedIsOpen ==
    \A n \in DOMAIN conns : conns[n].connected /\ conns[n].subscribers # {} =>
        conns[n].socket = "open"

(* The mounted hooks of a key share one connection, which comes back when    *)
(* it fails and is shown as what it is.                                      *)
PoolKeepsConnected == OneConnectionShared /\ HooksComeBack /\ ConnectedIsOpen
=============================================================================
