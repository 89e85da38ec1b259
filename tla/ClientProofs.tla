----------------------------- MODULE ClientProofs -----------------------------
(***************************************************************************)
(* The clients of the system, each for every value of its constants.  In    *)
(* the browser: the hooks of a page share the connection of a key and get   *)
(* it back, a suspense resource nobody uses is released, an event hook      *)
(* follows its stream, and a state hook shows the entry its last fetch      *)
(* read.  Of the registry: those who publish with one key keep what they    *)
(* promise, the verification leaves no contract out and no change untold,   *)
(* and who reads page by page reads the whole list.  The composition of the *)
(* services keeps all of it.                                                *)
(***************************************************************************)
EXTENDS MCServices, WorkerProofs, FiniteSetTheorems, TLAPS

-----------------------------------------------------------------------------
(* ConnectionPool                                                            *)

PoolEntries ==
    [transport: Transports, subscribers: SUBSET Hooks,
     socket: {"connecting", "open", "closing", "closed"}, connected: BOOLEAN,
     timer: BOOLEAN, closedByClient: BOOLEAN]

(* An entry in the pool has a subscriber and a connection that comes back;   *)
(* an entry its last subscriber left has nothing that would.                 *)
Serves(e) ==
    /\ e.subscribers # {} /\ ~e.closedByClient
    /\ \/ e.socket \in {"connecting", "open"}
       \/ e.socket = "closed" /\ (e.timer \/ e.transport = "sse")
    /\ e.connected => e.socket = "open"
    /\ e.timer => e.socket = "closed"

Retired(e) ==
    /\ e.subscribers = {} /\ e.closedByClient /\ e.socket \in {"closing", "closed"} /\ ~e.timer

PoolTyped ==
    /\ conns \in Seq(PoolEntries)
    /\ pool \in [Transports -> Nat] /\ handle \in [Hooks -> Nat]

PoolInv ==
    /\ PoolTyped
    /\ \A n \in DOMAIN conns : IF pool[conns[n].transport] = n THEN Serves(conns[n])
                               ELSE Retired(conns[n])
    /\ \A t \in Transports : pool[t] # 0 => /\ pool[t] \in DOMAIN conns
                                            /\ conns[pool[t]].transport = t
    /\ \A h \in Hooks : handle[h] # 0 => handle[h] \in DOMAIN conns
    /\ \A n \in DOMAIN conns : \A h \in Hooks : h \in conns[n].subscribers <=> handle[h] = n

(* What an event of a socket does to its entry.                              *)
LEMMA SocketEvent ==
    ASSUME PoolInv, NEW n \in DOMAIN conns, NEW e \in PoolEntries,
           conns' = [conns EXCEPT ![n] = e], UNCHANGED <<pool, handle>>,
           e.transport = conns[n].transport, e.subscribers = conns[n].subscribers,
           Serves(conns[n]) => Serves(e), Retired(conns[n]) => Retired(e)
    PROVE  PoolInv'
<1>1. conns \in Seq(PoolEntries) /\ n \in 1..Len(conns) /\ Len(conns) \in Nat
  BY DEF PoolInv, PoolTyped
<1>2. conns' \in Seq(PoolEntries) /\ Len(conns') = Len(conns)
  BY <1>1
<1>3. DOMAIN conns' = DOMAIN conns /\ conns'[n] = e
      /\ \A m \in DOMAIN conns : m # n => conns'[m] = conns[m]
  BY <1>1
<1>4. PoolTyped'
  BY <1>2 DEF PoolInv, PoolTyped
<1>5. ASSUME NEW m \in DOMAIN conns'
      PROVE  /\ IF pool'[conns'[m].transport] = m THEN Serves(conns'[m]) ELSE Retired(conns'[m])
             /\ \A h \in Hooks : h \in conns'[m].subscribers <=> handle'[h] = m
  <2>1. CASE m = n
    BY <1>3, <2>1 DEF PoolInv
  <2>2. CASE m # n
    BY <1>3, <1>5, <2>2 DEF PoolInv
  <2> QED BY <2>1, <2>2
<1>6. \A t \in Transports : pool'[t] # 0 => /\ pool'[t] \in DOMAIN conns'
                                            /\ conns'[pool'[t]].transport = t
  BY <1>3 DEF PoolInv
<1>7. \A h \in Hooks : handle'[h] # 0 => handle'[h] \in DOMAIN conns'
  BY <1>3 DEF PoolInv
<1> QED BY <1>4, <1>5, <1>6, <1>7 DEF PoolInv

(* What the sockets and the reconnect timer do keeps the pool in order.      *)
LEMMA SocketsKeep ==
    ASSUME PoolInv, NEW n \in DOMAIN conns,
           OnOpen(n) \/ OnAuthExpired(n) \/ OnSseError(n) \/ OnClose(n) \/ ReconnectTimer(n)
    PROVE  PoolInv'
<1>1. PICK c \in PoolEntries : c = conns[n]
  BY DEF PoolInv, PoolTyped
<1>2. Serves(c) \/ Retired(c)
  BY <1>1 DEF PoolInv
<1>3. CASE OnOpen(n)
  <2>1. PICK e : e = [c EXCEPT !.socket = "open", !.connected = TRUE]
    OBVIOUS
  <2>2. e \in PoolEntries /\ e.transport = c.transport /\ e.subscribers = c.subscribers
    BY <2>1 DEF PoolEntries
  <2>3. c.socket = "connecting" /\ conns' = [conns EXCEPT ![n] = e] /\ UNCHANGED <<pool, handle>>
    BY <1>1, <1>3, <2>1 DEF OnOpen
  <2>4. (Serves(c) => Serves(e)) /\ ~Retired(c)
    BY <2>1, <2>3 DEF Serves, Retired, PoolEntries
  <2> QED BY <1>1, <2>2, <2>3, <2>4, SocketEvent
<1>4. CASE OnAuthExpired(n)
  <2>1. PICK e : e = [c EXCEPT !.connected = FALSE]
    OBVIOUS
  <2>2. e \in PoolEntries /\ e.transport = c.transport /\ e.subscribers = c.subscribers
    BY <2>1 DEF PoolEntries
  <2>3. c.socket = "open" /\ conns' = [conns EXCEPT ![n] = e] /\ UNCHANGED <<pool, handle>>
    BY <1>1, <1>4, <2>1 DEF OnAuthExpired
  <2>4. (Serves(c) => Serves(e)) /\ ~Retired(c)
    BY <2>1, <2>3 DEF Serves, Retired, PoolEntries
  <2> QED BY <1>1, <2>2, <2>3, <2>4, SocketEvent
<1>5. CASE OnSseError(n)
  <2>1. PICK s \in {"connecting", "closed"} :
           conns' = [conns EXCEPT ![n].socket = s, ![n].connected = FALSE]
    BY <1>5 DEF OnSseError
  <2>2. PICK e : e = [c EXCEPT !.socket = s, !.connected = FALSE]
    OBVIOUS
  <2>3. e \in PoolEntries /\ e.transport = c.transport /\ e.subscribers = c.subscribers
    BY <2>2 DEF PoolEntries
  <2>4. /\ c.socket \in {"connecting", "open"} /\ c.transport = "sse"
        /\ conns' = [conns EXCEPT ![n] = e] /\ UNCHANGED <<pool, handle>>
    BY <1>1, <1>5, <2>1, <2>2 DEF OnSseError
  <2>5. (Serves(c) => Serves(e)) /\ ~Retired(c)
    BY <2>2, <2>4 DEF Serves, Retired, PoolEntries
  <2> QED BY <1>1, <2>3, <2>4, <2>5, SocketEvent
<1>6. CASE OnClose(n)
  <2>1. PICK e : e = AfterClose(c)
    OBVIOUS
  <2>2. /\ e \in PoolEntries /\ e.transport = c.transport /\ e.subscribers = c.subscribers
        /\ e.socket = "closed" /\ e.connected = FALSE /\ e.closedByClient = c.closedByClient
        /\ e.timer = (c.timer \/ Reconnects(c))
    BY <2>1 DEF PoolEntries, AfterClose
  <2>3. c.socket # "closed" /\ conns' = [conns EXCEPT ![n] = e] /\ UNCHANGED <<pool, handle>>
    BY <1>1, <1>6, <2>1 DEF OnClose
  <2>4. ASSUME Serves(c) PROVE Serves(e)
    <3>1. ~c.timer /\ Reconnects(c)
      BY <2>3, <2>4 DEF Serves, Reconnects
    <3>2. e.timer
      BY <2>2, <3>1
    <3> QED BY <2>2, <2>4, <3>2 DEF Serves
  <2>5. ASSUME Retired(c) PROVE Retired(e)
    <3>1. ~e.timer
      BY <2>2, <2>5 DEF Retired, Reconnects
    <3> QED BY <2>2, <2>5, <3>1 DEF Retired
  <2> QED BY <1>1, <2>2, <2>3, <2>4, <2>5, SocketEvent
<1>7. CASE ReconnectTimer(n)
  <2>1. c.timer /\ Serves(c)
    BY <1>1, <1>2, <1>7 DEF ReconnectTimer, Retired
  <2>2. PICK e : e = Replaced(c)
    OBVIOUS
  <2>3. /\ e \in PoolEntries /\ e.transport = c.transport /\ e.subscribers = c.subscribers
        /\ e.socket = "connecting" /\ e.connected = c.connected /\ ~e.timer
        /\ e.closedByClient = c.closedByClient
    BY <2>2 DEF PoolEntries, Replaced
  <2>4. conns' = [conns EXCEPT ![n] = e] /\ UNCHANGED <<pool, handle>>
    BY <1>1, <1>7, <2>1, <2>2 DEF ReconnectTimer, Serves
  <2>5. Serves(e) /\ ~Retired(c)
    BY <2>1, <2>3 DEF Serves, Retired
  <2> QED BY <1>1, <2>3, <2>4, <2>5, SocketEvent
<1> QED BY <1>3, <1>4, <1>5, <1>6, <1>7

(* The first subscriber makes the entry, the others join it.                 *)
LEMMA AcquireKeeps ==
    ASSUME PoolInv, NEW h \in Hooks, NEW t \in Transports, Acquire(h, t)
    PROVE  PoolInv'
<1>1. PoolTyped /\ Len(conns) \in Nat /\ DOMAIN conns = 1..Len(conns)
  BY DEF PoolInv, PoolTyped
<1>2. PICK n, made : /\ n = IF pool[t] = 0 THEN Len(conns) + 1 ELSE pool[t]
                     /\ made = IF pool[t] = 0 THEN Append(conns, NewEntry(t)) ELSE conns
  OBVIOUS
<1>3. /\ handle[h] = 0
      /\ conns' = [made EXCEPT ![n].subscribers = @ \cup {h}]
      /\ pool' = [pool EXCEPT ![t] = n]
      /\ handle' = [handle EXCEPT ![h] = n]
  BY <1>2 DEF Acquire
<1>4. NewEntry(t) \in PoolEntries
  BY DEF NewEntry, PoolEntries
<1>5. /\ made \in Seq(PoolEntries) /\ n \in DOMAIN made /\ DOMAIN conns \subseteq DOMAIN made
      /\ \A m \in DOMAIN conns : made[m] = conns[m]
      /\ DOMAIN made = DOMAIN conns \cup {n} /\ n \in Nat /\ n # 0
      /\ n \notin DOMAIN conns <=> pool[t] = 0
  <2>1. CASE pool[t] = 0
    BY <1>1, <1>2, <1>4, <2>1 DEF PoolTyped
  <2>2. CASE pool[t] # 0
    BY <1>1, <1>2, <2>2 DEF PoolInv, PoolTyped
  <2> QED BY <2>1, <2>2
<1>6. PICK c \in PoolEntries : c = made[n]
  BY <1>5
<1>7. /\ c.transport = t /\ h \notin c.subscribers
      /\ \A g \in Hooks : g \in c.subscribers <=> handle[g] = n
      /\ Serves([c EXCEPT !.subscribers = @ \cup {h}])
  <2>1. CASE pool[t] = 0
    <3>1. c = NewEntry(t)
      BY <1>1, <1>2, <1>4, <1>6, <2>1 DEF PoolTyped
    <3>2. \A g \in Hooks : handle[g] # n
      BY <1>5, <2>1 DEF PoolInv
    <3>3. c.subscribers = {} /\ c.transport = t
      BY <3>1 DEF NewEntry
    <3>4. Serves([c EXCEPT !.subscribers = @ \cup {h}])
      BY <3>1 DEF NewEntry, Serves
    <3> QED BY <3>2, <3>3, <3>4
  <2>2. CASE pool[t] # 0
    <3>1. n = pool[t] /\ n \in DOMAIN conns /\ c = conns[n]
      BY <1>2, <1>6, <2>2 DEF PoolInv
    <3>2. c.transport = t /\ Serves(c) /\ \A g \in Hooks : g \in c.subscribers <=> handle[g] = n
      BY <2>2, <3>1 DEF PoolInv
    <3>3. Serves([c EXCEPT !.subscribers = @ \cup {h}])
      BY <3>2 DEF Serves, PoolEntries
    <3> QED BY <1>3, <1>5, <3>2, <3>3
  <2> QED BY <2>1, <2>2
<1>8. PICK e : e = [c EXCEPT !.subscribers = @ \cup {h}]
  OBVIOUS
<1>9. /\ e \in PoolEntries /\ e.subscribers = c.subscribers \cup {h} /\ e.transport = t
      /\ Serves(e)
  BY <1>7, <1>8 DEF PoolEntries
<1>10. /\ conns' \in Seq(PoolEntries) /\ DOMAIN conns' = DOMAIN made /\ conns'[n] = e
       /\ \A m \in DOMAIN conns : m # n => conns'[m] = conns[m]
  <2>1. conns' = [made EXCEPT ![n] = e]
    BY <1>3, <1>6, <1>8
  <2>2. Len(made) \in Nat /\ DOMAIN made = 1..Len(made)
    BY <1>5
  <2>3. conns' \in Seq(PoolEntries)
    BY <1>5, <1>9, <2>1, <2>2
  <2> QED BY <1>5, <2>1, <2>3
<1>11. /\ pool' \in [Transports -> Nat] /\ handle' \in [Hooks -> Nat]
       /\ pool'[t] = n /\ (\A u \in Transports : u # t => pool'[u] = pool[u])
       /\ handle'[h] = n /\ (\A g \in Hooks : g # h => handle'[g] = handle[g])
  BY <1>1, <1>3, <1>5 DEF PoolTyped
<1>12. ASSUME NEW m \in DOMAIN conns'
       PROVE  /\ IF pool'[conns'[m].transport] = m THEN Serves(conns'[m]) ELSE Retired(conns'[m])
              /\ \A g \in Hooks : g \in conns'[m].subscribers <=> handle'[g] = m
  <2>1. CASE m = n
    <3>1. Serves(conns'[m]) /\ pool'[conns'[m].transport] = m
      BY <1>9, <1>10, <1>11, <2>1
    <3>2. \A g \in Hooks : g \in conns'[m].subscribers <=> handle'[g] = m
      BY <1>7, <1>9, <1>10, <1>11, <2>1
    <3> QED BY <3>1, <3>2
  <2>2. CASE m # n
    <3>1. m \in DOMAIN conns /\ conns'[m] = conns[m] /\ conns[m].transport \in Transports
      <4>1. m \in DOMAIN conns /\ conns'[m] = conns[m]
        BY <1>5, <1>10, <1>12, <2>2
      <4>2. conns[m] \in PoolEntries
        BY <1>1, <4>1 DEF PoolTyped
      <4> QED BY <4>1, <4>2 DEF PoolEntries
    <3>2. \A g \in Hooks : g \in conns'[m].subscribers <=> handle'[g] = m
      BY <1>3, <1>1, <1>11, <2>2, <3>1 DEF PoolInv
    <3>3. pool'[conns[m].transport] = m <=> pool[conns[m].transport] = m
      BY <1>1, <1>2, <1>11, <2>2, <3>1
    <3> QED BY <3>1, <3>2, <3>3 DEF PoolInv
  <2> QED BY <2>1, <2>2
<1>13. ASSUME NEW u \in Transports, pool'[u] # 0
       PROVE  pool'[u] \in DOMAIN conns' /\ conns'[pool'[u]].transport = u
  <2>1. CASE u = t
    BY <1>5, <1>9, <1>10, <1>11, <2>1
  <2>2. CASE u # t
    <3>1. pool'[u] = pool[u] /\ pool[u] \in DOMAIN conns /\ conns[pool[u]].transport = u
      BY <1>11, <1>13, <2>2 DEF PoolInv
    <3>2. pool[u] # n
      BY <1>5, <1>6, <1>7, <2>2, <3>1
    <3> QED BY <1>5, <1>10, <3>1, <3>2
  <2> QED BY <2>1, <2>2
<1>14. \A g \in Hooks : handle'[g] # 0 => handle'[g] \in DOMAIN conns'
  BY <1>5, <1>10, <1>11 DEF PoolInv
<1> QED BY <1>10, <1>11, <1>12, <1>13, <1>14 DEF PoolInv, PoolTyped

(* The last subscriber closes the entry, whatever its socket says later.     *)
LEMMA UnsubscribeKeeps ==
    ASSUME PoolInv, NEW h \in Hooks, Unsubscribe(h)
    PROVE  PoolInv'
<1>1. PoolTyped /\ Len(conns) \in Nat /\ DOMAIN conns = 1..Len(conns)
  BY DEF PoolInv, PoolTyped
<1>2. PICK n : n = handle[h]
  OBVIOUS
<1>3. n # 0 /\ n \in DOMAIN conns /\ handle' = [handle EXCEPT ![h] = 0]
  BY <1>2 DEF Unsubscribe, PoolInv
<1>4. PICK c \in PoolEntries : c = conns[n]
  BY <1>1, <1>3 DEF PoolTyped
<1>5. /\ h \in c.subscribers /\ Serves(c) /\ pool[c.transport] = n /\ c.transport \in Transports
      /\ \A g \in Hooks : g \in c.subscribers <=> handle[g] = n
  BY <1>2, <1>3, <1>4 DEF PoolInv, Retired, PoolEntries
<1>6. handle' \in [Hooks -> Nat] /\ handle'[h] = 0 /\ \A g \in Hooks : g # h => handle'[g] = handle[g]
  BY <1>1, <1>3 DEF PoolTyped
<1>7. PICK left : left = [c EXCEPT !.subscribers = @ \ {h}]
  OBVIOUS
<1>8. /\ left \in PoolEntries /\ left.subscribers = c.subscribers \ {h}
      /\ left.transport = c.transport /\ left.socket = c.socket /\ left.connected = c.connected
      /\ left.timer = c.timer /\ left.closedByClient = c.closedByClient
  BY <1>7 DEF PoolEntries
<1>9. PICK e : IF IsLast(n, h)
               THEN e = [left EXCEPT !.closedByClient = TRUE, !.timer = FALSE,
                                     !.socket = IF @ = "closed" \/ left.transport = "sse"
                                                THEN "closed" ELSE "closing"]
               ELSE e = left
  OBVIOUS
<1>10. /\ conns' = [conns EXCEPT ![n] = e]
       /\ pool' = IF IsLast(n, h) THEN [pool EXCEPT ![c.transport] = 0] ELSE pool
  BY <1>2, <1>4, <1>7, <1>8, <1>9 DEF Unsubscribe
<1>11. /\ e \in PoolEntries /\ e.subscribers = c.subscribers \ {h} /\ e.transport = c.transport
       /\ IF IsLast(n, h) THEN Retired(e) ELSE Serves(e)
  <2>1. CASE IsLast(n, h)
    <3>1. c.subscribers \ {h} = {}
      BY <1>4, <2>1 DEF IsLast
    <3>2. /\ e \in PoolEntries /\ e.subscribers = left.subscribers /\ e.transport = left.transport
          /\ e.closedByClient = TRUE /\ e.timer = FALSE /\ e.socket \in {"closed", "closing"}
      BY <1>8, <1>9, <2>1 DEF PoolEntries
    <3> QED BY <1>8, <2>1, <3>1, <3>2 DEF Retired
  <2>2. CASE ~IsLast(n, h)
    <3>1. c.subscribers \ {h} # {}
      BY <1>4, <1>5, <2>2 DEF IsLast
    <3> QED BY <1>5, <1>8, <1>9, <2>2, <3>1 DEF Serves
  <2> QED BY <2>1, <2>2
<1>12. /\ conns' \in Seq(PoolEntries) /\ DOMAIN conns' = DOMAIN conns /\ conns'[n] = e
       /\ \A m \in DOMAIN conns : m # n => conns'[m] = conns[m]
  BY <1>1, <1>3, <1>10, <1>11 DEF PoolTyped
<1>13. /\ pool' \in [Transports -> Nat]
       /\ pool'[c.transport] = IF IsLast(n, h) THEN 0 ELSE n
       /\ \A u \in Transports : u # c.transport => pool'[u] = pool[u]
  BY <1>1, <1>5, <1>10 DEF PoolTyped
<1>14. ASSUME NEW m \in DOMAIN conns'
       PROVE  /\ IF pool'[conns'[m].transport] = m THEN Serves(conns'[m]) ELSE Retired(conns'[m])
              /\ \A g \in Hooks : g \in conns'[m].subscribers <=> handle'[g] = m
  <2>1. CASE m = n
    <3>1. \A g \in Hooks : g \in conns'[m].subscribers <=> handle'[g] = m
      BY <1>3, <1>5, <1>6, <1>11, <1>12, <2>1
    <3>2. IF pool'[conns'[m].transport] = m THEN Serves(conns'[m]) ELSE Retired(conns'[m])
      BY <1>3, <1>11, <1>12, <1>13, <2>1
    <3> QED BY <3>1, <3>2
  <2>2. CASE m # n
    <3>1. m \in DOMAIN conns /\ conns'[m] = conns[m] /\ conns[m].transport \in Transports /\ m # 0
      <4>1. m \in DOMAIN conns /\ conns'[m] = conns[m] /\ m # 0
        BY <1>1, <1>12, <1>14, <2>2
      <4>2. conns[m] \in PoolEntries
        BY <1>1, <4>1 DEF PoolTyped
      <4> QED BY <4>1, <4>2 DEF PoolEntries
    <3>2. \A g \in Hooks : g \in conns'[m].subscribers <=> handle'[g] = m
      BY <1>2, <1>6, <2>2, <3>1 DEF PoolInv
    <3>3. pool'[conns[m].transport] = m <=> pool[conns[m].transport] = m
      BY <1>5, <1>13, <2>2, <3>1
    <3> QED BY <3>1, <3>2, <3>3 DEF PoolInv
  <2> QED BY <2>1, <2>2
<1>15. ASSUME NEW u \in Transports, pool'[u] # 0
       PROVE  pool'[u] \in DOMAIN conns' /\ conns'[pool'[u]].transport = u
  <2>1. pool'[u] = pool[u]
    BY <1>5, <1>13, <1>15
  <2>2. pool[u] \in DOMAIN conns /\ conns[pool[u]].transport = u
    BY <1>15, <2>1 DEF PoolInv
  <2> QED BY <1>4, <1>11, <1>12, <2>1, <2>2
<1>16. \A g \in Hooks : handle'[g] # 0 => handle'[g] \in DOMAIN conns'
  BY <1>6, <1>12 DEF PoolInv
<1> QED BY <1>6, <1>12, <1>13, <1>14, <1>15, <1>16 DEF PoolInv, PoolTyped

(* For every number of hooks: the mounted hooks of a key share one entry,    *)
(* whose connection comes back and is shown as what it is, and an entry that *)
(* was left has neither a live socket nor a timer.                           *)
THEOREM PoolIsShared == PoolSpec => []PoolKeepsConnected
<1>1. PoolInit => PoolInv
  <2> SUFFICES ASSUME PoolInit PROVE PoolInv
    OBVIOUS
  <2>1. conns = <<>> /\ DOMAIN conns = {} /\ conns \in Seq(PoolEntries)
    BY DEF PoolInit
  <2>2. pool \in [Transports -> Nat] /\ handle \in [Hooks -> Nat]
        /\ (\A t \in Transports : pool[t] = 0) /\ (\A h \in Hooks : handle[h] = 0)
    BY DEF PoolInit
  <2> QED BY <2>1, <2>2 DEF PoolInv, PoolTyped
<1>2. PoolInv /\ [PoolNext]_poolVars => PoolInv'
  <2> SUFFICES ASSUME PoolInv, [PoolNext]_poolVars PROVE PoolInv'
    OBVIOUS
  <2>1. CASE UNCHANGED poolVars
    BY <2>1 DEF poolVars, PoolInv, PoolTyped
  <2>2. ASSUME NEW h \in Hooks, Unsubscribe(h) \/ \E t \in Transports : Acquire(h, t)
        PROVE  PoolInv'
    BY <2>2, UnsubscribeKeeps, AcquireKeeps
  <2>3. ASSUME NEW n \in DOMAIN conns,
               OnOpen(n) \/ OnAuthExpired(n) \/ OnSseError(n) \/ OnClose(n) \/ ReconnectTimer(n)
        PROVE  PoolInv'
    BY <2>3, SocketsKeep
  <2> QED BY <2>1, <2>2, <2>3 DEF PoolNext
<1>3. PoolInv => PoolKeepsConnected
  <2> SUFFICES ASSUME PoolInv PROVE PoolKeepsConnected
    OBVIOUS
  <2>1. ASSUME NEW h \in Hooks, handle[h] # 0
        PROVE  /\ handle[h] \in DOMAIN conns /\ Serves(conns[handle[h]])
               /\ pool[conns[handle[h]].transport] = handle[h]
               /\ h \in conns[handle[h]].subscribers
    BY <2>1 DEF PoolInv, Retired
  <2>2. OneConnectionShared
    BY <2>1 DEF PoolInv, OneConnectionShared, Serves, Retired
  <2>3. HooksComeBack
    BY <2>1 DEF HooksComeBack, Serves
  <2>4. ConnectedIsOpen
    BY DEF PoolInv, ConnectedIsOpen, Serves, Retired
  <2> QED BY <2>2, <2>3, <2>4 DEF PoolKeepsConnected
<1> QED BY <1>1, <1>2, <1>3, PTL DEF PoolSpec

-----------------------------------------------------------------------------
-----------------------------------------------------------------------------
(* SuspenseResource                                                          *)

Resources == [ready: BOOLEAN, refCount: Nat, subscribed: BOOLEAN, releaseTimer: BOOLEAN]

CommittedTo(n) == {c \in Consumers : consumer[c] = [at |-> "committed", entry |-> n]}

SuspenseTyped ==
    /\ resources \in Seq(Resources) /\ cached \in Nat
    /\ consumer \in [Consumers -> [at: {"out", "suspended", "rendered", "committed"}, entry: Nat]]

EntryCounted(n) ==
    /\ resources[n].refCount = Cardinality(CommittedTo(n))
    /\ resources[n].subscribed <=> CommittedTo(n) # {} \/ resources[n].releaseTimer
    /\ resources[n].subscribed <=> cached = n

SuspenseInv ==
    /\ SuspenseTyped
    /\ cached # 0 => cached \in DOMAIN resources
    /\ \A c \in Consumers : consumer[c].at = "committed" /\ consumer[c].entry # 0 =>
                                consumer[c].entry \in DOMAIN resources
    /\ \A n \in DOMAIN resources : EntryCounted(n)

(* The committed consumers are finitely many.                                *)
LEMMA CommittedFinite ==
    ASSUME NEW n
    PROVE  IsFiniteSet(CommittedTo(n)) /\ Cardinality(CommittedTo(n)) \in Nat
<1>1. CommittedTo(n) \subseteq Consumers /\ IsFiniteSet(Consumers)
  BY SuspenseAssumption DEF CommittedTo
<1>2. IsFiniteSet(CommittedTo(n))
  BY <1>1, FS_Subset
<1> QED BY <1>2, FS_CardinalityType

(* A component that moves without committing or unmounting.                  *)
LEMMA ComponentMoves ==
    ASSUME SuspenseTyped, NEW c \in Consumers, consumer[c].at # "committed",
           NEW x \in [at: {"out", "suspended", "rendered"}, entry: Nat],
           consumer' = [consumer EXCEPT ![c] = x]
    PROVE  /\ consumer' \in [Consumers -> [at: {"out", "suspended", "rendered", "committed"},
                                           entry: Nat]]
           /\ \A n : CommittedTo(n)' = CommittedTo(n)
           /\ \A d \in Consumers : consumer'[d].at = "committed" => consumer'[d] = consumer[d]
<1>1. consumer'[c] = x /\ \A d \in Consumers : d # c => consumer'[d] = consumer[d]
  BY DEF SuspenseTyped
<1>2. x.at # "committed" /\ x \in [at: {"out", "suspended", "rendered", "committed"}, entry: Nat]
  OBVIOUS
<1>3. consumer' \in [Consumers -> [at: {"out", "suspended", "rendered", "committed"}, entry: Nat]]
  BY <1>2 DEF SuspenseTyped
<1>4. ASSUME NEW n PROVE CommittedTo(n)' = CommittedTo(n)
  <2>1. x # [at |-> "committed", entry |-> n] /\ consumer[c] # [at |-> "committed", entry |-> n]
    BY <1>2
  <2> QED BY <1>1, <2>1 DEF CommittedTo
<1> QED BY <1>1, <1>2, <1>3, <1>4

(* A render finds the entry, or makes it with its release timer.             *)
LEMMA RenderKeeps ==
    ASSUME SuspenseInv, NEW c \in Consumers, Render(c)
    PROVE  SuspenseInv'
<1>1. SuspenseTyped /\ Len(resources) \in Nat /\ DOMAIN resources = 1..Len(resources)
  BY DEF SuspenseInv, SuspenseTyped
<1>2. PICK made, n : /\ made = IF cached = 0 THEN Append(resources, NewResource) ELSE resources
                     /\ n = IF cached = 0 THEN Len(made) ELSE cached
  OBVIOUS
<1>3. PICK x : x = [at |-> IF made[n].ready THEN "rendered" ELSE "suspended", entry |-> n]
  OBVIOUS
<1>4. /\ consumer[c].at # "committed" /\ resources' = made /\ cached' = n
      /\ consumer' = [consumer EXCEPT ![c] = x]
  BY <1>2, <1>3 DEF Render
<1>5. NewResource \in Resources
  BY DEF NewResource, Resources
<1>6. CASE cached = 0
  <2>1. made = Append(resources, NewResource) /\ n = Len(resources) + 1
    BY <1>1, <1>2, <1>5, <1>6 DEF SuspenseTyped
  <2>2. /\ made \in Seq(Resources) /\ DOMAIN made = 1..n /\ made[n] = NewResource /\ n \in Nat
        /\ \A m \in DOMAIN resources : made[m] = resources[m]
    BY <1>1, <1>5, <2>1 DEF SuspenseTyped
  <2>3. x \in [at: {"out", "suspended", "rendered"}, entry: Nat]
    BY <1>3, <2>2
  <2>4. /\ consumer' \in [Consumers -> [at: {"out", "suspended", "rendered", "committed"},
                                        entry: Nat]]
        /\ \A m : CommittedTo(m)' = CommittedTo(m)
        /\ \A d \in Consumers : consumer'[d].at = "committed" => consumer'[d] = consumer[d]
    BY <1>1, <1>4, <2>3, ComponentMoves
  <2>5. CommittedTo(n) = {}
    <3>1. \A d \in Consumers : consumer[d] # [at |-> "committed", entry |-> n]
      <4>1. ASSUME NEW d \in Consumers, consumer[d] = [at |-> "committed", entry |-> n] PROVE FALSE
        <5>1. consumer[d].at = "committed" /\ consumer[d].entry = n
          BY <4>1
        <5> QED BY <1>1, <2>1, <5>1 DEF SuspenseInv
      <4> QED BY <4>1
    <3> QED BY <3>1 DEF CommittedTo
  <2>6. ASSUME NEW m \in DOMAIN resources' PROVE EntryCounted(m)'
    <3>1. CASE m = n
      <4>1. resources'[m] = NewResource /\ CommittedTo(m)' = {}
        BY <1>4, <2>2, <2>4, <2>5, <3>1
      <4>2. Cardinality({}) = 0
        BY FS_EmptySet
      <4>3. NewResource.refCount = 0 /\ NewResource.subscribed /\ NewResource.releaseTimer
        BY DEF NewResource
      <4> QED BY <1>4, <3>1, <4>1, <4>2, <4>3 DEF EntryCounted
    <3>2. CASE m # n
      <4>1. m \in DOMAIN resources /\ resources'[m] = resources[m] /\ m # 0
        BY <1>1, <1>4, <2>1, <2>2, <2>6, <3>2
      <4>2. EntryCounted(m) /\ CommittedTo(m)' = CommittedTo(m)
        BY <2>4, <4>1 DEF SuspenseInv
      <4> QED BY <1>4, <1>6, <3>2, <4>1, <4>2 DEF EntryCounted
    <3> QED BY <3>1, <3>2
  <2>7. DOMAIN resources \subseteq DOMAIN resources' /\ cached' \in DOMAIN resources'
    BY <1>1, <1>4, <2>1, <2>2
  <2>8. SuspenseTyped'
    BY <1>4, <2>2, <2>4 DEF SuspenseTyped
  <2> QED BY <2>4, <2>6, <2>7, <2>8 DEF SuspenseInv
<1>7. CASE cached # 0
  <2>1. resources' = resources /\ cached' = cached /\ n = cached
    BY <1>2, <1>4, <1>7
  <2>2. x \in [at: {"out", "suspended", "rendered"}, entry: Nat]
    BY <1>1, <1>3, <2>1 DEF SuspenseTyped
  <2>3. /\ consumer' \in [Consumers -> [at: {"out", "suspended", "rendered", "committed"},
                                        entry: Nat]]
        /\ \A m : CommittedTo(m)' = CommittedTo(m)
        /\ \A d \in Consumers : consumer'[d].at = "committed" => consumer'[d] = consumer[d]
    BY <1>1, <1>4, <2>2, ComponentMoves
  <2>4. \A m \in DOMAIN resources' : EntryCounted(m)'
    BY <2>1, <2>3 DEF SuspenseInv, EntryCounted
  <2>5. SuspenseTyped'
    BY <1>1, <2>1, <2>3 DEF SuspenseTyped
  <2> QED BY <2>1, <2>3, <2>4, <2>5 DEF SuspenseInv
<1> QED BY <1>6, <1>7

(* A commit counts on the entry in the cache.                                *)
LEMMA CommitKeeps ==
    ASSUME SuspenseInv, NEW c \in Consumers, Commit(c)
    PROVE  SuspenseInv'
<1>1. SuspenseTyped /\ Len(resources) \in Nat /\ DOMAIN resources = 1..Len(resources)
  BY DEF SuspenseInv, SuspenseTyped
<1>2. PICK x : x = [at |-> "committed", entry |-> cached]
  OBVIOUS
<1>3. /\ consumer[c].at = "rendered" /\ UNCHANGED cached
      /\ consumer' = [consumer EXCEPT ![c] = x]
      /\ resources' = IF cached # 0 THEN [resources EXCEPT ![cached].refCount = @ + 1] ELSE resources
  BY <1>2 DEF Commit
<1>4. /\ x \in [at: {"out", "suspended", "rendered", "committed"}, entry: Nat]
      /\ x.at = "committed" /\ x.entry = cached /\ cached \in Nat
  BY <1>1, <1>2 DEF SuspenseTyped
<1>5. /\ consumer' \in [Consumers -> [at: {"out", "suspended", "rendered", "committed"}, entry: Nat]]
      /\ consumer'[c] = x /\ \A d \in Consumers : d # c => consumer'[d] = consumer[d]
  BY <1>1, <1>3, <1>4 DEF SuspenseTyped
<1>6. \A n : c \notin CommittedTo(n)
  BY <1>3 DEF CommittedTo
<1>7. \A n : n # cached => CommittedTo(n)' = CommittedTo(n)
  <2> SUFFICES ASSUME NEW n, n # cached PROVE CommittedTo(n)' = CommittedTo(n)
    OBVIOUS
  <2>1. x # [at |-> "committed", entry |-> n]
    BY <1>2
  <2>2. consumer[c] # [at |-> "committed", entry |-> n]
    BY <1>3
  <2> QED BY <1>5, <2>1, <2>2 DEF CommittedTo
<1>8. CommittedTo(cached)' = CommittedTo(cached) \cup {c}
  BY <1>2, <1>3, <1>5 DEF CommittedTo
<1>9. CASE cached = 0
  <2>1. resources' = resources
    BY <1>3, <1>9
  <2>2. \A m \in DOMAIN resources' : EntryCounted(m)'
    BY <1>1, <1>3, <1>7, <1>9, <2>1 DEF SuspenseInv, EntryCounted
  <2>3. SuspenseTyped'
    BY <1>1, <1>3, <1>5, <2>1 DEF SuspenseTyped
  <2>4. ASSUME NEW d \in Consumers, consumer'[d].at = "committed", consumer'[d].entry # 0
        PROVE  consumer'[d].entry \in DOMAIN resources'
    <3>1. d # c
      BY <1>4, <1>5, <1>9, <2>4
    <3> QED BY <1>5, <2>1, <2>4, <3>1 DEF SuspenseInv
  <2> QED BY <1>3, <1>9, <2>2, <2>3, <2>4 DEF SuspenseInv
<1>10. CASE cached # 0
  <2>1. cached \in DOMAIN resources /\ EntryCounted(cached)
    BY <1>10 DEF SuspenseInv
  <2>2. PICK r \in Resources : r = resources[cached]
    BY <1>1, <2>1 DEF SuspenseTyped
  <2>3. PICK e : e = [r EXCEPT !.refCount = @ + 1]
    OBVIOUS
  <2>4. /\ e \in Resources /\ e.refCount = r.refCount + 1 /\ e.subscribed = r.subscribed
        /\ e.releaseTimer = r.releaseTimer
    BY <2>3 DEF Resources
  <2>5. resources' = [resources EXCEPT ![cached] = e]
    BY <1>3, <1>10, <2>2, <2>3
  <2>6. /\ resources' \in Seq(Resources) /\ DOMAIN resources' = DOMAIN resources
        /\ resources'[cached] = e
        /\ \A m \in DOMAIN resources : m # cached => resources'[m] = resources[m]
    BY <1>1, <2>1, <2>4, <2>5 DEF SuspenseTyped
  <2>7. Cardinality(CommittedTo(cached) \cup {c}) = Cardinality(CommittedTo(cached)) + 1
    BY <1>6, CommittedFinite, FS_AddElement
  <2>8. ASSUME NEW m \in DOMAIN resources' PROVE EntryCounted(m)'
    <3>1. CASE m = cached
      <4>1. e.refCount = Cardinality(CommittedTo(cached)')
        BY <1>8, <2>1, <2>2, <2>4, <2>7 DEF EntryCounted
      <4>2. e.subscribed /\ CommittedTo(cached)' # {}
        BY <1>8, <2>1, <2>2, <2>4 DEF EntryCounted
      <4> QED BY <1>3, <2>6, <3>1, <4>1, <4>2 DEF EntryCounted
    <3>2. CASE m # cached
      BY <1>3, <1>7, <2>6, <2>8, <3>2 DEF SuspenseInv, EntryCounted
    <3> QED BY <3>1, <3>2
  <2>9. SuspenseTyped'
    BY <1>1, <1>3, <1>5, <2>6 DEF SuspenseTyped
  <2>10. ASSUME NEW d \in Consumers, consumer'[d].at = "committed", consumer'[d].entry # 0
         PROVE  consumer'[d].entry \in DOMAIN resources'
    <3>1. CASE d = c
      BY <1>4, <1>5, <2>1, <2>6, <3>1
    <3>2. CASE d # c
      BY <1>5, <2>6, <2>10, <3>2 DEF SuspenseInv
    <3> QED BY <3>1, <3>2
  <2> QED BY <1>3, <2>1, <2>6, <2>8, <2>9, <2>10 DEF SuspenseInv
<1> QED BY <1>9, <1>10

(* The last consumer to unmount releases the entry.                          *)
LEMMA UnmountKeeps ==
    ASSUME SuspenseInv, NEW c \in Consumers, Unmount(c)
    PROVE  SuspenseInv'
<1>1. SuspenseTyped /\ Len(resources) \in Nat /\ DOMAIN resources = 1..Len(resources)
  BY DEF SuspenseInv, SuspenseTyped
<1>2. PICK n : n = consumer[c].entry
  OBVIOUS
<1>3. consumer[c].at = "committed" /\ consumer' = [consumer EXCEPT ![c] = Outside]
  BY DEF Unmount
<1>4. consumer[c] = [at |-> "committed", entry |-> n] /\ n \in Nat
  BY <1>1, <1>2, <1>3 DEF SuspenseTyped
<1>5. /\ Outside \in [at: {"out", "suspended", "rendered", "committed"}, entry: Nat]
      /\ Outside.at = "out"
  BY DEF Outside
<1>6. /\ consumer' \in [Consumers -> [at: {"out", "suspended", "rendered", "committed"}, entry: Nat]]
      /\ consumer'[c] = Outside /\ \A d \in Consumers : d # c => consumer'[d] = consumer[d]
  BY <1>1, <1>3, <1>5 DEF SuspenseTyped
<1>7. \A m : m # n => CommittedTo(m)' = CommittedTo(m)
  <2> SUFFICES ASSUME NEW m, m # n PROVE CommittedTo(m)' = CommittedTo(m)
    OBVIOUS
  <2>1. consumer[c] # [at |-> "committed", entry |-> m]
    BY <1>4
  <2>2. Outside # [at |-> "committed", entry |-> m]
    BY <1>5
  <2> QED BY <1>6, <2>1, <2>2 DEF CommittedTo
<1>8. CommittedTo(n)' = CommittedTo(n) \ {c} /\ c \in CommittedTo(n)
  <2>1. Outside # [at |-> "committed", entry |-> n]
    BY <1>5
  <2> QED BY <1>4, <1>6, <2>1 DEF CommittedTo
<1>9. ASSUME NEW d \in Consumers, consumer'[d].at = "committed"
      PROVE  consumer'[d] = consumer[d]
  BY <1>5, <1>6, <1>9
<1>10. CASE n = 0
  <2>1. UNCHANGED <<resources, cached>>
    BY <1>2, <1>10 DEF Unmount
  <2>2. \A m \in DOMAIN resources' : EntryCounted(m)'
    BY <1>1, <1>7, <1>10, <2>1 DEF SuspenseInv, EntryCounted
  <2>3. SuspenseTyped'
    BY <1>1, <1>6, <2>1 DEF SuspenseTyped
  <2> QED BY <1>9, <2>1, <2>2, <2>3 DEF SuspenseInv
<1>11. CASE n # 0
  <2>1. n \in DOMAIN resources /\ EntryCounted(n)
    BY <1>2, <1>3, <1>11 DEF SuspenseInv
  <2>2. PICK r \in Resources : r = resources[n]
    BY <1>1, <2>1 DEF SuspenseTyped
  <2>3. /\ Cardinality(CommittedTo(n)') = Cardinality(CommittedTo(n)) - 1
        /\ Cardinality(CommittedTo(n)) \in Nat /\ Cardinality(CommittedTo(n)') \in Nat
    <3>1. Cardinality(CommittedTo(n) \ {c}) = Cardinality(CommittedTo(n)) - 1
      BY <1>8, CommittedFinite, FS_RemoveElement
    <3>2. IsFiniteSet(CommittedTo(n) \ {c})
      BY CommittedFinite, FS_RemoveElement
    <3>3. Cardinality(CommittedTo(n) \ {c}) \in Nat
      BY <3>2, FS_CardinalityType
    <3> QED BY <1>8, <3>1, <3>3, CommittedFinite
  <2>4. r.refCount = Cardinality(CommittedTo(n)) /\ r.subscribed /\ cached = n
    BY <1>8, <2>1, <2>2 DEF EntryCounted
  <2>5. PICK e : IF r.refCount > 1 THEN e = [r EXCEPT !.refCount = @ - 1]
                 ELSE e = [r EXCEPT !.refCount = @ - 1, !.releaseTimer = FALSE,
                                    !.subscribed = FALSE]
    OBVIOUS
  <2>6. resources' = [resources EXCEPT ![n] = e] /\ cached' = IF r.refCount > 1 THEN n ELSE 0
    <3>1. CASE r.refCount > 1
      <4>1. resources' = [resources EXCEPT ![n].refCount = @ - 1] /\ UNCHANGED cached
        BY <1>2, <1>11, <2>2, <3>1 DEF Unmount
      <4> QED BY <2>2, <2>4, <2>5, <3>1, <4>1
    <3>2. CASE ~(r.refCount > 1)
      <4>1. /\ resources' = [resources EXCEPT ![n].refCount = @ - 1, ![n].releaseTimer = FALSE,
                                              ![n].subscribed = FALSE]
            /\ cached' = IF cached = n THEN 0 ELSE cached
        BY <1>2, <1>11, <2>2, <3>2 DEF Unmount
      <4> QED BY <2>2, <2>4, <2>5, <3>2, <4>1
    <3> QED BY <3>1, <3>2
  <2>7. r.refCount - 1 \in Nat
    BY <2>3, <2>4
  <2>8. /\ e \in Resources /\ e.refCount = r.refCount - 1
        /\ r.refCount > 1 => e.subscribed = r.subscribed
        /\ ~(r.refCount > 1) => ~e.subscribed /\ ~e.releaseTimer
    BY <2>5, <2>7 DEF Resources
  <2>9. /\ resources' \in Seq(Resources) /\ DOMAIN resources' = DOMAIN resources
        /\ resources'[n] = e /\ \A m \in DOMAIN resources : m # n => resources'[m] = resources[m]
    BY <1>1, <2>1, <2>6, <2>8 DEF SuspenseTyped
  <2>10. CommittedTo(n)' = {} <=> ~(r.refCount > 1)
    <3>1. IsFiniteSet(CommittedTo(n)')
      BY <1>8, CommittedFinite, FS_RemoveElement
    <3>2. CommittedTo(n)' = {} <=> Cardinality(CommittedTo(n)') = 0
      BY <3>1, FS_EmptySet
    <3> QED BY <2>3, <2>4, <3>2
  <2>11. ASSUME NEW m \in DOMAIN resources' PROVE EntryCounted(m)'
    <3>1. CASE m = n
      <4>1. resources'[m] = e /\ e.refCount = Cardinality(CommittedTo(m)')
        BY <2>3, <2>4, <2>8, <2>9, <3>1
      <4>2. e.subscribed <=> r.refCount > 1
        BY <2>4, <2>8
      <4>3. e.subscribed <=> CommittedTo(m)' # {} \/ e.releaseTimer
        BY <2>8, <2>10, <3>1, <4>2
      <4>4. e.subscribed <=> cached' = m
        BY <1>11, <2>6, <3>1, <4>2
      <4> QED BY <4>1, <4>3, <4>4 DEF EntryCounted
    <3>2. CASE m # n
      <4>1. m \in DOMAIN resources /\ resources'[m] = resources[m] /\ m # 0
        BY <1>1, <2>9, <2>11, <3>2
      <4>2. EntryCounted(m) /\ cached # m /\ cached' # m /\ CommittedTo(m)' = CommittedTo(m)
        BY <1>7, <2>4, <2>6, <3>2, <4>1 DEF SuspenseInv
      <4> QED BY <4>1, <4>2 DEF EntryCounted
    <3> QED BY <3>1, <3>2
  <2>12. SuspenseTyped'
    BY <1>4, <1>6, <2>6, <2>9 DEF SuspenseTyped
  <2> QED BY <1>9, <2>1, <2>6, <2>9, <2>11, <2>12 DEF SuspenseInv
<1> QED BY <1>10, <1>11

(* The timer releases an entry nobody has committed to.                      *)
LEMMA ReleaseKeeps ==
    ASSUME SuspenseInv, NEW n \in DOMAIN resources, ReleaseTimer(n)
    PROVE  SuspenseInv'
<1>1. SuspenseTyped /\ Len(resources) \in Nat /\ DOMAIN resources = 1..Len(resources)
  BY DEF SuspenseInv, SuspenseTyped
<1>2. PICK r \in Resources : r = resources[n]
  BY <1>1 DEF SuspenseTyped
<1>3. EntryCounted(n) /\ r.releaseTimer /\ UNCHANGED consumer
  BY <1>2 DEF SuspenseInv, ReleaseTimer
<1>4. r.refCount = Cardinality(CommittedTo(n)) /\ r.subscribed /\ cached = n
  BY <1>2, <1>3 DEF EntryCounted
<1>5. PICK e : IF r.refCount > 0 THEN e = [r EXCEPT !.releaseTimer = FALSE]
               ELSE e = [r EXCEPT !.releaseTimer = FALSE, !.subscribed = FALSE]
  OBVIOUS
<1>6. resources' = [resources EXCEPT ![n] = e] /\ cached' = IF r.refCount > 0 THEN n ELSE 0
  BY <1>2, <1>4, <1>5 DEF ReleaseTimer, InUse
<1>7. /\ e \in Resources /\ e.refCount = r.refCount /\ ~e.releaseTimer
      /\ e.subscribed <=> r.refCount > 0
  BY <1>4, <1>5 DEF Resources
<1>8. /\ resources' \in Seq(Resources) /\ DOMAIN resources' = DOMAIN resources
      /\ resources'[n] = e /\ \A m \in DOMAIN resources : m # n => resources'[m] = resources[m]
  BY <1>1, <1>6, <1>7 DEF SuspenseTyped
<1>9. \A m : CommittedTo(m)' = CommittedTo(m)
  BY <1>3 DEF CommittedTo
<1>10. CommittedTo(n) # {} <=> r.refCount > 0
  <2>1. CommittedTo(n) = {} <=> Cardinality(CommittedTo(n)) = 0
    BY CommittedFinite, FS_EmptySet
  <2> QED BY <1>4, <2>1, CommittedFinite
<1>11. ASSUME NEW m \in DOMAIN resources' PROVE EntryCounted(m)'
  <2>1. CASE m = n
    <3>1. resources'[m] = e /\ e.refCount = Cardinality(CommittedTo(m)') /\ m # 0
      BY <1>1, <1>4, <1>7, <1>8, <1>9, <2>1
    <3>2. e.subscribed <=> CommittedTo(m)' # {} \/ e.releaseTimer
      BY <1>7, <1>9, <1>10, <2>1
    <3>3. e.subscribed <=> cached' = m
      BY <1>6, <1>7, <2>1, <3>1
    <3> QED BY <3>1, <3>2, <3>3 DEF EntryCounted
  <2>2. CASE m # n
    <3>1. m \in DOMAIN resources /\ resources'[m] = resources[m] /\ m # 0
      BY <1>1, <1>8, <1>11, <2>2
    <3>2. EntryCounted(m) /\ cached # m /\ cached' # m /\ CommittedTo(m)' = CommittedTo(m)
      BY <1>4, <1>6, <1>9, <2>2, <3>1 DEF SuspenseInv
    <3> QED BY <3>1, <3>2 DEF EntryCounted
  <2> QED BY <2>1, <2>2
<1>12. SuspenseTyped' /\ (cached' # 0 => cached' \in DOMAIN resources')
  <2>1. cached' \in Nat /\ (cached' # 0 => cached' = n)
    BY <1>1, <1>6
  <2> QED BY <1>1, <1>3, <1>8, <2>1 DEF SuspenseTyped
<1> QED BY <1>3, <1>8, <1>11, <1>12 DEF SuspenseInv

(* For every number of components that render, suspend, commit, are dropped  *)
(* and unmount in any order: an entry is subscribed exactly while a          *)
(* committed component counts on it or its timer is to run.                  *)
THEOREM ResourcesReleased == SuspenseSpec => []ReleasedWhenUnused
<1>1. SuspenseInit => SuspenseInv
  <2> SUFFICES ASSUME SuspenseInit PROVE SuspenseInv
    OBVIOUS
  <2>1. resources = <<>> /\ DOMAIN resources = {} /\ resources \in Seq(Resources) /\ cached = 0
    BY DEF SuspenseInit
  <2>2. /\ consumer \in [Consumers -> [at: {"out", "suspended", "rendered", "committed"}, entry: Nat]]
        /\ \A c \in Consumers : consumer[c].at = "out"
    BY DEF SuspenseInit, Outside
  <2> QED BY <2>1, <2>2 DEF SuspenseInv, SuspenseTyped
<1>2. SuspenseInv /\ [SuspenseNext]_suspenseVars => SuspenseInv'
  <2> SUFFICES ASSUME SuspenseInv, [SuspenseNext]_suspenseVars PROVE SuspenseInv'
    OBVIOUS
  <2>0. SuspenseTyped /\ Len(resources) \in Nat /\ DOMAIN resources = 1..Len(resources)
    BY DEF SuspenseInv, SuspenseTyped
  <2>1. CASE UNCHANGED suspenseVars
    <3>1. \A m : CommittedTo(m)' = CommittedTo(m)
      BY <2>1 DEF CommittedTo, suspenseVars
    <3>2. \A m \in DOMAIN resources' : EntryCounted(m)'
      BY <2>1, <3>1 DEF SuspenseInv, EntryCounted, suspenseVars
    <3> QED BY <2>0, <2>1, <3>2 DEF SuspenseInv, SuspenseTyped, suspenseVars
  <2>2. ASSUME NEW c \in Consumers, Render(c) \/ Commit(c) \/ Unmount(c) PROVE SuspenseInv'
    BY <2>2, RenderKeeps, CommitKeeps, UnmountKeeps
  <2>3. ASSUME NEW c \in Consumers, Abandon(c) PROVE SuspenseInv'
    <3>1. Outside \in [at: {"out", "suspended", "rendered"}, entry: Nat]
      BY DEF Outside
    <3>2. /\ consumer[c].at # "committed" /\ consumer' = [consumer EXCEPT ![c] = Outside]
          /\ UNCHANGED <<resources, cached>>
      BY <2>3 DEF Abandon
    <3>3. /\ consumer' \in [Consumers -> [at: {"out", "suspended", "rendered", "committed"},
                                          entry: Nat]]
          /\ \A m : CommittedTo(m)' = CommittedTo(m)
          /\ \A d \in Consumers : consumer'[d].at = "committed" => consumer'[d] = consumer[d]
      BY <2>0, <3>1, <3>2, ComponentMoves
    <3>4. \A m \in DOMAIN resources' : EntryCounted(m)'
      BY <3>2, <3>3 DEF SuspenseInv, EntryCounted
    <3> QED BY <2>0, <3>2, <3>3, <3>4 DEF SuspenseInv, SuspenseTyped
  <2>4. CASE EventArrives
    <3>1. /\ resources' = [n \in DOMAIN resources |->
                              [resources[n] EXCEPT !.ready = @ \/ resources[n].subscribed]]
          /\ UNCHANGED <<cached, consumer>>
      BY <2>4 DEF EventArrives
    <3>2. ASSUME NEW n \in DOMAIN resources
          PROVE  /\ resources'[n] \in Resources
                 /\ resources'[n].refCount = resources[n].refCount
                 /\ resources'[n].subscribed = resources[n].subscribed
                 /\ resources'[n].releaseTimer = resources[n].releaseTimer
      <4>1. PICK r \in Resources : r = resources[n]
        BY <2>0 DEF SuspenseTyped
      <4>2. PICK b \in BOOLEAN : b = (r.ready \/ r.subscribed)
        OBVIOUS
      <4>3. resources'[n] = [r EXCEPT !.ready = b]
        BY <3>1, <4>1, <4>2
      <4> QED BY <4>1, <4>3 DEF Resources
    <3>3. DOMAIN resources' = DOMAIN resources /\ resources' \in Seq(Resources)
      <4>1. DOMAIN resources' = DOMAIN resources
        BY <3>1
      <4>2. resources' \in [1..Len(resources) -> Resources]
        BY <2>0, <3>1, <3>2
      <4> QED BY <2>0, <4>1, <4>2
    <3>4. \A m : CommittedTo(m)' = CommittedTo(m)
      BY <3>1 DEF CommittedTo
    <3>5. ASSUME NEW m \in DOMAIN resources' PROVE EntryCounted(m)'
      <4>1. m \in DOMAIN resources /\ EntryCounted(m)
        BY <3>3, <3>5 DEF SuspenseInv
      <4>2. /\ resources'[m].refCount = resources[m].refCount
            /\ resources'[m].subscribed = resources[m].subscribed
            /\ resources'[m].releaseTimer = resources[m].releaseTimer
        BY <3>2, <4>1
      <4>3. CommittedTo(m)' = CommittedTo(m) /\ cached' = cached
        BY <3>1, <3>4
      <4> QED BY <4>1, <4>2, <4>3 DEF EntryCounted
    <3>6. SuspenseTyped'
      BY <2>0, <3>1, <3>3 DEF SuspenseTyped
    <3>7. /\ cached' # 0 => cached' \in DOMAIN resources'
          /\ \A c \in Consumers : consumer'[c].at = "committed" /\ consumer'[c].entry # 0 =>
                                      consumer'[c].entry \in DOMAIN resources'
      BY <3>1, <3>3 DEF SuspenseInv
    <3> QED BY <3>5, <3>6, <3>7 DEF SuspenseInv
  <2>5. ASSUME NEW n \in DOMAIN resources, ReleaseTimer(n) PROVE SuspenseInv'
    BY <2>5, ReleaseKeeps
  <2> QED BY <2>1, <2>2, <2>3, <2>4, <2>5 DEF SuspenseNext
<1>3. SuspenseInv => ReleasedWhenUnused
  BY DEF SuspenseInv, EntryCounted, CommittedTo, ReleasedWhenUnused
<1> QED BY <1>1, <1>2, <1>3, PTL DEF SuspenseSpec

-----------------------------------------------------------------------------
-----------------------------------------------------------------------------
(* EventHook                                                                 *)

Pages   == [mounted: BOOLEAN, visible: BOOLEAN, timer: BOOLEAN, active: BOOLEAN]
Auths   == [prop: HookTokens, token: HookTokens, refresh: Nat]
Streams == [socket: {"none", "connecting", "open"}, connected: BOOLEAN, others: BOOLEAN,
            shared: BOOLEAN, asked: Nat]
Effects == [token: HookTokens \cup {NoToken}, refresh: Nat, active: BOOLEAN, ran: BOOLEAN]
Shown   == [connected: BOOLEAN, caughtUp: BOOLEAN, lastId: BOOLEAN]

HookTyped ==
    /\ page \in Pages /\ auth \in Auths /\ renewals \in Seq({"pending", "answered", "failed"})
    /\ streams \in [HookTokens -> Streams] /\ effect \in Effects /\ shown \in Shown

(* A stream there is has a listener; one that expired under a renewal is     *)
(* there; one with others is shared.                                         *)
HasListener(s, isHeld) ==
    /\ s.socket # "none" => s.others \/ isHeld
    /\ s.asked # 0 => s.socket # "none"
    /\ s.others => s.shared
    /\ s.asked <= Len(renewals)

(* What the hook holds is shown, and left once its renewal was answered: the *)
(* refresh key differs until the effect has run again.                       *)
IsFollowed(s) ==
    /\ s.connected => shown.connected
    /\ s.asked # 0 /\ ~s.shared =>
          renewals[s.asked] # "answered" \/ auth.refresh # effect.refresh

HookInv ==
    /\ HookTyped /\ VisibleIsActive
    /\ effect.refresh <= auth.refresh
    /\ effect.active => effect.token \in HookTokens /\ effect.ran /\ page.mounted
    /\ effect.ran /\ ~effect.active /\ page.mounted => ~shown.connected
    /\ \A t \in HookTokens : HasListener(streams[t], Holds(t))
    /\ \A t \in HookTokens : Holds(t) => IsFollowed(streams[t])

(* One stream changes, with what it tells the hook.                          *)
LEMMA StreamMoves ==
    ASSUME HookInv, NEW t \in HookTokens, NEW s \in Streams, NEW b \in BOOLEAN,
           b <=> Holds(t),
           streams' = [streams EXCEPT ![t] = s], UNCHANGED <<page, auth, effect>>,
           renewals' \in Seq({"pending", "answered", "failed"}), Len(renewals) <= Len(renewals'),
           \A i \in 1..Len(renewals) : renewals'[i] = renewals[i],
           shown' \in Shown, ~b => shown' = shown,
           HasListener(s, b)', b => IsFollowed(s)'
    PROVE  HookInv'
<1>1. HookTyped /\ VisibleIsActive
  BY DEF HookInv
<1>2. /\ streams' \in [HookTokens -> Streams] /\ streams'[t] = s
      /\ \A u \in HookTokens : u # t => streams'[u] = streams[u]
  BY <1>1 DEF HookTyped
<1>3. \A u : Holds(u)' <=> Holds(u)
  BY DEF Holds
<1>4. HookTyped' /\ VisibleIsActive'
  BY <1>1, <1>2 DEF HookTyped, VisibleIsActive
<1>5. ASSUME NEW u \in HookTokens PROVE HasListener(streams[u], Holds(u))'
  <2>1. CASE u = t
    BY <1>2, <1>3, <2>1 DEF HasListener
  <2>2. CASE u # t
    <3>1. HasListener(streams[u], Holds(u)) /\ streams[u].asked \in Nat /\ streams'[u] = streams[u]
      BY <1>1, <1>2, <2>2 DEF HookInv, HookTyped, Streams
    <3>2. Len(renewals) \in Nat /\ Len(renewals') \in Nat
      BY <1>1 DEF HookTyped
    <3>3. streams[u].asked <= Len(renewals')
      BY <3>1, <3>2 DEF HasListener
    <3> QED BY <1>3, <3>1, <3>3 DEF HasListener
  <2> QED BY <2>1, <2>2
<1>6. ASSUME NEW u \in HookTokens, Holds(u) PROVE IsFollowed(streams[u])'
  <2>1. CASE u = t
    BY <1>2, <1>6, <2>1 DEF IsFollowed
  <2>2. CASE u # t
    <3>1. ~b
      BY <1>6, <2>2 DEF Holds
    <3>2. HasListener(streams[u], Holds(u)) /\ streams[u].asked \in Nat /\ streams'[u] = streams[u]
      BY <1>1, <1>2, <2>2 DEF HookInv, HookTyped, Streams
    <3>3. streams[u].asked # 0 => streams[u].asked \in 1..Len(renewals)
      BY <1>1, <3>2 DEF HasListener, HookTyped
    <3>4. IsFollowed(streams[u])
      BY <1>6 DEF HookInv
    <3> QED BY <3>1, <3>2, <3>3, <3>4 DEF IsFollowed
  <2> QED BY <2>1, <2>2
<1>7. effect.ran /\ ~effect.active /\ page.mounted => ~shown'.connected
  <2>1. ~effect.active => ~b
    BY DEF Holds
  <2> QED BY <2>1 DEF HookInv
<1> QED BY <1>3, <1>4, <1>5, <1>6, <1>7 DEF HookInv

(* The streams stay as they are, and what happens is about the page, the     *)
(* tokens or the renewals.                                                   *)
LEMMA StreamsStay ==
    ASSUME HookInv, UNCHANGED <<streams, effect>>, HookTyped', VisibleIsActive',
           page'.mounted = page.mounted, auth.refresh <= auth'.refresh,
           shown'.connected = shown.connected,
           Len(renewals') = Len(renewals),
           \A i \in 1..Len(renewals) : \/ renewals'[i] = renewals[i] /\ auth'.refresh = auth.refresh
                                       \/ renewals'[i] # "answered"
                                       \/ auth'.refresh # auth.refresh
    PROVE  HookInv'
<1>1. HookTyped
  BY DEF HookInv
<1>2. \A u : Holds(u)' <=> Holds(u)
  BY DEF Holds
<1>3. /\ effect.refresh \in Nat /\ auth.refresh \in Nat /\ auth'.refresh \in Nat
      /\ effect.refresh <= auth.refresh
  BY <1>1 DEF HookInv, HookTyped, Auths, Effects
<1>4. effect'.refresh <= auth'.refresh
  BY <1>3
<1>5. \A u \in HookTokens : HasListener(streams[u], Holds(u))'
  BY <1>2 DEF HookInv, HasListener
<1>6. ASSUME NEW u \in HookTokens, Holds(u) PROVE IsFollowed(streams[u])'
  <2>1. IsFollowed(streams[u]) /\ HasListener(streams[u], Holds(u)) /\ streams[u].asked \in Nat
    BY <1>1, <1>6 DEF HookInv, HookTyped, Streams
  <2>2. ASSUME streams[u].asked # 0, ~streams[u].shared, ~(auth'.refresh # effect.refresh)
        PROVE  renewals'[streams[u].asked] # "answered"
    <3>1. streams[u].asked \in 1..Len(renewals)
      BY <1>1, <2>1, <2>2 DEF HasListener, HookTyped
    <3>2. auth'.refresh = auth.refresh /\ auth.refresh = effect.refresh
      BY <1>3, <2>2
    <3>3. renewals[streams[u].asked] # "answered"
      BY <2>1, <2>2, <3>2 DEF IsFollowed
    <3> QED BY <3>1, <3>2, <3>3
  <2> QED BY <2>1, <2>2 DEF IsFollowed
<1> QED BY <1>2, <1>4, <1>5, <1>6 DEF HookInv

(* After the cleanup of the effect, a stream that is left has others.        *)
LEMMA CleanedUp ==
    ASSUME HookInv, NEW D, D = IF effect.active
                               THEN [streams EXCEPT ![effect.token] = Left(effect.token)]
                               ELSE streams
    PROVE  D \in [HookTokens -> Streams] /\ \A t \in HookTokens : HasListener(D[t], FALSE)
<1>1. HookTyped
  BY DEF HookInv
<1>2. /\ NoStream \in Streams /\ NoStream.socket = "none" /\ NoStream.asked = 0
      /\ ~NoStream.others
  BY DEF NoStream, Streams
<1>3. ASSUME NEW t \in HookTokens PROVE D[t] \in Streams /\ HasListener(D[t], FALSE)
  <2>1. HasListener(streams[t], Holds(t)) /\ streams[t] \in Streams
    BY <1>1 DEF HookInv, HookTyped
  <2>2. CASE Holds(t)
    <3>1. D[t] = IF streams[t].others THEN streams[t] ELSE NoStream
      BY <1>1, <2>2 DEF Holds, HookTyped, Left
    <3>2. CASE streams[t].others
      BY <2>1, <3>1, <3>2 DEF HasListener
    <3>3. CASE ~streams[t].others
      <4>1. 0 <= Len(renewals)
        BY <1>1 DEF HookTyped
      <4> QED BY <1>2, <3>1, <3>3, <4>1 DEF HasListener
    <3> QED BY <3>2, <3>3
  <2>3. CASE ~Holds(t)
    <3>1. D[t] = streams[t]
      BY <1>1, <2>3 DEF Holds, HookTyped
    <3> QED BY <2>1, <2>3, <3>1 DEF HasListener
  <2> QED BY <2>2, <2>3
<1>4. DOMAIN D = HookTokens /\ D = [t \in HookTokens |-> D[t]]
  BY <1>1 DEF HookTyped
<1> QED BY <1>3, <1>4

(* The effect leaves what it held and joins the stream of the token of now.  *)
LEMMA EffectKeeps ==
    ASSUME HookInv, RunEffect
    PROVE  HookInv'
<1>1. HookTyped /\ VisibleIsActive
  BY DEF HookInv
<1>2. PICK D : D = IF effect.active
                   THEN [streams EXCEPT ![effect.token] = Left(effect.token)] ELSE streams
  OBVIOUS
<1>3. PICK own : own = Joined(D[auth.token])
  OBVIOUS
<1>4. D \in [HookTokens -> Streams] /\ \A t \in HookTokens : HasListener(D[t], FALSE)
  BY <1>2, CleanedUp
<1>5. PICK t \in HookTokens : t = auth.token
  BY <1>1 DEF HookTyped, Auths
<1>6. /\ page.mounted /\ UNCHANGED <<page, auth, renewals>>
      /\ effect' = [token |-> t, refresh |-> auth.refresh, active |-> page.active, ran |-> TRUE]
      /\ IF page.active
         THEN /\ streams' = [D EXCEPT ![t] = own]
              /\ shown' = IF own.connected THEN [shown EXCEPT !.connected = TRUE, !.lastId = FALSE]
                          ELSE [shown EXCEPT !.lastId = FALSE]
         ELSE /\ streams' = D
              /\ shown' = [shown EXCEPT !.connected = FALSE, !.lastId = FALSE]
  BY <1>2, <1>3, <1>5 DEF RunEffect
<1>7. /\ effect' \in Effects /\ effect'.token = t /\ effect'.refresh = auth.refresh
      /\ effect'.active = page.active /\ effect'.ran
  BY <1>1, <1>6 DEF HookTyped, Effects, Auths, Pages
<1>8. /\ shown' \in Shown
      /\ ~page.active => ~shown'.connected
      /\ page.active /\ own.connected => shown'.connected
  BY <1>1, <1>6 DEF HookTyped, Shown
<1>9. /\ own \in Streams /\ own.asked = D[t].asked /\ own.others = D[t].others
      /\ own.shared = D[t].shared /\ own.socket # "none"
      /\ D[t].socket # "none" => own = D[t]
  <2>1. PICK d \in Streams : d = D[t]
    BY <1>4
  <2>2. own = IF d.socket = "none" THEN [d EXCEPT !.socket = "connecting"] ELSE d
    BY <1>3, <1>5, <2>1 DEF Joined
  <2> QED BY <2>1, <2>2 DEF Streams
<1>10. /\ streams' \in [HookTokens -> Streams]
       /\ streams'[t] = IF page.active THEN own ELSE D[t]
       /\ \A u \in HookTokens : u # t => streams'[u] = D[u]
  BY <1>4, <1>6, <1>9
<1>11. HookTyped' /\ VisibleIsActive'
  BY <1>1, <1>6, <1>7, <1>8, <1>10 DEF HookTyped, VisibleIsActive
<1>12. \A u : Holds(u)' <=> page.active /\ u = t
  BY <1>7 DEF Holds
<1>13. ASSUME NEW u \in HookTokens PROVE HasListener(streams[u], Holds(u))'
  <2>1. HasListener(D[u], FALSE)
    BY <1>4
  <2>2. CASE u = t /\ page.active
    <3>1. streams'[u] = own /\ Holds(u)'
      BY <1>10, <1>12, <2>2
    <3> QED BY <1>6, <1>9, <2>1, <2>2, <3>1 DEF HasListener
  <2>3. CASE ~(u = t /\ page.active)
    <3>1. streams'[u] = D[u] /\ ~Holds(u)'
      BY <1>10, <1>12, <2>3
    <3> QED BY <1>6, <2>1, <3>1 DEF HasListener
  <2> QED BY <2>2, <2>3
<1>14. ASSUME NEW u \in HookTokens, Holds(u)' PROVE IsFollowed(streams[u])'
  <2>1. u = t /\ page.active /\ streams'[u] = own
    BY <1>10, <1>12, <1>14
  <2>2. own.asked # 0 => own.shared
    BY <1>4, <1>9 DEF HasListener
  <2> QED BY <1>8, <2>1, <2>2 DEF IsFollowed
<1>15. effect'.refresh <= auth'.refresh
  BY <1>1, <1>6, <1>7 DEF HookTyped, Auths
<1> QED BY <1>6, <1>7, <1>8, <1>11, <1>13, <1>14, <1>15 DEF HookInv

(* The cleanup of an unmount leaves the stream too.                          *)
LEMMA UnmountHookKeeps ==
    ASSUME HookInv, UnmountHook
    PROVE  HookInv'
<1>1. HookTyped /\ VisibleIsActive
  BY DEF HookInv
<1>2. /\ page' = [page EXCEPT !.mounted = FALSE, !.timer = FALSE]
      /\ effect' = [effect EXCEPT !.active = FALSE] /\ UNCHANGED <<auth, renewals, shown>>
      /\ streams' = IF effect.active
                    THEN [streams EXCEPT ![effect.token] = Left(effect.token)] ELSE streams
  BY DEF UnmountHook
<1>3. streams' \in [HookTokens -> Streams] /\ \A t \in HookTokens : HasListener(streams'[t], FALSE)
  BY <1>2, CleanedUp
<1>4. page' \in Pages /\ ~page'.mounted
  BY <1>1, <1>2 DEF HookTyped, Pages
<1>5. effect' \in Effects /\ ~effect'.active /\ effect'.refresh = effect.refresh
  BY <1>1, <1>2 DEF HookTyped, Effects
<1>6. HookTyped' /\ VisibleIsActive'
  BY <1>1, <1>2, <1>3, <1>4, <1>5 DEF HookTyped, VisibleIsActive
<1>7. \A u : ~Holds(u)'
  BY <1>5 DEF Holds
<1>8. \A u \in HookTokens : HasListener(streams[u], Holds(u))'
  BY <1>2, <1>3, <1>7 DEF HasListener
<1> QED BY <1>2, <1>4, <1>5, <1>6, <1>7, <1>8 DEF HookInv

(* Other components of the page come and leave.                              *)
LEMMA OthersKeep ==
    ASSUME HookInv, NEW t \in HookTokens, OtherComes(t) \/ OtherLeaves(t)
    PROVE  HookInv'
<1>1. HookTyped /\ HasListener(streams[t], Holds(t)) /\ (Holds(t) => IsFollowed(streams[t]))
  BY DEF HookInv
<1>2. PICK d \in Streams : d = streams[t]
  BY <1>1 DEF HookTyped
<1>3. PICK b \in BOOLEAN : b <=> Holds(t)
  BY Zenon
<1>4. UNCHANGED <<page, auth, renewals, effect, shown>>
  BY DEF OtherComes, OtherLeaves
<1>5. /\ renewals' \in Seq({"pending", "answered", "failed"}) /\ Len(renewals) <= Len(renewals')
      /\ shown' \in Shown
  BY <1>1, <1>4 DEF HookTyped
<1>6. CASE OtherComes(t)
  <2>1. PICK j : j = Joined(d)
    OBVIOUS
  <2>2. /\ j \in Streams /\ j.asked = d.asked /\ j.socket # "none" /\ j.connected = d.connected
    BY <2>1 DEF Joined, Streams
  <2>3. PICK s : s = [j EXCEPT !.others = TRUE, !.shared = TRUE]
    OBVIOUS
  <2>4. /\ s \in Streams /\ s.asked = d.asked /\ s.socket # "none" /\ s.connected = d.connected
        /\ s.others /\ s.shared
    BY <2>2, <2>3 DEF Streams
  <2>5. streams' = [streams EXCEPT ![t] = s]
    BY <1>2, <1>6, <2>1, <2>3 DEF OtherComes
  <2>6. HasListener(s, b)' /\ (b => IsFollowed(s)')
    BY <1>1, <1>2, <1>3, <1>4, <2>4 DEF HasListener, IsFollowed
  <2> QED BY <1>3, <1>4, <1>5, <2>4, <2>5, <2>6, StreamMoves
<1>7. CASE OtherLeaves(t) /\ Holds(t)
  <2>1. PICK s : s = [d EXCEPT !.others = FALSE]
    OBVIOUS
  <2>2. /\ s \in Streams /\ s.asked = d.asked /\ s.socket = d.socket /\ s.connected = d.connected
        /\ ~s.others /\ s.shared = d.shared
    BY <2>1 DEF Streams
  <2>3. streams' = [streams EXCEPT ![t] = s]
    BY <1>2, <1>7, <2>1 DEF OtherLeaves
  <2>4. HasListener(s, b)' /\ IsFollowed(s)'
    BY <1>1, <1>2, <1>3, <1>4, <1>7, <2>2 DEF HasListener, IsFollowed
  <2> QED BY <1>3, <1>4, <1>5, <2>2, <2>3, <2>4, StreamMoves
<1>8. CASE OtherLeaves(t) /\ ~Holds(t)
  <2>1. PICK s : s = NoStream
    OBVIOUS
  <2>2. s \in Streams /\ s.asked = 0 /\ s.socket = "none" /\ ~s.others
    BY <2>1 DEF Streams, NoStream
  <2>3. streams' = [streams EXCEPT ![t] = s]
    BY <1>8, <2>1 DEF OtherLeaves
  <2>4. 0 <= Len(renewals)
    BY <1>1 DEF HookTyped
  <2>5. HasListener(s, b)'
    BY <1>4, <2>2, <2>4 DEF HasListener
  <2> QED BY <1>3, <1>4, <1>5, <1>8, <2>2, <2>3, <2>5, StreamMoves
<1> QED BY <1>6, <1>7, <1>8

(* What the stream's callbacks tell reaches the hook while it holds it.      *)
LEMMA CallbacksKeep ==
    ASSUME HookInv, NEW t \in HookTokens, StreamOpens(t) \/ StreamFails(t) \/ AuthExpires(t)
    PROVE  HookInv'
<1>1. /\ HookTyped /\ HasListener(streams[t], Holds(t)) /\ (Holds(t) => IsFollowed(streams[t]))
      /\ Len(renewals) \in Nat
  BY DEF HookInv, HookTyped
<1>2. PICK d \in Streams : d = streams[t]
  BY <1>1 DEF HookTyped
<1>3. PICK b \in BOOLEAN : b <=> Holds(t)
  BY Zenon
<1>4. UNCHANGED <<page, auth, effect>>
  BY DEF StreamOpens, StreamFails, AuthExpires
<1>5. CASE StreamOpens(t)
  <2>1. PICK s : s = [d EXCEPT !.socket = "open", !.connected = TRUE, !.asked = 0]
    OBVIOUS
  <2>2. s \in Streams /\ s.asked = 0 /\ s.others = d.others /\ s.shared = d.shared
    BY <2>1 DEF Streams
  <2>3. d.socket = "connecting" /\ streams' = [streams EXCEPT ![t] = s] /\ UNCHANGED renewals
    BY <1>2, <1>5, <2>1 DEF StreamOpens
  <2>4. shown' = IF b THEN [shown EXCEPT !.connected = TRUE, !.caughtUp = ~shown.lastId] ELSE shown
    BY <1>3, <1>5 DEF StreamOpens, TellHook
  <2>5. shown' \in Shown /\ (~b => shown' = shown) /\ (b => shown'.connected)
    BY <1>1, <2>4 DEF HookTyped, Shown
  <2>6. HasListener(s, b)' /\ (b => IsFollowed(s)')
    BY <1>1, <1>2, <1>3, <2>2, <2>3, <2>5 DEF HasListener, IsFollowed
  <2>7. renewals' \in Seq({"pending", "answered", "failed"}) /\ Len(renewals) <= Len(renewals')
    BY <1>1, <2>3 DEF HookTyped
  <2> QED BY <1>3, <1>4, <2>2, <2>3, <2>5, <2>6, <2>7, StreamMoves
<1>6. CASE StreamFails(t)
  <2>1. PICK s : s = [d EXCEPT !.socket = "connecting", !.connected = FALSE]
    OBVIOUS
  <2>2. /\ s \in Streams /\ s.asked = d.asked /\ s.others = d.others /\ s.shared = d.shared
        /\ s.socket # "none" /\ ~s.connected
    BY <2>1 DEF Streams
  <2>3. d.socket # "none" /\ streams' = [streams EXCEPT ![t] = s] /\ UNCHANGED renewals
    BY <1>2, <1>6, <2>1 DEF StreamFails
  <2>4. shown' = IF b THEN [shown EXCEPT !.connected = FALSE] ELSE shown
    BY <1>3, <1>6 DEF StreamFails, TellHook
  <2>5. shown' \in Shown /\ (~b => shown' = shown)
    BY <1>1, <2>4 DEF HookTyped, Shown
  <2>6. HasListener(s, b)' /\ (b => IsFollowed(s)')
    BY <1>1, <1>2, <1>3, <1>4, <2>2, <2>3 DEF HasListener, IsFollowed
  <2>7. renewals' \in Seq({"pending", "answered", "failed"}) /\ Len(renewals) <= Len(renewals')
    BY <1>1, <2>3 DEF HookTyped
  <2> QED BY <1>3, <1>4, <2>2, <2>3, <2>5, <2>6, <2>7, StreamMoves
<1>7. CASE AuthExpires(t) /\ renewals' = renewals
  <2>1. PICK s : s = [d EXCEPT !.connected = FALSE]
    OBVIOUS
  <2>2. /\ s \in Streams /\ s.asked = d.asked /\ s.others = d.others /\ s.shared = d.shared
        /\ s.socket = d.socket /\ ~s.connected
    BY <2>1 DEF Streams
  <2>3. renewals # Append(renewals, "pending")
    BY <1>1 DEF HookTyped
  <2>4. /\ streams' = [streams EXCEPT ![t] = s]
        /\ shown' = IF b THEN [shown EXCEPT !.connected = FALSE] ELSE shown
    BY <1>2, <1>3, <1>7, <2>1, <2>3 DEF AuthExpires, TellHook
  <2>5. shown' \in Shown /\ (~b => shown' = shown)
    BY <1>1, <2>4 DEF HookTyped, Shown
  <2>6. HasListener(s, b)' /\ (b => IsFollowed(s)')
    BY <1>1, <1>2, <1>3, <1>4, <1>7, <2>2 DEF HasListener, IsFollowed
  <2>7. renewals' \in Seq({"pending", "answered", "failed"}) /\ Len(renewals) <= Len(renewals')
    BY <1>1, <1>7 DEF HookTyped
  <2> QED BY <1>3, <1>4, <1>7, <2>2, <2>4, <2>5, <2>6, <2>7, StreamMoves
<1>8. CASE AuthExpires(t) /\ renewals' # renewals
  <2>0. PICK k \in Nat : k = Len(renewals) + 1
    BY <1>1
  <2>1. PICK s : s = [d EXCEPT !.connected = FALSE, !.asked = k]
    OBVIOUS
  <2>2. /\ s \in Streams /\ s.asked = k /\ s.others = d.others
        /\ s.shared = d.shared /\ s.socket = d.socket /\ ~s.connected
    BY <2>1 DEF Streams
  <2>3. /\ d.socket = "open" /\ b /\ renewals' = Append(renewals, "pending")
        /\ streams' = [streams EXCEPT ![t] = s] /\ UNCHANGED shown
    BY <1>2, <1>3, <1>8, <2>0, <2>1 DEF AuthExpires
  <2>4. /\ renewals' \in Seq({"pending", "answered", "failed"}) /\ Len(renewals') = Len(renewals) + 1
        /\ renewals'[Len(renewals) + 1] = "pending"
        /\ \A i \in 1..Len(renewals) : renewals'[i] = renewals[i]
    BY <1>1, <2>3 DEF HookTyped
  <2>5. HasListener(s, b)'
    BY <1>1, <1>2, <2>0, <2>2, <2>3, <2>4 DEF HasListener
  <2>6. IsFollowed(s)'
    BY <2>0, <2>2, <2>4 DEF IsFollowed
  <2>7. shown' \in Shown /\ Len(renewals) <= Len(renewals')
    BY <1>1, <2>3, <2>4 DEF HookTyped
  <2> QED BY <1>3, <1>4, <2>2, <2>3, <2>4, <2>5, <2>6, <2>7, StreamMoves
<1> QED BY <1>5, <1>6, <1>7, <1>8

(* The page, the token and the provider.                                     *)
LEMMA AroundKeeps ==
    ASSUME HookInv,
           \/ PageHides \/ HideTimerFires \/ PageShows
           \/ \E t \in HookTokens : PropChanges(t) \/ \E r \in DOMAIN renewals : RenewalAnswers(r, t)
           \/ \E t \in HookTokens : \E hasId, accepted \in BOOLEAN : EventComes(t, hasId, accepted)
           \/ \E r \in DOMAIN renewals : RenewalFails(r)
    PROVE  HookInv'
<1>1. HookTyped /\ VisibleIsActive /\ auth.refresh \in Nat /\ Len(renewals) \in Nat
  BY DEF HookInv, HookTyped, Auths
<1>2. CASE PageHides \/ HideTimerFires \/ PageShows
  <2>1. UNCHANGED <<auth, renewals, streams, effect, shown>>
    BY <1>2 DEF PageHides, HideTimerFires, PageShows
  <2>2. page' \in Pages /\ page'.mounted = page.mounted /\ VisibleIsActive'
    <3>1. CASE PageHides
      BY <1>1, <3>1 DEF PageHides, VisibleIsActive, HookTyped, Pages
    <3>2. CASE HideTimerFires
      BY <1>1, <3>2 DEF HideTimerFires, VisibleIsActive, HookTyped, Pages
    <3>3. CASE PageShows
      BY <1>1, <3>3 DEF PageShows, PageOnShow, VisibleIsActive, HookTyped, Pages
    <3> QED BY <1>2, <3>1, <3>2, <3>3
  <2>3. HookTyped'
    BY <1>1, <2>1, <2>2 DEF HookTyped
  <2> QED BY <1>1, <2>1, <2>2, <2>3, StreamsStay
<1>3. ASSUME NEW t \in HookTokens, PropChanges(t) PROVE HookInv'
  <2>1. /\ auth' = [auth EXCEPT !.prop = t, !.token = t]
        /\ UNCHANGED <<page, renewals, streams, effect, shown>>
    BY <1>3 DEF PropChanges
  <2>2. auth' \in Auths /\ auth'.refresh = auth.refresh
    BY <1>1, <2>1 DEF HookTyped, Auths
  <2>3. HookTyped' /\ VisibleIsActive'
    BY <1>1, <2>1, <2>2 DEF HookTyped, VisibleIsActive
  <2> QED BY <1>1, <2>1, <2>2, <2>3, StreamsStay
<1>4. ASSUME NEW t \in HookTokens, NEW r \in DOMAIN renewals, RenewalAnswers(r, t) PROVE HookInv'
  <2>0. PICK k \in Nat : k = auth.refresh + 1
    BY <1>1
  <2>1. /\ auth' = [auth EXCEPT !.token = t, !.refresh = k]
        /\ renewals' = [renewals EXCEPT ![r] = "answered"]
        /\ UNCHANGED <<page, streams, effect, shown>>
    BY <1>4, <2>0 DEF RenewalAnswers
  <2>2. auth' \in Auths /\ auth'.refresh = k
    BY <1>1, <2>1 DEF HookTyped, Auths
  <2>3. renewals' \in Seq({"pending", "answered", "failed"}) /\ Len(renewals') = Len(renewals)
    BY <1>1, <2>1 DEF HookTyped
  <2>4. HookTyped' /\ VisibleIsActive'
    BY <1>1, <2>1, <2>2, <2>3 DEF HookTyped, VisibleIsActive
  <2>5. auth.refresh <= auth'.refresh /\ auth'.refresh # auth.refresh
    BY <1>1, <2>0, <2>2
  <2> QED BY <2>1, <2>3, <2>4, <2>5, StreamsStay
<1>5. ASSUME NEW t \in HookTokens, NEW hasId \in BOOLEAN, NEW accepted \in BOOLEAN,
             EventComes(t, hasId, accepted)
      PROVE  HookInv'
  <2>1. UNCHANGED <<page, auth, renewals, streams, effect>>
    BY <1>5 DEF EventComes
  <2>2. PICK noted : noted = [shown EXCEPT !.lastId = @ \/ hasId]
    OBVIOUS
  <2>3. noted \in Shown /\ noted.connected = shown.connected
    <3>1. PICK x \in BOOLEAN : x = (shown.lastId \/ hasId)
      OBVIOUS
    <3>2. noted = [shown EXCEPT !.lastId = x]
      BY <2>2, <3>1
    <3> QED BY <1>1, <3>2 DEF HookTyped, Shown
  <2>4. shown' = shown \/ shown' = noted \/ shown' = [noted EXCEPT !.caughtUp = TRUE]
    BY <1>5, <2>2 DEF EventComes, TellHook
  <2>5. shown' \in Shown /\ shown'.connected = shown.connected
    BY <1>1, <2>3, <2>4 DEF HookTyped, Shown
  <2>6. HookTyped' /\ VisibleIsActive'
    BY <1>1, <2>1, <2>5 DEF HookTyped, VisibleIsActive
  <2> QED BY <1>1, <2>1, <2>5, <2>6, StreamsStay
<1>6. ASSUME NEW r \in DOMAIN renewals, RenewalFails(r) PROVE HookInv'
  <2>1. /\ renewals' = [renewals EXCEPT ![r] = "failed"]
        /\ UNCHANGED <<page, auth, streams, effect, shown>>
    BY <1>6 DEF RenewalFails
  <2>2. /\ renewals' \in Seq({"pending", "answered", "failed"}) /\ Len(renewals') = Len(renewals)
        /\ \A i \in 1..Len(renewals) : renewals'[i] = renewals[i] \/ renewals'[i] = "failed"
    BY <1>1, <2>1 DEF HookTyped
  <2>3. HookTyped' /\ VisibleIsActive'
    BY <1>1, <2>1, <2>2 DEF HookTyped, VisibleIsActive
  <2> QED BY <1>1, <2>1, <2>2, <2>3, StreamsStay
<1> QED BY <1>2, <1>3, <1>4, <1>5, <1>6

(* For every set of tokens and whatever the order of visibility changes,     *)
(* expiries, renewals and effects: a visible hook is not paused, no stream   *)
(* is without a listener, a stream that works is shown as connected, and an  *)
(* expired one is left once the provider has answered.                       *)
THEOREM HookKeepsUp == HookSpec => []HookFollowsStream
<1>1. HookInit => HookInv
  <2> SUFFICES ASSUME HookInit PROVE HookInv
    OBVIOUS
  <2>1. PICK t \in HookTokens :
           /\ auth = [prop |-> t, token |-> t, refresh |-> 0]
           /\ effect = [token |-> NoToken, refresh |-> 0, active |-> FALSE, ran |-> FALSE]
    BY DEF HookInit
  <2>2. auth \in Auths /\ effect \in Effects /\ ~effect.active /\ ~effect.ran
        /\ effect.refresh <= auth.refresh
    BY <2>1 DEF Auths, Effects
  <2>3. NoStream \in Streams /\ NoStream.socket = "none" /\ NoStream.asked = 0 /\ ~NoStream.others
    BY DEF NoStream, Streams
  <2>4. streams \in [HookTokens -> Streams] /\ \A u \in HookTokens : streams[u] = NoStream
    BY <2>3 DEF HookInit
  <2>5. renewals \in Seq({"pending", "answered", "failed"}) /\ 0 <= Len(renewals)
    BY DEF HookInit
  <2>6. page \in Pages /\ shown \in Shown /\ VisibleIsActive
    BY DEF HookInit, Pages, Shown, VisibleIsActive
  <2>7. HookTyped
    BY <2>2, <2>4, <2>5, <2>6 DEF HookTyped
  <2>8. \A u \in HookTokens : HasListener(streams[u], Holds(u))
    BY <2>3, <2>4, <2>5 DEF HasListener
  <2> QED BY <2>2, <2>6, <2>7, <2>8 DEF HookInv, Holds
<1>2. HookInv /\ [HookNext]_hookVars => HookInv'
  <2> SUFFICES ASSUME HookInv, [HookNext]_hookVars PROVE HookInv'
    OBVIOUS
  <2>1. CASE UNCHANGED hookVars
    <3>1. HookTyped' /\ VisibleIsActive' /\ Len(renewals) \in Nat /\ auth.refresh \in Nat
      BY <2>1 DEF hookVars, HookInv, HookTyped, VisibleIsActive, Auths
    <3> QED BY <2>1, <3>1, StreamsStay DEF hookVars
  <2>2. CASE RunEffect \/ UnmountHook
    BY <2>2, EffectKeeps, UnmountHookKeeps
  <2>3. ASSUME NEW t \in HookTokens,
               OtherComes(t) \/ OtherLeaves(t) \/ StreamOpens(t) \/ StreamFails(t) \/ AuthExpires(t)
        PROVE  HookInv'
    BY <2>3, OthersKeep, CallbacksKeep
  <2>4. CASE \/ PageHides \/ HideTimerFires \/ PageShows
             \/ \E t \in HookTokens : \/ PropChanges(t)
                                      \/ \E r \in DOMAIN renewals : RenewalAnswers(r, t)
             \/ \E t \in HookTokens : \E hasId, accepted \in BOOLEAN : EventComes(t, hasId, accepted)
             \/ \E r \in DOMAIN renewals : RenewalFails(r)
    BY <2>4, AroundKeeps
  <2> QED BY <2>1, <2>2, <2>3, <2>4 DEF HookNext
<1>3. HookInv => HookFollowsStream
  <2> SUFFICES ASSUME HookInv PROVE HookFollowsStream
    OBVIOUS
  <2>1. HookTyped /\ VisibleIsActive
    BY DEF HookInv
  <2>2. NoStrayStream
    BY <2>1 DEF HookInv, NoStrayStream, Settled, Stale, HasListener, HookTyped, Pages, Effects
  <2>3. Settled /\ page.active => /\ Holds(auth.token) /\ auth.token \in HookTokens
                                  /\ IsFollowed(streams[auth.token])
                                  /\ auth.refresh = effect.refresh
    BY <2>1 DEF HookInv, Settled, Stale, Holds, HookTyped, Auths
  <2>4. ConnectedIsShown
    BY <2>3 DEF ConnectedIsShown, IsFollowed
  <2>5. ExpiredIsLeft
    BY <2>3 DEF ExpiredIsLeft, IsFollowed
  <2> QED BY <2>1, <2>2, <2>4, <2>5 DEF HookFollowsStream
<1> QED BY <1>1, <1>2, <1>3, PTL DEF HookSpec

-----------------------------------------------------------------------------
-----------------------------------------------------------------------------
(* ContractState                                                             *)

Fetches == [key: LedgerKeys, aborted: BOOLEAN, done: BOOLEAN]

ReaderTyped ==
    /\ keyProp \in LedgerKeys \cup {NoLedgerKey} /\ effectOf \in LedgerKeys \cup {NoLedgerKey}
    /\ fetches \in Seq(Fetches)
    /\ entry \in [fetch: Nat, loading: BOOLEAN, error: BOOLEAN]

(* Only the last fetch has not been aborted, and it is the effect's; what is *)
(* shown is of that fetch or waits for it.                                   *)
LastSpeaks ==
    /\ fetches # <<>> /\ fetches[Len(fetches)].key = effectOf /\ ~fetches[Len(fetches)].aborted
    /\ entry.loading <=> ~fetches[Len(fetches)].done
    /\ ~entry.loading /\ ~entry.error => entry.fetch = Len(fetches)

ReaderInv ==
    /\ ReaderTyped
    /\ \A n \in DOMAIN fetches : n # Len(fetches) => fetches[n].aborted
    /\ IF effectOf = NoLedgerKey THEN \A n \in DOMAIN fetches : fetches[n].aborted
       ELSE LastSpeaks /\ keyProp # NoLedgerKey

(* Aborting leaves every fetch its key and its answer.                       *)
LEMMA AbortedAll ==
    ASSUME fetches \in Seq(Fetches)
    PROVE  /\ Aborted(fetches) \in Seq(Fetches) /\ Len(Aborted(fetches)) = Len(fetches)
           /\ \A n \in 1..Len(fetches) : Aborted(fetches)[n].aborted
<1>1. Len(fetches) \in Nat /\ DOMAIN fetches = 1..Len(fetches)
  OBVIOUS
<1>2. \A n \in 1..Len(fetches) : /\ [fetches[n] EXCEPT !.aborted = TRUE] \in Fetches
                                 /\ [fetches[n] EXCEPT !.aborted = TRUE].aborted = TRUE
  <2> TAKE n \in 1..Len(fetches)
  <2>1. PICK f \in Fetches : f = fetches[n]
    BY <1>1
  <2>2. [f EXCEPT !.aborted = TRUE] \in Fetches /\ [f EXCEPT !.aborted = TRUE].aborted = TRUE
    BY DEF Fetches
  <2> QED BY <2>1, <2>2
<1>3. Aborted(fetches) = [n \in 1..Len(fetches) |-> [fetches[n] EXCEPT !.aborted = TRUE]]
  BY <1>1 DEF Aborted
<1>4. \A n \in 1..Len(fetches) : Aborted(fetches)[n] \in Fetches /\ Aborted(fetches)[n].aborted = TRUE
  BY <1>2, <1>3
<1>5. Aborted(fetches) \in [1..Len(fetches) -> Fetches]
  BY <1>3, <1>4
<1> QED BY <1>1, <1>4, <1>5

(* A fetch is made for the effect's key.                                     *)
LEMMA FetchKeeps ==
    ASSUME ReaderInv, NEW k \in LedgerKeys, FetchState(k), effectOf' = k, keyProp' = keyProp,
           keyProp # NoLedgerKey
    PROVE  ReaderInv'
<1>1. fetches \in Seq(Fetches) /\ ReaderTyped /\ k # NoLedgerKey
  BY ContractStateAssumption DEF ReaderInv, ReaderTyped
<1>2. PICK old : old = Aborted(fetches)
  OBVIOUS
<1>3. PICK f : f = [key |-> k, aborted |-> FALSE, done |-> FALSE]
  OBVIOUS
<1>4. old \in Seq(Fetches) /\ \A n \in 1..Len(old) : old[n].aborted
  BY <1>1, <1>2, AbortedAll
<1>5. f \in Fetches /\ f.key = k /\ ~f.aborted /\ ~f.done
  BY <1>3 DEF Fetches
<1>6. fetches' = Append(old, f) /\ entry' = [entry EXCEPT !.loading = TRUE, !.error = FALSE]
  BY <1>2, <1>3 DEF FetchState
<1>7. /\ fetches' \in Seq(Fetches) /\ Len(fetches') = Len(old) + 1 /\ Len(old) \in Nat
      /\ fetches'[Len(old) + 1] = f /\ \A n \in 1..Len(old) : fetches'[n] = old[n]
  BY <1>4, <1>5, <1>6
<1>8. entry' \in [fetch: Nat, loading: BOOLEAN, error: BOOLEAN] /\ entry'.loading
  BY <1>1, <1>6 DEF ReaderTyped
<1>9. ReaderTyped'
  BY <1>1, <1>7, <1>8 DEF ReaderTyped
<1>10. LastSpeaks'
  <2>1. fetches' # <<>>
    BY <1>7
  <2>2. fetches'[Len(fetches')] = f
    BY <1>7
  <2> QED BY <1>5, <1>8, <2>1, <2>2 DEF LastSpeaks
<1>11. \A n \in DOMAIN fetches' : n # Len(fetches') => fetches'[n].aborted
  <2>1. DOMAIN fetches' = 1..(Len(old) + 1)
    BY <1>7
  <2> QED BY <1>4, <1>7, <2>1
<1> QED BY <1>1, <1>9, <1>10, <1>11 DEF ReaderInv

(* An answer, or a failure, of a fetch that was aborted says nothing.        *)
LEMMA AnswerKeeps ==
    ASSUME ReaderInv, NEW n \in DOMAIN fetches, AnswerShown(n) \/ FetchFails(n)
    PROVE  ReaderInv'
<1>1. ReaderTyped /\ Len(fetches) \in Nat /\ DOMAIN fetches = 1..Len(fetches)
  BY DEF ReaderInv, ReaderTyped
<1>2. PICK f \in Fetches : f = fetches[n]
  BY <1>1 DEF ReaderTyped
<1>3. PICK g : g = [f EXCEPT !.done = TRUE]
  OBVIOUS
<1>4. g \in Fetches /\ g.key = f.key /\ g.aborted = f.aborted /\ g.done
  BY <1>3 DEF Fetches
<1>5. fetches' = [fetches EXCEPT ![n] = g] /\ UNCHANGED <<keyProp, effectOf>>
  BY <1>2, <1>3 DEF AnswerShown, FetchFails
<1>6. /\ fetches' \in Seq(Fetches) /\ Len(fetches') = Len(fetches) /\ DOMAIN fetches' = DOMAIN fetches
      /\ fetches'[n] = g /\ \A m \in DOMAIN fetches : m # n => fetches'[m] = fetches[m]
  BY <1>1, <1>4, <1>5 DEF ReaderTyped
<1>7. \A m \in DOMAIN fetches : /\ fetches'[m].key = fetches[m].key
                                /\ fetches'[m].aborted = fetches[m].aborted
  BY <1>2, <1>4, <1>6
<1>8. /\ entry' \in [fetch: Nat, loading: BOOLEAN, error: BOOLEAN]
      /\ f.aborted => entry' = entry
      /\ ~f.aborted => /\ ~entry'.loading
                       /\ ~entry'.error => entry'.fetch = n
  <2>1. n \in Nat /\ entry \in [fetch: Nat, loading: BOOLEAN, error: BOOLEAN]
    BY <1>1 DEF ReaderTyped
  <2>2. CASE f.aborted
    BY <1>2, <2>1, <2>2 DEF AnswerShown, FetchFails, Speaks
  <2>3. CASE ~f.aborted /\ AnswerShown(n)
    <3>1. entry' = [entry EXCEPT !.fetch = n, !.loading = FALSE]
      BY <1>2, <2>3 DEF AnswerShown, Speaks
    <3> QED BY <2>1, <2>3, <3>1
  <2>4. CASE ~f.aborted /\ FetchFails(n)
    <3>1. entry' = [entry EXCEPT !.loading = FALSE, !.error = TRUE]
      BY <1>2, <2>4 DEF FetchFails, Speaks
    <3> QED BY <2>1, <2>4, <3>1
  <2> QED BY <2>2, <2>3, <2>4
<1>9. ReaderTyped'
  BY <1>1, <1>5, <1>6, <1>8 DEF ReaderTyped
<1>10. \A m \in DOMAIN fetches' : m # Len(fetches') => fetches'[m].aborted
  BY <1>6, <1>7 DEF ReaderInv
<1>11. CASE effectOf = NoLedgerKey
  <2>1. \A m \in DOMAIN fetches' : fetches'[m].aborted
    BY <1>6, <1>7, <1>11 DEF ReaderInv
  <2> QED BY <1>5, <1>9, <1>10, <1>11, <2>1 DEF ReaderInv
<1>12. CASE effectOf # NoLedgerKey
  <2>1. LastSpeaks /\ keyProp # NoLedgerKey
    BY <1>12 DEF ReaderInv
  <2>2. Len(fetches) \in DOMAIN fetches /\ fetches' # <<>>
    BY <1>1, <1>6
  <2>3. CASE n = Len(fetches)
    <3>1. ~f.aborted /\ f.key = effectOf
      BY <1>2, <2>1, <2>3 DEF LastSpeaks
    <3>2. fetches'[Len(fetches')] = g
      BY <1>6, <2>3
    <3>3. LastSpeaks'
      BY <1>4, <1>5, <1>6, <1>8, <2>2, <2>3, <3>1, <3>2 DEF LastSpeaks
    <3> QED BY <1>5, <1>9, <1>10, <1>12, <2>1, <3>3 DEF ReaderInv
  <2>4. CASE n # Len(fetches)
    <3>1. f.aborted
      BY <1>2, <2>4 DEF ReaderInv
    <3>2. LastSpeaks'
      BY <1>5, <1>6, <1>8, <2>1, <2>2, <2>4, <3>1 DEF LastSpeaks
    <3> QED BY <1>5, <1>9, <1>10, <1>12, <2>1, <3>2 DEF ReaderInv
  <2> QED BY <2>3, <2>4
<1> QED BY <1>11, <1>12

(* For every set of keys and every order of the answers: what a state hook   *)
(* shows without an error is the entry it asks for, as its last fetch read.  *)
THEOREM EntriesAreCurrent == ReaderSpec => []EntryIsCurrent
<1>1. ReaderInit => ReaderInv
  <2> SUFFICES ASSUME ReaderInit PROVE ReaderInv
    OBVIOUS
  <2>1. fetches = <<>> /\ DOMAIN fetches = {} /\ fetches \in Seq(Fetches)
    BY DEF ReaderInit
  <2>2. entry \in [fetch: Nat, loading: BOOLEAN, error: BOOLEAN]
    BY DEF ReaderInit, Blank
  <2> QED BY <2>1, <2>2 DEF ReaderInit, ReaderInv, ReaderTyped
<1>2. ReaderInv /\ [ReaderNext]_readerVars => ReaderInv'
  <2> SUFFICES ASSUME ReaderInv, [ReaderNext]_readerVars PROVE ReaderInv'
    OBVIOUS
  <2>0. ReaderTyped
    BY DEF ReaderInv
  <2>1. CASE UNCHANGED readerVars
    BY <2>1 DEF readerVars, ReaderInv, ReaderTyped, LastSpeaks
  <2>2. ASSUME NEW k \in LedgerKeys, RenderReader(k) PROVE ReaderInv'
    <3>1. keyProp' = k /\ UNCHANGED <<effectOf, fetches>> /\ k # NoLedgerKey
      BY <2>2, ContractStateAssumption DEF RenderReader
    <3>2. entry' = IF keyProp = NoLedgerKey THEN Blank ELSE entry
      BY <2>2 DEF RenderReader
    <3>3. ReaderTyped'
      BY <2>0, <3>1, <3>2 DEF ReaderTyped, Blank
    <3>4. effectOf # NoLedgerKey => LastSpeaks'
      BY <3>1, <3>2 DEF ReaderInv, LastSpeaks
    <3> QED BY <3>1, <3>3, <3>4 DEF ReaderInv
  <2>3. CASE RunReaderEffect
    <3>1. keyProp \in LedgerKeys
      BY <2>0, <2>3 DEF RunReaderEffect, ReaderTyped
    <3> QED BY <2>3, <3>1, FetchKeeps DEF RunReaderEffect
  <2>4. CASE Refresh
    <3>1. effectOf \in LedgerKeys /\ keyProp # NoLedgerKey
      BY <2>0, <2>4 DEF Refresh, ReaderTyped, ReaderInv
    <3> QED BY <2>4, <3>1, FetchKeeps DEF Refresh
  <2>5. CASE UnmountReader
    <3>1. /\ keyProp' = NoLedgerKey /\ effectOf' = NoLedgerKey /\ UNCHANGED entry
          /\ fetches' = Aborted(fetches)
      BY <2>5 DEF UnmountReader
    <3>2. /\ fetches' \in Seq(Fetches) /\ DOMAIN fetches' = 1..Len(fetches)
          /\ \A n \in 1..Len(fetches) : fetches'[n].aborted
      BY <2>0, <3>1, AbortedAll DEF ReaderTyped
    <3> QED BY <2>0, <3>1, <3>2 DEF ReaderInv, ReaderTyped
  <2>6. ASSUME NEW n \in DOMAIN fetches, AnswerShown(n) \/ FetchFails(n) PROVE ReaderInv'
    BY <2>6, AnswerKeeps
  <2> QED BY <2>1, <2>2, <2>3, <2>4, <2>5, <2>6 DEF ReaderNext
<1>3. ReaderInv => EntryIsCurrent
  BY DEF ReaderInv, LastSpeaks, EntryIsCurrent
<1> QED BY <1>1, <1>2, <1>3, PTL DEF ReaderSpec

-----------------------------------------------------------------------------
(***************************************************************************)
(* SpecPublisher                                                            *)
(***************************************************************************)
Discoveries == Indexers \X NewContracts
Works == [at: {"idle", "asking", "discovering", "building", "preparing", "sending", "polling"},
          seq: Nat, tx: Nat, again: BOOLEAN]
Transactions == [for: NewContracts, seq: Nat, status: {"NOT_FOUND", "SUCCESS", "FAILED"}]

PublisherTyped ==
    /\ work \in [Discoveries -> Works] /\ account \in Nat /\ sent \in Seq(Transactions)
    /\ promised \subseteq Discoveries

(* A discovery of c whose transaction the network could take next simulated  *)
(* it against a registry without c; one that polls has a transaction of c.   *)
WorkSound(r, c) ==
    /\ r.seq <= account + 1
    /\ r.at = "sending" /\ r.seq = account + 1 => c \notin onChain
    /\ r.at = "polling" => r.tx \in DOMAIN sent /\ sent[r.tx].for = c

(* A pending transaction the network could take next is not published yet;   *)
(* one that was taken published its contract.                                *)
TransactionSound(s) ==
    /\ s.status # "FAILED"
    /\ s.status = "SUCCESS" => s.for \in onChain
    /\ s.status = "NOT_FOUND" => s.seq <= account + 1
    /\ s.status = "NOT_FOUND" /\ s.seq = account + 1 => s.for \notin onChain

PublisherInv ==
    /\ PublisherTyped /\ PromisedIsPublished
    /\ \A w \in Discoveries : WorkSound(work[w], w[2])
    /\ \A i \in DOMAIN sent : TransactionSound(sent[i])

(* Why a discovery that ends may hand out the spec.                          *)
Promise(w) == {v \in {w} : w[2] \in onChain \/ w \in refused' \/ w[1] \in dryRun}

(* A discovery moves on while the chain and the transactions stay.           *)
LEMMA DiscoveryMoves ==
    ASSUME PublisherInv, NEW w \in Discoveries, NEW r \in Works, Becomes(w, r),
           UNCHANGED <<onChain, account, sent, dryRun>>, WorkSound(r, w[2]),
           refused \subseteq refused', promised' \subseteq promised \cup Promise(w)
    PROVE  PublisherInv'
<1>1. PublisherTyped /\ PromisedIsPublished
  BY DEF PublisherInv
<1>2. /\ work' \in [Discoveries -> Works] /\ work'[w] = r
      /\ \A v \in Discoveries : v # w => work'[v] = work[v]
  BY <1>1 DEF PublisherTyped, Becomes
<1>3. PublisherTyped' /\ PromisedIsPublished'
  BY <1>1, <1>2 DEF PublisherTyped, PromisedIsPublished, Promise
<1>4. ASSUME NEW v \in Discoveries PROVE WorkSound(work[v], v[2])'
  <2>1. CASE v = w
    BY <1>2, <2>1 DEF WorkSound
  <2>2. CASE v # w
    BY <1>2, <2>2 DEF PublisherInv, WorkSound
  <2> QED BY <2>1, <2>2
<1>5. \A i \in DOMAIN sent' : TransactionSound(sent[i])'
  BY DEF PublisherInv, TransactionSound
<1> QED BY <1>3, <1>4, <1>5 DEF PublisherInv

(* The discovery ends, whatever became of it.                                *)
LEMMA IdleIsSound ==
    ASSUME PublisherInv, NEW c
    PROVE  NoWork \in Works /\ WorkSound(NoWork, c)
<1>1. account \in Nat
  BY DEF PublisherInv, PublisherTyped
<1>2. NoWork \in Works /\ NoWork.seq = 0 /\ NoWork.at = "idle"
  BY DEF NoWork, Works
<1> QED BY <1>1, <1>2 DEF WorkSound

(* A publish() that throws ends the discovery or repeats it once; only a     *)
(* contract error is a promise.                                              *)
LEMMA ThrowIsSound ==
    ASSUME PublisherInv, NEW w \in Discoveries, NEW why, PublishThrows(w, why),
           why = "AlreadyPublished" => w[2] \in onChain,
           UNCHANGED <<onChain, account, sent, dryRun>>
    PROVE  PublisherInv'
<1>1. refused \subseteq refused' /\ promised' \subseteq promised \cup Promise(w)
  BY DEF PublishThrows, CountsAsPublished, Promise
<1>2. CASE Becomes(w, NoWork)
  BY <1>1, <1>2, IdleIsSound, DiscoveryMoves
<1>3. CASE Becomes(w, [work[w] EXCEPT !.at = "building", !.again = TRUE])
  <2>1. PICK r : r = [work[w] EXCEPT !.at = "building", !.again = TRUE]
    OBVIOUS
  <2>2. r \in Works /\ WorkSound(r, w[2])
    <3>1. work[w] \in Works /\ WorkSound(work[w], w[2])
      BY DEF PublisherInv, PublisherTyped
    <3>2. r \in Works /\ r.seq = work[w].seq /\ r.at = "building"
      BY <2>1, <3>1 DEF Works
    <3> QED BY <3>1, <3>2 DEF WorkSound
  <2> QED BY <1>1, <1>3, <2>1, <2>2, DiscoveryMoves
<1> QED BY <1>2, <1>3 DEF PublishThrows

(* What one discovery does on its own.                                       *)
LEMMA DiscoveriesKeep ==
    ASSUME PublisherInv, NEW w \in Discoveries,
           \/ EnsureDiscovered(w) \/ SpecKnown(w) \/ SpecUnknown(w) \/ CacheExpires(w)
           \/ NoEmbeddedSpec(w) \/ BackoffOver(w) \/ Discovered(w) \/ LoadAccount(w)
           \/ Prepare(w) \/ Confirmed(w) \/ Throws(w),
           UNCHANGED dryRun
    PROVE  PublisherInv'
<1>1. /\ PublisherTyped /\ work[w] \in Works /\ WorkSound(work[w], w[2])
      /\ account \in Nat /\ PromisedIsPublished
  BY DEF PublisherInv, PublisherTyped
<1>2. UNCHANGED <<onChain, account, sent, dryRun>>
  BY DEF EnsureDiscovered, SpecKnown, SpecUnknown, CacheExpires, NoEmbeddedSpec, BackoffOver,
         Discovered, LoadAccount, Prepare, Confirmed, Throws
<1>0. refused \subseteq refused'
  BY DEF EnsureDiscovered, SpecKnown, SpecUnknown, CacheExpires, NoEmbeddedSpec, BackoffOver,
         Discovered, LoadAccount, Prepare, PublishThrows, Confirmed, Throws
<1>3. CASE \/ SpecKnown(w) \/ NoEmbeddedSpec(w) \/ Throws(w)
  <2>1. Becomes(w, NoWork) /\ promised' \subseteq promised \cup Promise(w)
    BY <1>3 DEF SpecKnown, NoEmbeddedSpec, Throws, Promise
  <2> QED BY <1>0, <1>2, <2>1, IdleIsSound, DiscoveryMoves
<1>4. CASE Confirmed(w)
  <2>1. /\ work[w].tx \in DOMAIN sent /\ sent[work[w].tx].for = w[2]
        /\ Becomes(w, NoWork)
        /\ promised' = IF sent[work[w].tx].status = "SUCCESS" THEN promised \cup {w} ELSE promised
    BY <1>1, <1>4 DEF Confirmed, WorkSound
  <2>2. sent[work[w].tx].status = "SUCCESS" => w[2] \in onChain
    BY <2>1 DEF PublisherInv, TransactionSound
  <2>3. promised' \subseteq promised \cup Promise(w)
    BY <2>1, <2>2 DEF Promise
  <2> QED BY <1>0, <1>2, <2>1, <2>3, IdleIsSound, DiscoveryMoves
<1>5. CASE EnsureDiscovered(w)
  <2>1. PICK r : r = [NoWork EXCEPT !.at = "asking"]
    OBVIOUS
  <2>2. r \in Works /\ r.seq = 0 /\ r.at = "asking"
    BY <2>1 DEF NoWork, Works
  <2>3. WorkSound(r, w[2])
    BY <1>1, <2>2 DEF WorkSound
  <2> QED BY <1>0, <1>2, <1>5, <2>1, <2>2, <2>3, DiscoveryMoves DEF EnsureDiscovered
<1>6. CASE SpecUnknown(w)
  <2>1. PICK r : r = [work[w] EXCEPT !.at = "discovering"]
    OBVIOUS
  <2>2. r \in Works /\ r.seq = work[w].seq /\ r.at = "discovering"
    BY <1>1, <2>1 DEF Works
  <2>3. WorkSound(r, w[2])
    BY <1>1, <2>2 DEF WorkSound
  <2> QED BY <1>0, <1>2, <1>6, <2>1, <2>2, <2>3, DiscoveryMoves DEF SpecUnknown
<1>7. CASE Discovered(w)
  <2>1. PICK r : r = [work[w] EXCEPT !.at = "building"]
    OBVIOUS
  <2>2. r \in Works /\ r.seq = work[w].seq /\ r.at = "building"
    BY <1>1, <2>1 DEF Works
  <2>3. WorkSound(r, w[2])
    BY <1>1, <2>2 DEF WorkSound
  <2> QED BY <1>0, <1>2, <1>7, <2>1, <2>2, <2>3, DiscoveryMoves DEF Discovered
<1>8. CASE LoadAccount(w)
  <2>0. PICK k \in Nat : k = account + 1
    BY <1>1
  <2>1. PICK r : r = [work[w] EXCEPT !.at = "preparing", !.seq = k]
    OBVIOUS
  <2>2. r \in Works /\ r.seq = k /\ r.at = "preparing"
    BY <1>1, <2>1 DEF Works
  <2>3. WorkSound(r, w[2])
    BY <1>1, <2>0, <2>2 DEF WorkSound
  <2> QED BY <1>0, <1>2, <1>8, <2>0, <2>1, <2>2, <2>3, DiscoveryMoves DEF LoadAccount
<1>9. CASE Prepare(w)
  <2>1. CASE \/ w[2] \in onChain /\ PublishThrows(w, "AlreadyPublished")
             \/ PublishThrows(w, "contract_error")
    BY <1>2, <2>1, ThrowIsSound
  <2>2. CASE w[2] \notin onChain /\ w[1] \in dryRun /\ Becomes(w, NoWork)
             /\ promised' = promised \cup {w}
    <3>1. promised' \subseteq promised \cup Promise(w)
      BY <2>2 DEF Promise
    <3> QED BY <1>0, <1>2, <2>2, <3>1, IdleIsSound, DiscoveryMoves
  <2>3. CASE w[2] \notin onChain /\ Becomes(w, [work[w] EXCEPT !.at = "sending"])
             /\ UNCHANGED promised
    <3>1. PICK r : r = [work[w] EXCEPT !.at = "sending"]
      OBVIOUS
    <3>2. r \in Works /\ r.seq = work[w].seq /\ r.at = "sending"
      BY <1>1, <3>1 DEF Works
    <3>3. WorkSound(r, w[2])
      BY <1>1, <2>3, <3>2 DEF WorkSound
    <3> QED BY <1>0, <1>2, <2>3, <3>1, <3>2, <3>3, DiscoveryMoves
  <2> QED BY <1>9, <2>1, <2>2, <2>3 DEF Prepare
<1>10. CASE CacheExpires(w) \/ BackoffOver(w)
  <2>1. UNCHANGED <<work, promised>>
    BY <1>10 DEF CacheExpires, BackoffOver
  <2>2. PublisherTyped' /\ PromisedIsPublished'
    BY <1>0, <1>1, <1>2, <2>1 DEF PublisherTyped, PromisedIsPublished
  <2> QED BY <1>0, <1>2, <2>1, <2>2 DEF PublisherInv, WorkSound, TransactionSound
<1> QED BY <1>3, <1>4, <1>5, <1>6, <1>7, <1>8, <1>9, <1>10

(* What is sent was simulated since the last transaction was taken.          *)
LEMMA SendKeeps ==
    ASSUME PublisherInv, NEW w \in Discoveries, SendTransaction(w), UNCHANGED dryRun
    PROVE  PublisherInv'
<1>1. /\ PublisherTyped /\ PromisedIsPublished /\ WorkSound(work[w], w[2])
      /\ account \in Nat /\ Len(sent) \in Nat /\ w[2] \in NewContracts
      /\ sent \in Seq(Transactions) /\ DOMAIN sent = 1..Len(sent)
  BY DEF PublisherInv, PublisherTyped, Discoveries
<1>2. /\ work[w].at = "sending" /\ UNCHANGED <<onChain, account, dryRun>>
      /\ SequenceOf(w) = work[w].seq
  BY DEF SendTransaction, SequenceOf
<1>3. CASE PublishThrows(w, "tx_bad_seq") /\ UNCHANGED sent
  BY <1>2, <1>3, ThrowIsSound
<1>4. CASE ~(PublishThrows(w, "tx_bad_seq") /\ UNCHANGED sent)
  <2>0. PICK k \in Nat : k = Len(sent) + 1
    BY <1>1
  <2>1. PICK r : r = [work[w] EXCEPT !.at = "polling", !.tx = k]
    OBVIOUS
  <2>2. PICK s : s = [for |-> w[2], seq |-> work[w].seq, status |-> "NOT_FOUND"]
    OBVIOUS
  <2>3. /\ work[w].seq = account + 1 /\ sent' = Append(sent, s)
        /\ work' = [work EXCEPT ![w] = r] /\ UNCHANGED <<promised, refused>>
    BY <1>2, <1>4, <2>0, <2>1, <2>2 DEF SendTransaction, Becomes
  <2>4. r \in Works /\ r.seq = work[w].seq /\ r.at = "polling" /\ r.tx = k
    BY <1>1, <2>1 DEF PublisherTyped, Works
  <2>5. work[w].seq \in Nat
    BY <1>1 DEF PublisherTyped, Works
  <2>6. s \in Transactions /\ s.for = w[2] /\ s.seq = work[w].seq /\ s.status = "NOT_FOUND"
    BY <1>1, <2>2, <2>5 DEF Transactions
  <2>7. w[2] \notin onChain
    BY <1>1, <1>2, <2>3 DEF WorkSound
  <2>8. /\ sent' \in Seq(Transactions) /\ DOMAIN sent' = 1..k /\ sent'[k] = s
        /\ \A i \in 1..Len(sent) : sent'[i] = sent[i]
        /\ \A i \in 1..k : i \in 1..Len(sent) \/ i = k
    BY <1>1, <2>0, <2>3, <2>6
  <2>9. /\ work' \in [Discoveries -> Works] /\ work'[w] = r
        /\ \A v \in Discoveries : v # w => work'[v] = work[v]
    BY <1>1, <2>3, <2>4 DEF PublisherTyped
  <2>10. PublisherTyped' /\ PromisedIsPublished'
    BY <1>1, <1>2, <2>3, <2>8, <2>9 DEF PublisherTyped, PromisedIsPublished
  <2>11. ASSUME NEW v \in Discoveries PROVE WorkSound(work[v], v[2])'
    <3>1. CASE v = w
      BY <1>1, <1>2, <2>3, <2>4, <2>6, <2>8, <2>9, <3>1 DEF WorkSound
    <3>2. CASE v # w
      <4>1. WorkSound(work[v], v[2]) /\ work'[v] = work[v]
        BY <2>9, <3>2 DEF PublisherInv
      <4>2. 1..Len(sent) \subseteq 1..k
        BY <1>1, <2>0
      <4> QED BY <1>1, <1>2, <2>8, <4>1, <4>2 DEF WorkSound
    <3> QED BY <3>1, <3>2
  <2>12. ASSUME NEW i \in DOMAIN sent' PROVE TransactionSound(sent[i])'
    <3>1. CASE i = k
      BY <1>1, <1>2, <2>3, <2>6, <2>7, <2>8, <3>1 DEF TransactionSound
    <3>2. CASE i \in 1..Len(sent)
      BY <1>1, <1>2, <2>8, <3>2 DEF PublisherInv, TransactionSound
    <3> QED BY <2>8, <3>1, <3>2
  <2> QED BY <2>10, <2>11, <2>12 DEF PublisherInv
<1> QED BY <1>3, <1>4

(* Once the network took a transaction, none that was built before fits the  *)
(* account any more.                                                         *)
LEMMA ChainKeeps ==
    ASSUME PublisherInv, KeyUsedElsewhere \/ \E i \in DOMAIN sent : Included(i),
           UNCHANGED dryRun
    PROVE  PublisherInv'
<1>1. /\ PublisherTyped /\ PromisedIsPublished /\ account \in Nat
      /\ account' = account + 1 /\ UNCHANGED <<work, promised, refused, dryRun>>
  BY DEF PublisherInv, PublisherTyped, KeyUsedElsewhere, Included
<1>2. /\ sent' \in Seq(Transactions) /\ DOMAIN sent' = DOMAIN sent /\ onChain \subseteq onChain'
      /\ \A i \in DOMAIN sent : /\ sent'[i].for = sent[i].for /\ sent'[i].seq = sent[i].seq
                                /\ \/ sent'[i].status = sent[i].status
                                   \/ sent'[i].status = "SUCCESS" /\ sent[i].for \in onChain'
  <2>1. CASE KeyUsedElsewhere
    BY <1>1, <2>1 DEF KeyUsedElsewhere, PublisherTyped
  <2>2. ASSUME NEW i \in DOMAIN sent, Included(i) PROVE <1>2
    <3>1. /\ sent[i].for \notin onChain /\ sent[i] \in Transactions
          /\ sent' = [sent EXCEPT ![i].status =
                        IF sent[i].for \in onChain THEN "FAILED" ELSE "SUCCESS"]
          /\ onChain' = onChain \cup {sent[i].for}
      BY <1>1, <2>2 DEF Included, PublisherInv, PublisherTyped, TransactionSound
    <3>2. PICK s : s = [sent[i] EXCEPT !.status = "SUCCESS"]
      OBVIOUS
    <3>3. s \in Transactions /\ s.for = sent[i].for /\ s.seq = sent[i].seq /\ s.status = "SUCCESS"
      BY <3>1, <3>2 DEF Transactions
    <3>4. sent' = [sent EXCEPT ![i] = s]
      BY <3>1, <3>2
    <3>5. /\ sent' \in Seq(Transactions) /\ DOMAIN sent' = DOMAIN sent /\ sent'[i] = s
          /\ \A j \in DOMAIN sent : j # i => sent'[j] = sent[j]
      BY <1>1, <2>2, <3>3, <3>4 DEF PublisherTyped
    <3> QED BY <3>1, <3>3, <3>5
  <2> QED BY <2>1, <2>2
<1>3. PublisherTyped' /\ PromisedIsPublished'
  BY <1>1, <1>2 DEF PublisherTyped, PromisedIsPublished
<1>4. ASSUME NEW w \in Discoveries PROVE WorkSound(work[w], w[2])'
  <2>1. WorkSound(work[w], w[2]) /\ work[w].seq \in Nat
    BY <1>1 DEF PublisherInv, PublisherTyped, Works
  <2>2. work[w].seq <= account' + 1 /\ work[w].seq # account' + 1
    BY <1>1, <2>1 DEF WorkSound
  <2> QED BY <1>1, <1>2, <2>1, <2>2 DEF WorkSound
<1>5. ASSUME NEW i \in DOMAIN sent' PROVE TransactionSound(sent[i])'
  <2>0. i \in DOMAIN sent /\ sent \in Seq(Transactions)
    BY <1>1, <1>2 DEF PublisherTyped
  <2>1. TransactionSound(sent[i]) /\ sent[i] \in Transactions /\ sent[i].seq \in Nat
    <3>1. sent[i] \in Transactions
      BY <2>0
    <3> QED BY <2>0, <3>1 DEF PublisherInv, Transactions
  <2>2. sent[i].status = "NOT_FOUND" => sent[i].seq <= account' + 1 /\ sent[i].seq # account' + 1
    BY <1>1, <2>1 DEF TransactionSound
  <2> QED BY <1>2, <2>1, <2>2 DEF TransactionSound
<1> QED BY <1>3, <1>4, <1>5 DEF PublisherInv

(* However many processes publish with one key, whichever transactions       *)
(* collide or stay pending after the publisher gave up: whoever was promised *)
(* a spec finds it on chain, unless the registry refused it with another     *)
(* contract error or the process rehearses, and no transaction is included   *)
(* and fails.                                                                *)
THEOREM PublishingIsSound == PublisherSpec => []PublishingSound
<1>1. PublisherInit => PublisherInv
  <2> SUFFICES ASSUME PublisherInit PROVE PublisherInv
    OBVIOUS
  <2>1. NoWork \in Works /\ NoWork.seq = 0 /\ NoWork.at = "idle"
    BY DEF NoWork, Works
  <2>2. PublisherTyped /\ PromisedIsPublished
    BY <2>1 DEF PublisherInit, PublisherTyped, PromisedIsPublished, Discoveries
  <2>3. \A w \in Discoveries : WorkSound(work[w], w[2])
    BY <2>1 DEF PublisherInit, Discoveries, WorkSound
  <2> QED BY <2>2, <2>3 DEF PublisherInit, PublisherInv
<1>2. PublisherInv /\ [PublisherNext]_publisherVars => PublisherInv'
  <2> SUFFICES ASSUME PublisherInv, [PublisherNext]_publisherVars PROVE PublisherInv'
    OBVIOUS
  <2>1. CASE UNCHANGED publisherVars
    BY <2>1 DEF publisherVars, PublisherInv, PublisherTyped, PromisedIsPublished, WorkSound,
                TransactionSound
  <2>2. CASE PublisherNext
    BY <2>2, DiscoveriesKeep, SendKeeps, ChainKeeps DEF PublisherNext, Discoveries
  <2> QED BY <2>1, <2>2
<1>3. PublisherInv => PublishingSound
  BY DEF PublisherInv, PublishingSound, NoFeeInVain, TransactionSound
<1> QED BY <1>1, <1>2, <1>3, PTL DEF PublisherSpec

-----------------------------------------------------------------------------
(***************************************************************************)
(* VerificationJob                                                          *)
(***************************************************************************)
Runs == [at: {"idle", "next", "verifying", "recording", "reporting", "alerting", "done"},
         left: SUBSET SpecNames, spec: SpecNames \cup {NoStatus},
         previous: Statuses \cup {NoStatus}, status: Statuses \cup {NoStatus},
         counted: SUBSET SpecNames, errors: SUBSET SpecNames]

JobTyped ==
    /\ deployed \in [SpecNames -> Statuses] /\ runs \in [VJobs -> Runs]
    /\ statuses \in [SpecNames -> Seq(Statuses)]

(* What a run has left, has done, has in hand or has reported as an error is *)
(* everything.                                                               *)
RunCovers(r) ==
    /\ r.at = "next" => r.left \cup r.counted \cup r.errors = SpecNames
    /\ r.at \in {"verifying", "recording"} =>
          r.spec \in SpecNames /\ r.left \cup r.counted \cup r.errors \cup {r.spec} = SpecNames
    /\ r.at = "recording" => r.status \in Statuses
    /\ r.at \in {"reporting", "alerting"} =>
          r.spec \in SpecNames /\ r.left \cup r.counted \cup r.errors = SpecNames
    /\ r.at = "done" => r.counted \cup r.errors = SpecNames

HasInHand(r) == r.at \in {"verifying", "recording", "reporting", "alerting"}

(* What a run knows of the verdicts s of the contract it has in hand: before *)
(* record() the latest of them, after it the last two.                       *)
RunAware(r, s) ==
    /\ r.at \in {"verifying", "recording"} =>
          r.previous = IF Len(s) = 0 THEN NoStatus ELSE s[Len(s)]
    /\ r.at \in {"reporting", "alerting"} =>
          /\ Len(s) >= 1 /\ r.status = s[Len(s)]
          /\ r.previous = IF Len(s) = 1 THEN NoStatus ELSE s[Len(s) - 1]

(* Every change but the last is told, and the last one too unless a run has  *)
(* yet to tell it.                                                           *)
ToldUpTo(c) ==
    \A n \in 1 .. Len(statuses[c]) - 1 : statuses[c][n] # statuses[c][n + 1] =>
        \/ <<c, statuses[c][n], statuses[c][n + 1]>> \in alerts
        \/ n + 1 = Len(statuses[c]) /\ \E j \in VJobs : /\ runs[j].spec = c
                                                        /\ runs[j].at \in {"reporting", "alerting"}

AlertsShown(c) ==
    \A a \in alerts : a[1] = c =>
        \E n \in 1 .. Len(statuses[c]) - 1 : statuses[c][n] = a[2] /\ statuses[c][n + 1] = a[3]

(* One run at a time has a contract in hand.                                 *)
OneRun(c) == \A j, k \in VJobs : Busy(j, c) /\ Busy(k, c) => j = k

ContractSound(c) ==
    /\ OneRun(c) /\ ToldUpTo(c) /\ AlertsShown(c)
    /\ \A j \in VJobs : Busy(j, c) => RunAware(runs[j], statuses[c])

JobInv ==
    /\ JobTyped
    /\ \A j \in VJobs : RunCovers(runs[j])
    /\ \A c \in SpecNames \ excused : ContractSound(c)

(* A contract of which no run in hand, no verdict and no alert moved.        *)
LEMMA ContractStays ==
    ASSUME NEW c \in SpecNames, ContractSound(c), statuses'[c] = statuses[c],
           \A j \in VJobs : Busy(j, c)' => Busy(j, c),
           \A j \in VJobs : Busy(j, c)' => runs'[j] = runs[j],
           \A j \in VJobs : runs[j].spec = c /\ runs[j].at \in {"reporting", "alerting"} =>
                                runs'[j] = runs[j],
           alerts \subseteq alerts', \A a \in alerts' \ alerts : a[1] # c
    PROVE  ContractSound(c)'
<1>1. OneRun(c)'
  BY DEF ContractSound, OneRun
<1>2. ToldUpTo(c)'
  BY DEF ContractSound, ToldUpTo
<1>3. AlertsShown(c)'
  BY DEF ContractSound, AlertsShown
<1>4. \A j \in VJobs : Busy(j, c)' => RunAware(runs[j], statuses[c])'
  BY DEF ContractSound, RunAware
<1> QED BY <1>1, <1>2, <1>3, <1>4 DEF ContractSound

(* One run moves.  What is left to show is the run itself and the contract   *)
(* it has in hand before or after the step, the one of D.                    *)
LEMMA RunMoves ==
    ASSUME JobInv, NEW j \in VJobs, NEW r \in Runs, runs' = [runs EXCEPT ![j] = r],
           RunCovers(r), UNCHANGED deployed, statuses' \in [SpecNames -> Seq(Statuses)],
           excused \subseteq excused', NEW D \in SUBSET SpecNames,
           HasInHand(runs[j]) => runs[j].spec \in D, HasInHand(r) => r.spec \in D,
           \A c \in SpecNames \ D : statuses'[c] = statuses[c],
           alerts \subseteq alerts', \A a \in alerts' \ alerts : a[1] \in D,
           \A d \in D \ excused' : ContractSound(d)'
    PROVE  JobInv'
<1>1. JobTyped
  BY DEF JobInv
<1>2. /\ runs' \in [VJobs -> Runs] /\ runs'[j] = r
      /\ \A k \in VJobs : k # j => runs'[k] = runs[k]
  BY <1>1 DEF JobTyped
<1>3. JobTyped'
  BY <1>1, <1>2 DEF JobTyped
<1>4. ASSUME NEW k \in VJobs PROVE RunCovers(runs[k])'
  <2>1. CASE k = j
    BY <1>2, <2>1 DEF RunCovers
  <2>2. CASE k # j
    BY <1>2, <2>2 DEF JobInv, RunCovers
  <2> QED BY <2>1, <2>2
<1>5. ASSUME NEW c \in SpecNames \ excused', c \notin D PROVE ContractSound(c)'
  <2>1. ContractSound(c)
    BY <1>5 DEF JobInv
  <2>2. ~Busy(j, c) /\ ~Busy(j, c)'
    BY <1>2, <1>5 DEF Busy, HasInHand
  <2>3. \A k \in VJobs : k # j => (Busy(k, c)' <=> Busy(k, c))
    BY <1>2 DEF Busy
  <2>4. ~(runs[j].spec = c /\ runs[j].at \in {"reporting", "alerting"})
    BY <2>2 DEF Busy
  <2> QED BY <1>2, <1>5, <2>1, <2>2, <2>3, <2>4, ContractStays
<1> QED BY <1>3, <1>4, <1>5 DEF JobInv

(* A run with nothing in hand before or after the step.                      *)
LEMMA RunMovesIdle ==
    ASSUME JobInv, NEW j \in VJobs, NEW r \in Runs, runs' = [runs EXCEPT ![j] = r],
           RunCovers(r), ~HasInHand(runs[j]), ~HasInHand(r),
           UNCHANGED <<deployed, statuses, alerts, excused>>
    PROVE  JobInv'
<1>1. PICK D \in SUBSET SpecNames : D = {}
  OBVIOUS
<1>2. statuses' \in [SpecNames -> Seq(Statuses)]
  BY DEF JobInv, JobTyped
<1>3. /\ \A c \in SpecNames \ D : statuses'[c] = statuses[c]
      /\ excused \subseteq excused' /\ alerts \subseteq alerts'
      /\ \A a \in alerts' \ alerts : a[1] \in D
      /\ \A d \in D \ excused' : ContractSound(d)'
  BY <1>1
<1> QED BY <1>2, <1>3, RunMoves

(* A run with the contract d in hand.                                        *)
LEMMA RunMovesOn ==
    ASSUME JobInv, NEW j \in VJobs, NEW r \in Runs, runs' = [runs EXCEPT ![j] = r],
           RunCovers(r), UNCHANGED deployed, statuses' \in [SpecNames -> Seq(Statuses)],
           excused \subseteq excused', NEW d \in SpecNames,
           HasInHand(runs[j]) => runs[j].spec = d, HasInHand(r) => r.spec = d,
           \A c \in SpecNames : c # d => statuses'[c] = statuses[c],
           alerts \subseteq alerts', \A a \in alerts' \ alerts : a[1] = d,
           d \notin excused' => ContractSound(d)'
    PROVE  JobInv'
<1>1. PICK D \in SUBSET SpecNames : D = {d}
  OBVIOUS
<1>2. /\ \A c \in SpecNames \ D : statuses'[c] = statuses[c]
      /\ \A a \in alerts' \ alerts : a[1] \in D
      /\ \A e \in D \ excused' : ContractSound(e)'
      /\ HasInHand(runs[j]) => runs[j].spec \in D
      /\ HasInHand(r) => r.spec \in D
  <2>1. /\ \A c \in SpecNames \ D : statuses'[c] = statuses[c]
        /\ \A a \in alerts' \ alerts : a[1] \in D
        /\ HasInHand(runs[j]) => runs[j].spec \in D
        /\ HasInHand(r) => r.spec \in D
    BY <1>1
  <2>2. ASSUME NEW e \in D \ excused' PROVE ContractSound(e)'
    <3>1. e = d /\ d \notin excused'
      BY <1>1
    <3>2. ContractSound(d)'
      BY <3>1
    <3> QED BY <3>1, <3>2
  <2> QED BY <2>1, <2>2
<1> QED BY <1>2, RunMoves

(* Steps of a run with nothing in hand, and those that tell nothing.         *)
LEMMA QuietKeeps ==
    ASSUME JobInv, NEW j \in VJobs,
           StartJob(j) \/ EndJob(j) \/ VerifySchema(j) \/ ReportMismatch(j)
    PROVE  JobInv'
<1>1. /\ JobTyped /\ RunCovers(runs[j]) /\ UNCHANGED <<deployed, upgrades, statuses, alerts, excused>>
      /\ statuses' \in [SpecNames -> Seq(Statuses)]
  BY DEF JobInv, JobTyped, StartJob, EndJob, VerifySchema, ReportMismatch
<1>2. PICK q \in Runs : q = runs[j]
  BY <1>1 DEF JobTyped
<1>3. CASE StartJob(j)
  <2>1. PICK r : r = [q EXCEPT !.at = "next", !.left = SpecNames]
    OBVIOUS
  <2>2. /\ r \in Runs /\ r.at = "next" /\ r.left = SpecNames /\ r.counted \subseteq SpecNames
        /\ r.errors \subseteq SpecNames
    BY <2>1 DEF Runs
  <2>3. RunCovers(r) /\ ~HasInHand(r) /\ ~HasInHand(q)
    BY <1>2, <1>3, <2>2 DEF RunCovers, HasInHand, StartJob
  <2>4. runs' = [runs EXCEPT ![j] = r]
    BY <1>2, <1>3, <2>1 DEF StartJob
  <2> QED BY <1>1, <1>2, <2>2, <2>3, <2>4, RunMovesIdle
<1>4. CASE EndJob(j)
  <2>1. PICK r : r = [q EXCEPT !.at = "done"]
    OBVIOUS
  <2>2. r \in Runs /\ r.at = "done" /\ r.counted = q.counted /\ r.errors = q.errors
    BY <2>1 DEF Runs
  <2>3. RunCovers(r) /\ ~HasInHand(r) /\ ~HasInHand(q)
    BY <1>1, <1>2, <1>4, <2>2 DEF RunCovers, HasInHand, EndJob
  <2>4. runs' = [runs EXCEPT ![j] = r]
    BY <1>2, <1>4, <2>1 DEF EndJob
  <2> QED BY <1>1, <1>2, <2>2, <2>3, <2>4, RunMovesIdle
<1>5. ASSUME NEW r \in Runs, runs' = [runs EXCEPT ![j] = r], r.spec = q.spec,
             r.left = q.left, r.counted = q.counted, r.errors = q.errors,
             r.previous = q.previous,
             \/ q.at = "verifying" /\ r.at = "recording" /\ r.status \in Statuses
             \/ q.at = "reporting" /\ r.at = "alerting" /\ r.status = q.status
      PROVE  JobInv'
  <2>1. PICK d \in SpecNames : d = q.spec
    BY <1>1, <1>2, <1>5 DEF RunCovers
  <2>2. RunCovers(r) /\ HasInHand(r) /\ r.spec = d
    BY <1>1, <1>2, <1>5, <2>1 DEF RunCovers, HasInHand
  <2>3. ASSUME d \notin excused PROVE ContractSound(d)'
    <3>1. ContractSound(d)
      BY <2>3 DEF JobInv
    <3>2. /\ runs'[j] = r /\ \A k \in VJobs : k # j => runs'[k] = runs[k]
      BY <1>1, <1>5 DEF JobTyped
    <3>3. Busy(j, d) /\ Busy(j, d)' /\ \A k \in VJobs : Busy(k, d)' => Busy(k, d)
      BY <1>2, <1>5, <2>1, <3>2 DEF Busy
    <3>4. OneRun(d)'
      BY <3>1, <3>3 DEF ContractSound, OneRun
    <3>5. ToldUpTo(d)'
      <4>1. \A k \in VJobs : runs[k].spec = d /\ runs[k].at \in {"reporting", "alerting"} =>
               runs'[k].spec = d /\ runs'[k].at \in {"reporting", "alerting"}
        BY <1>2, <1>5, <2>1, <3>2
      <4> QED BY <1>1, <3>1, <4>1 DEF ContractSound, ToldUpTo
    <3>6. AlertsShown(d)'
      BY <1>1, <3>1 DEF ContractSound, AlertsShown
    <3>7. RunAware(q, statuses[d])
      BY <1>2, <3>1, <3>3 DEF ContractSound
    <3>8. RunAware(r, statuses[d])
      BY <1>5, <3>7 DEF RunAware
    <3>9. ASSUME NEW k \in VJobs, Busy(k, d)' PROVE RunAware(runs[k], statuses[d])'
      <4>1. k = j
        BY <3>3, <3>4, <3>9 DEF OneRun
      <4> QED BY <1>1, <3>2, <3>8, <4>1 DEF RunAware
    <3> QED BY <3>4, <3>5, <3>6, <3>9 DEF ContractSound
  <2>4. excused' = excused /\ alerts' = alerts /\ q = runs[j] /\ q.spec = d
    BY <1>1, <1>2, <2>1
  <2> QED BY <1>1, <1>5, <2>2, <2>3, <2>4, RunMovesOn
<1>6. CASE VerifySchema(j)
  <2>1. q.spec \in SpecNames /\ q.at = "verifying"
    BY <1>1, <1>2, <1>6 DEF VerifySchema, RunCovers
  <2>2. PICK s \in Statuses : s = deployed[q.spec]
    BY <1>1, <2>1 DEF JobTyped
  <2>3. PICK r : r = [q EXCEPT !.at = "recording", !.status = s]
    OBVIOUS
  <2>4. /\ r \in Runs /\ r.at = "recording" /\ r.status = s /\ r.spec = q.spec /\ r.left = q.left
        /\ r.counted = q.counted /\ r.errors = q.errors /\ r.previous = q.previous
    BY <2>2, <2>3 DEF Runs
  <2>5. runs' = [runs EXCEPT ![j] = r]
    BY <1>2, <1>6, <2>2, <2>3 DEF VerifySchema
  <2> QED BY <1>5, <2>1, <2>4, <2>5
<1>7. CASE ReportMismatch(j)
  <2>1. PICK r : r = [q EXCEPT !.at = "alerting"]
    OBVIOUS
  <2>2. /\ r \in Runs /\ r.at = "alerting" /\ r.status = q.status /\ r.spec = q.spec
        /\ r.left = q.left /\ r.counted = q.counted /\ r.errors = q.errors
        /\ r.previous = q.previous
    BY <2>1 DEF Runs
  <2>3. runs' = [runs EXCEPT ![j] = r] /\ q.at = "reporting"
    BY <1>2, <1>7, <2>1 DEF ReportMismatch
  <2> QED BY <1>5, <2>2, <2>3
<1> QED BY <1>3, <1>4, <1>6, <1>7

(* A run takes a contract in hand, knowing its latest verdict, unless        *)
(* another one has it.                                                       *)
LEMMA ReadKeeps ==
    ASSUME JobInv, NEW j \in VJobs, NEW c \in SpecNames, ReadPrevious(j, c)
    PROVE  JobInv'
<1>1. /\ JobTyped /\ RunCovers(runs[j]) /\ UNCHANGED <<deployed, upgrades, statuses, alerts>>
      /\ statuses' \in [SpecNames -> Seq(Statuses)] /\ statuses[c] \in Seq(Statuses)
      /\ excused' = excused \cup {d \in {c} : \E k \in VJobs : Busy(k, d)}
  BY DEF JobInv, JobTyped, ReadPrevious
<1>2. PICK q \in Runs : q = runs[j]
  BY <1>1 DEF JobTyped
<1>3. PICK p \in Statuses \cup {NoStatus} :
         p = Latest(c) /\ p = IF Len(statuses[c]) = 0 THEN NoStatus ELSE statuses[c][Len(statuses[c])]
  <2>1. CASE statuses[c] = <<>>
    BY <2>1 DEF Latest
  <2>2. CASE statuses[c] # <<>>
    BY <1>1, <2>2 DEF Latest, Last
  <2> QED BY <2>1, <2>2
<1>4. PICK l \in SUBSET SpecNames : l = q.left \ {c}
  BY DEF Runs
<1>5. PICK r : r = [q EXCEPT !.at = "verifying", !.spec = c, !.previous = p, !.left = l]
  OBVIOUS
<1>6. /\ r \in Runs /\ r.at = "verifying" /\ r.spec = c /\ r.previous = p /\ r.left = l
      /\ r.counted = q.counted /\ r.errors = q.errors
  BY <1>5 DEF Runs
<1>7. runs' = [runs EXCEPT ![j] = r] /\ q.at = "next" /\ c \in q.left
  BY <1>2, <1>3, <1>4, <1>5 DEF ReadPrevious
<1>8. RunCovers(r) /\ ~HasInHand(q)
  BY <1>1, <1>2, <1>4, <1>6, <1>7 DEF RunCovers, HasInHand
<1>9. ASSUME c \notin excused' PROVE ContractSound(c)'
  <2>1. ContractSound(c) /\ \A k \in VJobs : ~Busy(k, c)
    BY <1>1, <1>9 DEF JobInv
  <2>2. /\ runs'[j] = r /\ \A k \in VJobs : k # j => runs'[k] = runs[k]
    BY <1>1, <1>7 DEF JobTyped
  <2>3. \A k \in VJobs : Busy(k, c)' => k = j
    BY <2>1, <2>2 DEF Busy
  <2>4. OneRun(c)'
    BY <2>3 DEF OneRun
  <2>5. ToldUpTo(c)'
    BY <1>1, <2>1 DEF ContractSound, ToldUpTo, Busy
  <2>6. AlertsShown(c)'
    BY <1>1, <2>1 DEF ContractSound, AlertsShown
  <2>7. RunAware(runs[j], statuses[c])'
    BY <1>1, <1>3, <1>6, <2>2 DEF RunAware
  <2> QED BY <2>3, <2>4, <2>5, <2>6, <2>7 DEF ContractSound
<1> QED BY <1>1, <1>2, <1>6, <1>7, <1>8, <1>9, RunMovesOn

(* record(): the run that has the contract alone appends to the verdict it   *)
(* read, and has yet to tell the change.                                     *)
LEMMA RecordKeeps ==
    ASSUME JobInv, NEW j \in VJobs, RecordStatus(j)
    PROVE  JobInv'
<1>1. JobTyped /\ RunCovers(runs[j]) /\ UNCHANGED <<deployed, alerts, excused>>
  BY DEF JobInv, RecordStatus
<1>2. PICK q \in Runs : q = runs[j]
  BY <1>1 DEF JobTyped
<1>3. PICK c \in SpecNames : c = q.spec /\ q.at = "recording" /\ q.status \in Statuses
  BY <1>1, <1>2 DEF RunCovers, RecordStatus
<1>4. PICK s \in Seq(Statuses) : s = statuses[c]
  BY <1>1 DEF JobTyped
<1>5. PICK t : t = Append(s, q.status)
  OBVIOUS
<1>6. /\ t \in Seq(Statuses) /\ Len(s) \in Nat /\ Len(t) = Len(s) + 1 /\ t[Len(s) + 1] = q.status
      /\ \A n \in 1..Len(s) : t[n] = s[n]
  BY <1>3, <1>4, <1>5
<1>7. PICK counts \in SUBSET SpecNames : counts = q.counted \cup {c}
  BY DEF Runs
<1>8. PICK place \in {"reporting", "alerting"} :
         place = IF q.status = "mismatch" THEN "reporting" ELSE "alerting"
  OBVIOUS
<1>9. PICK r : r = [q EXCEPT !.at = place, !.counted = counts]
  OBVIOUS
<1>10. /\ r \in Runs /\ r.at = place /\ r.counted = counts /\ r.spec = c /\ r.left = q.left
       /\ r.errors = q.errors /\ r.status = q.status /\ r.previous = q.previous
  BY <1>3, <1>9 DEF Runs
<1>11. runs' = [runs EXCEPT ![j] = r] /\ statuses' = [statuses EXCEPT ![c] = t]
  BY <1>2, <1>3, <1>4, <1>5, <1>7, <1>8, <1>9 DEF RecordStatus
<1>12. /\ statuses' \in [SpecNames -> Seq(Statuses)] /\ statuses'[c] = t
       /\ \A d \in SpecNames : d # c => statuses'[d] = statuses[d]
  BY <1>1, <1>6, <1>11 DEF JobTyped
<1>13. RunCovers(r) /\ HasInHand(r) /\ HasInHand(q)
  BY <1>1, <1>2, <1>3, <1>7, <1>10 DEF RunCovers, HasInHand
<1>14. ASSUME c \notin excused PROVE ContractSound(c)'
  <2>1. ContractSound(c)
    BY <1>14 DEF JobInv
  <2>2. /\ runs'[j] = r /\ \A k \in VJobs : k # j => runs'[k] = runs[k]
    BY <1>1, <1>11 DEF JobTyped
  <2>3. Busy(j, c) /\ Busy(j, c)' /\ \A k \in VJobs : Busy(k, c)' => Busy(k, c)
    BY <1>2, <1>3, <1>10, <2>2 DEF Busy
  <2>4. OneRun(c) /\ OneRun(c)'
    BY <2>1, <2>3 DEF ContractSound, OneRun
  <2>5. \A k \in VJobs : ~(runs[k].spec = c /\ runs[k].at \in {"reporting", "alerting"})
    BY <1>2, <1>3, <2>3, <2>4 DEF OneRun, Busy
  <2>6. \A n \in 1 .. Len(s) - 1 : s[n] # s[n + 1] => <<c, s[n], s[n + 1]>> \in alerts
    BY <1>4, <2>1, <2>5 DEF ContractSound, ToldUpTo
  <2>7. ToldUpTo(c)'
    <3>1. ASSUME NEW n \in 1 .. Len(t) - 1, t[n] # t[n + 1]
          PROVE  \/ <<c, t[n], t[n + 1]>> \in alerts
                 \/ n + 1 = Len(t) /\ runs'[j].spec = c /\ runs'[j].at \in {"reporting", "alerting"}
      <4>1. CASE n = Len(s)
        BY <1>6, <1>10, <2>2, <4>1
      <4>2. CASE n # Len(s)
        <5>1. n \in 1 .. Len(s) - 1 /\ n \in 1..Len(s) /\ n + 1 \in 1..Len(s)
          BY <1>6, <4>2
        <5>2. t[n] = s[n] /\ t[n + 1] = s[n + 1]
          BY <1>6, <5>1
        <5> QED BY <2>6, <3>1, <5>1, <5>2
      <4> QED BY <4>1, <4>2
    <3> QED BY <1>1, <1>12, <3>1 DEF ToldUpTo
  <2>8. AlertsShown(c)'
    <3>1. ASSUME NEW a \in alerts, a[1] = c
          PROVE  \E n \in 1 .. Len(t) - 1 : t[n] = a[2] /\ t[n + 1] = a[3]
      <4>1. PICK n \in 1 .. Len(s) - 1 : s[n] = a[2] /\ s[n + 1] = a[3]
        BY <1>4, <2>1, <3>1 DEF ContractSound, AlertsShown
      <4>2. n \in 1 .. Len(t) - 1 /\ n \in 1..Len(s) /\ n + 1 \in 1..Len(s)
        BY <1>6
      <4>3. t[n] = s[n] /\ t[n + 1] = s[n + 1]
        BY <1>6, <4>2
      <4> QED BY <4>1, <4>2, <4>3
    <3> QED BY <1>1, <1>12, <3>1 DEF AlertsShown
  <2>9. q.previous = IF Len(s) = 0 THEN NoStatus ELSE s[Len(s)]
    BY <1>2, <1>3, <1>4, <2>1, <2>3 DEF ContractSound, RunAware
  <2>10. Len(t) >= 1 /\ r.status = t[Len(t)]
         /\ r.previous = IF Len(t) = 1 THEN NoStatus ELSE t[Len(t) - 1]
    <3>1. CASE Len(s) = 0
      BY <1>6, <1>10, <2>9, <3>1
    <3>2. CASE Len(s) # 0
      <4>1. Len(s) \in 1..Len(s) /\ Len(t) - 1 = Len(s) /\ Len(t) # 1 /\ Len(t) >= 1
        BY <1>6, <3>2
      <4> QED BY <1>6, <1>10, <2>9, <3>2, <4>1
    <3> QED BY <3>1, <3>2
  <2>11. ASSUME NEW k \in VJobs, Busy(k, c)' PROVE RunAware(runs[k], statuses[c])'
    <3>1. k = j
      BY <2>3, <2>4, <2>11 DEF OneRun
    <3> QED BY <1>10, <1>12, <2>2, <2>10, <3>1 DEF RunAware
  <2> QED BY <2>4, <2>7, <2>8, <2>11 DEF ContractSound
<1>15. /\ excused' = excused /\ alerts' = alerts /\ q = runs[j] /\ q.spec = c /\ r.spec = c
       /\ deployed' = deployed
  BY <1>1, <1>2, <1>3, <1>10
<1>16. /\ r \in Runs /\ RunCovers(r) /\ runs[j].spec = c
       /\ excused \subseteq excused' /\ alerts \subseteq alerts'
       /\ c \notin excused' => ContractSound(c)'
       /\ \A a \in alerts' \ alerts : a[1] = c
  BY <1>10, <1>13, <1>14, <1>15
<1>17. /\ runs' = [runs EXCEPT ![j] = r] /\ deployed' = deployed
       /\ statuses' \in [SpecNames -> Seq(Statuses)]
       /\ \A d \in SpecNames : d # c => statuses'[d] = statuses[d]
       /\ HasInHand(r) => r.spec = c
  BY <1>11, <1>12, <1>15
<1> QED BY <1>16, <1>17, RunMovesOn

(* What is left of a run's locals when it goes on to the next contract.      *)
LEMMA NextRun ==
    ASSUME NEW q \in Runs, NEW r, r = ToNext(q)
    PROVE  /\ r \in Runs /\ r.at = "next" /\ r.left = q.left /\ r.counted = q.counted
           /\ r.errors = q.errors
BY DEF ToNext, Runs

(* The alert that is due is given: the last change is told.                  *)
LEMMA AlertKeeps ==
    ASSUME JobInv, NEW j \in VJobs, AlertTransition(j)
    PROVE  JobInv'
<1>1. /\ JobTyped /\ RunCovers(runs[j]) /\ UNCHANGED <<deployed, statuses, excused>>
      /\ statuses' \in [SpecNames -> Seq(Statuses)]
  BY DEF JobInv, JobTyped, AlertTransition
<1>2. PICK q \in Runs : q = runs[j]
  BY <1>1 DEF JobTyped
<1>3. PICK c \in SpecNames : c = q.spec /\ q.at = "alerting"
  BY <1>1, <1>2 DEF RunCovers, AlertTransition
<1>4. PICK s \in Seq(Statuses) : s = statuses[c]
  BY <1>1 DEF JobTyped
<1>0. PICK len \in Nat : len = Len(s)
  BY <1>4
<1>5. PICK r : r = ToNext(q)
  OBVIOUS
<1>6. /\ r \in Runs /\ r.at = "next" /\ r.left = q.left /\ r.counted = q.counted
      /\ r.errors = q.errors
  BY <1>5, NextRun
<1>7. /\ runs' = [runs EXCEPT ![j] = r]
      /\ alerts' = alerts \cup {a \in {<<c, q.previous, q.status>>} :
                                   q.previous # NoStatus /\ q.previous # q.status}
  BY <1>2, <1>3, <1>5 DEF AlertTransition
<1>8. RunCovers(r) /\ ~HasInHand(r) /\ HasInHand(q)
  BY <1>1, <1>2, <1>3, <1>6 DEF RunCovers, HasInHand
<1>9. \A a \in alerts' \ alerts : a[1] = c
  BY <1>7
<1>10. ASSUME c \notin excused PROVE ContractSound(c)'
  <2>1. ContractSound(c)
    BY <1>10 DEF JobInv
  <2>2. /\ runs'[j] = r /\ \A k \in VJobs : k # j => runs'[k] = runs[k]
    BY <1>1, <1>7 DEF JobTyped
  <2>3. Busy(j, c) /\ ~Busy(j, c)' /\ \A k \in VJobs : Busy(k, c)' => Busy(k, c)
    BY <1>2, <1>3, <1>6, <2>2 DEF Busy
  <2>4. \A k \in VJobs : ~Busy(k, c)'
    BY <2>1, <2>3 DEF ContractSound, OneRun
  <2>5. /\ Len(s) >= 1 /\ q.status = s[Len(s)]
        /\ q.previous = IF Len(s) = 1 THEN NoStatus ELSE s[Len(s) - 1]
    BY <1>2, <1>3, <1>4, <2>1, <2>3 DEF ContractSound, RunAware
  <2>6. \A k \in VJobs : runs[k].spec = c /\ runs[k].at \in {"reporting", "alerting"} => k = j
    BY <2>1, <2>3 DEF ContractSound, OneRun, Busy
  <2>7. ASSUME NEW n \in 1 .. Len(s) - 1, s[n] # s[n + 1]
        PROVE  <<c, s[n], s[n + 1]>> \in alerts'
    <3>1. CASE n + 1 = Len(s)
      <4>1. n = Len(s) - 1 /\ Len(s) # 1 /\ n \in 1..Len(s)
        BY <1>0, <3>1
      <4>2. q.previous = s[n] /\ q.status = s[n + 1]
        BY <2>5, <3>1, <4>1
      <4>3. s[n] # NoStatus
        BY <1>4, <4>1 DEF Statuses, NoStatus
      <4> QED BY <1>7, <2>7, <4>2, <4>3
    <3>2. CASE n + 1 # Len(s)
      BY <1>4, <1>7, <2>1, <2>7, <3>2 DEF ContractSound, ToldUpTo
    <3> QED BY <3>1, <3>2
  <2>8. ToldUpTo(c)'
    BY <1>1, <1>4, <2>7 DEF ToldUpTo
  <2>9. ASSUME NEW a \in alerts', a[1] = c
        PROVE  \E n \in 1 .. Len(s) - 1 : s[n] = a[2] /\ s[n + 1] = a[3]
    <3>1. CASE a \in alerts
      BY <1>4, <2>1, <2>9, <3>1 DEF ContractSound, AlertsShown
    <3>2. CASE a \notin alerts
      <4>1. a = <<c, q.previous, q.status>> /\ q.previous # NoStatus
        BY <1>7, <3>2
      <4>2. Len(s) # 1 /\ len - 1 \in 1 .. len - 1 /\ (len - 1) + 1 = len
        <5>1. Len(s) # 1
          BY <2>5, <4>1
        <5>2. len # 1 /\ len >= 1
          BY <1>0, <2>5, <5>1
        <5> QED BY <1>0, <5>1, <5>2
      <4>3. s[len - 1] = a[2] /\ s[(len - 1) + 1] = a[3]
        BY <1>0, <2>5, <4>1, <4>2
      <4> QED BY <1>0, <4>2, <4>3
    <3> QED BY <3>1, <3>2
  <2>10. AlertsShown(c)'
    BY <1>1, <1>4, <2>9 DEF AlertsShown
  <2>11. OneRun(c)'
    BY <2>4 DEF OneRun
  <2> QED BY <2>4, <2>8, <2>10, <2>11 DEF ContractSound
<1>11. /\ excused' = excused /\ alerts \subseteq alerts' /\ q = runs[j] /\ q.spec = c
       /\ deployed' = deployed /\ statuses' = statuses
  BY <1>1, <1>2, <1>3, <1>7
<1>12. /\ r \in Runs /\ RunCovers(r) /\ runs' = [runs EXCEPT ![j] = r]
       /\ ~HasInHand(r) /\ runs[j].spec = c
       /\ excused \subseteq excused' /\ alerts \subseteq alerts'
       /\ c \notin excused' => ContractSound(c)'
  BY <1>6, <1>7, <1>8, <1>10, <1>11
<1>13. statuses' \in [SpecNames -> Seq(Statuses)] /\ deployed' = deployed
       /\ \A d \in SpecNames : d # c => statuses'[d] = statuses[d]
  BY <1>1
<1> QED BY <1>9, <1>12, <1>13, RunMovesOn

(* A step that throws is an error of its contract, which is excused.         *)
LEMMA ThrowKeeps ==
    ASSUME JobInv, NEW j \in VJobs, StepThrows(j)
    PROVE  JobInv'
<1>1. /\ JobTyped /\ RunCovers(runs[j]) /\ UNCHANGED <<deployed, statuses, alerts>>
      /\ statuses' \in [SpecNames -> Seq(Statuses)]
  BY DEF JobInv, JobTyped, StepThrows
<1>2. PICK q \in Runs : q = runs[j]
  BY <1>1 DEF JobTyped
<1>3. PICK c \in SpecNames : c = q.spec /\ HasInHand(q)
  BY <1>1, <1>2 DEF RunCovers, StepThrows, HasInHand
<1>4. PICK p : p = ToNext(q)
  OBVIOUS
<1>5. /\ p \in Runs /\ p.at = "next" /\ p.left = q.left /\ p.counted = q.counted
      /\ p.errors = q.errors
  BY <1>4, NextRun
<1>6. PICK e \in SUBSET SpecNames : e = q.errors \cup {c}
  BY DEF Runs
<1>7. PICK r : r = [p EXCEPT !.errors = e]
  OBVIOUS
<1>8. r \in Runs /\ r.at = "next" /\ r.left = q.left /\ r.counted = q.counted /\ r.errors = e
  BY <1>5, <1>7 DEF Runs
<1>9. runs' = [runs EXCEPT ![j] = r] /\ excused' = excused \cup {c}
  BY <1>2, <1>3, <1>4, <1>5, <1>6, <1>7 DEF StepThrows
<1>10. RunCovers(r) /\ ~HasInHand(r)
  BY <1>1, <1>2, <1>3, <1>6, <1>8 DEF RunCovers, HasInHand
<1>11. c \in excused' /\ excused \subseteq excused' /\ alerts' = alerts
  BY <1>1, <1>9
<1> QED BY <1>1, <1>2, <1>3, <1>8, <1>9, <1>10, <1>11, RunMovesOn

(* For every set of jobs and contracts and whatever throws or overlaps: a    *)
(* finished job left no contract out, and every change between two recorded  *)
(* verdicts is told, unless a step of its contract threw or two jobs had the *)
(* contract at once.                                                         *)
THEOREM ChangesAreTold == JobSpec => []JobTellsChanges
<1>1. JobInit => JobInv
  <2> SUFFICES ASSUME JobInit PROVE JobInv
    OBVIOUS
  <2>1. PICK r : r = [at |-> "idle", left |-> {}, spec |-> NoStatus, previous |-> NoStatus,
                      status |-> NoStatus, counted |-> {}, errors |-> {}]
    OBVIOUS
  <2>2. r \in Runs /\ r.at = "idle"
    BY <2>1 DEF Runs
  <2>3. runs = [j \in VJobs |-> r]
    BY <2>1 DEF JobInit
  <2>4. runs \in [VJobs -> Runs] /\ \A j \in VJobs : runs[j].at = "idle"
    BY <2>2, <2>3
  <2>5. /\ deployed \in [SpecNames -> Statuses] /\ statuses \in [SpecNames -> Seq(Statuses)]
        /\ \A c \in SpecNames : Len(statuses[c]) = 0
    BY DEF JobInit, Statuses
  <2>6. JobTyped
    BY <2>4, <2>5 DEF JobTyped
  <2>7. \A j \in VJobs : RunCovers(runs[j])
    BY <2>4 DEF RunCovers
  <2>8. ASSUME NEW c \in SpecNames PROVE ContractSound(c)
    <3>1. \A j \in VJobs : ~Busy(j, c)
      BY <2>4 DEF Busy
    <3>2. ToldUpTo(c)
      BY <2>5 DEF ToldUpTo
    <3>3. AlertsShown(c)
      BY DEF JobInit, AlertsShown
    <3> QED BY <3>1, <3>2, <3>3 DEF ContractSound, OneRun
  <2> QED BY <2>6, <2>7, <2>8 DEF JobInv
<1>2. JobInv /\ [JobNext]_jobVars => JobInv'
  <2> SUFFICES ASSUME JobInv, [JobNext]_jobVars PROVE JobInv'
    OBVIOUS
  <2>1. CASE UNCHANGED <<runs, statuses, alerts, excused>> /\ deployed' \in [SpecNames -> Statuses]
    <3>1. JobTyped'
      BY <2>1 DEF JobInv, JobTyped
    <3>2. ASSUME NEW c \in SpecNames \ excused' PROVE ContractSound(c)'
      BY <2>1, ContractStays DEF JobInv, Busy
    <3> QED BY <2>1, <3>1, <3>2 DEF JobInv, RunCovers
  <2>2. CASE UNCHANGED jobVars
    BY <2>1, <2>2 DEF jobVars, JobInv, JobTyped
  <2>3. ASSUME NEW c \in SpecNames, Upgrade(c) PROVE JobInv'
    BY <2>1, <2>3 DEF Upgrade, JobInv, JobTyped
  <2>4. ASSUME NEW j \in VJobs,
               \/ StartJob(j) \/ VerifySchema(j) \/ RecordStatus(j) \/ ReportMismatch(j)
               \/ AlertTransition(j) \/ StepThrows(j) \/ EndJob(j)
               \/ \E c \in SpecNames : ReadPrevious(j, c)
        PROVE  JobInv'
    BY <2>4, QuietKeeps, RecordKeeps, AlertKeeps, ThrowKeeps, ReadKeeps
  <2> QED BY <2>2, <2>3, <2>4 DEF JobNext
<1>3. JobInv => JobTellsChanges
  <2> SUFFICES ASSUME JobInv PROVE JobTellsChanges
    OBVIOUS
  <2>1. JobCoversAll
    BY DEF JobInv, JobCoversAll, RunCovers
  <2>2. ASSUME NEW c \in SpecNames \ excused PROVE ChangesTold(c)
    <3>1. ToldUpTo(c) /\ AlertsShown(c)
      BY DEF JobInv, ContractSound
    <3> QED BY <3>1 DEF ChangesTold, ToldUpTo, AlertsShown, Busy
  <2> QED BY <2>1, <2>2 DEF JobTellsChanges, TransitionsAlerted
<1> QED BY <1>1, <1>2, <1>3, PTL DEF JobSpec

-----------------------------------------------------------------------------
(* A list read page by page: `got` is the first part of `all`.               *)
FirstOf(got, all) == Len(got) <= Len(all) /\ \A i \in 1..Len(got) : got[i] = all[i]

(* The next page, up to e, leaves it the first part.                         *)
LEMMA PageAppends ==
    ASSUME NEW S, NEW got \in Seq(S), NEW all \in Seq(S), FirstOf(got, all),
           NEW e \in Nat, Len(got) <= e, e <= Len(all)
    PROVE  LET s == got \o SubSeq(all, Len(got) + 1, e)
           IN  s \in Seq(S) /\ Len(s) = e /\ FirstOf(s, all)
<1>0. PICK s : s = got \o SubSeq(all, Len(got) + 1, e)
  OBVIOUS
<1>1. PICK k \in Nat : k = Len(got) /\ k <= e
  OBVIOUS
<1>2. PICK p : p = SubSeq(all, k + 1, e)
  OBVIOUS
<1>3. p \in Seq(S) /\ Len(p) = e - k /\ \A i \in 1..(e - k) : p[i] = all[k + i]
  <2>1. CASE k = e
    <3>1. p = <<>>
      BY <1>1, <1>2, <2>1
    <3> QED BY <1>1, <2>1, <3>1
  <2>2. CASE k < e
    BY <1>1, <1>2, <2>2
  <2> QED BY <1>1, <2>1, <2>2
<1>4. s = got \o p /\ Len(s) = e /\ s \in Seq(S)
  BY <1>0, <1>1, <1>2, <1>3
<1>5. ASSUME NEW i \in 1..e PROVE s[i] = all[i]
  <2>1. CASE i <= k
    BY <1>1, <1>3, <1>4, <2>1 DEF FirstOf
  <2>2. CASE i > k
    <3>1. i - k \in 1..(e - k) /\ k + (i - k) = i
      BY <1>1, <2>2
    <3>2. s[i] = p[i - k]
      <4>1. i \in 1..(Len(got) + Len(p)) /\ i > Len(got)
        BY <1>1, <1>3, <2>2
      <4>2. (got \o p)[i] = p[i - Len(got)]
        BY <1>3, <4>1
      <4> QED BY <1>1, <1>4, <4>2
    <3> QED BY <1>3, <3>1, <3>2
  <2> QED BY <1>1, <2>1, <2>2
<1> QED BY <1>0, <1>4, <1>5 DEF FirstOf

(* The first part of a list is the first part of a longer one.               *)
LEMMA FirstOfLonger ==
    ASSUME NEW S, NEW got \in Seq(S), NEW all \in Seq(S), FirstOf(got, all), NEW x \in S, NEW longer,
           longer = Append(all, x)
    PROVE  FirstOf(got, longer)
BY DEF FirstOf

(* It is a prefix in the words of the library.                               *)
LEMMA FirstIsPrefix ==
    ASSUME NEW S, NEW got \in Seq(S), NEW all \in Seq(S), FirstOf(got, all)
    PROVE  IsPrefix(got, all)
<1>1. PICK k \in Nat : k = Len(got) /\ k <= Len(all)
  BY DEF FirstOf
<1>2. SubSeq(got, 1, k) = SubSeq(all, 1, k)
  BY <1>1 DEF FirstOf
<1> QED BY <1>1, <1>2 DEF IsPrefix

-----------------------------------------------------------------------------
(***************************************************************************)
(* WorkerRegistry                                                           *)
(***************************************************************************)
Pagers == [on: BOOLEAN, cursor: Int, got: Seq(WorkerVersions), began: Nat, done: BOOLEAN]

(* Each version is listed once; the latest is the last, and its record lives *)
(* at least as long as the entry that names it, unless that one was paid for *)
(* alone.                                                                    *)
TableSound(versions, latest, until, apart) ==
    /\ versions \in Seq(WorkerVersions) /\ IsInjective(versions)
    /\ DOMAIN until = IF versions = <<>> THEN {} ELSE Range(versions) \cup {"versions", "latest"}
    /\ \A e \in DOMAIN until : until[e] \in Int /\ until[e] <= sequence + WorkerBump
    /\ versions # <<>> => latest = Last(versions) /\ (until["latest"] <= until[latest] \/ apart)

(* What the pages brought is the first part of the list, and the cursor is   *)
(* its length.                                                               *)
PagerSound(p) ==
    /\ FirstOf(p.got, table.versions) /\ p.began <= Len(table.versions)
    /\ p.on => p.cursor = Len(p.got)
    /\ p.done => Len(p.got) >= p.began

WorkerInv ==
    /\ sequence \in Nat /\ pager \in Pagers /\ prolonged \in BOOLEAN
    /\ TableSound(table.versions, table.latest, table.until, prolonged) /\ PagerSound(pager)

(* A registration extends the three entries it writes; the new record lives  *)
(* longest.                                                                  *)
LEMMA RegisterKeeps ==
    ASSUME WorkerInv, NEW v \in WorkerVersions, Register(v)
    PROVE  WorkerInv'
<1>1. PICK versions \in Seq(WorkerVersions) : versions = table.versions
  BY DEF WorkerInv, TableSound
<1>2. PICK until : until = table.until
  OBVIOUS
<1>3. PICK extended : extended = {v, "versions", "latest"}
  OBVIOUS
<1>4. PICK old : old = [e \in extended |-> IF e \in DOMAIN until THEN until[e] ELSE sequence]
  OBVIOUS
<1>5. PICK longer : longer = Append(versions, v)
  OBVIOUS
<1>6. /\ v \notin Registered /\ UNCHANGED <<sequence, pager>> /\ prolonged' = FALSE
      /\ table' = [versions |-> longer, latest |-> v,
                   until |-> [e \in DOMAIN until \cup extended |->
                                IF e \in extended THEN Kept(old[e]) ELSE until[e]]]
  BY <1>1, <1>2, <1>3, <1>4, <1>5 DEF Register
<1>7. /\ longer \in Seq(WorkerVersions) /\ longer # <<>> /\ Len(longer) = Len(versions) + 1
      /\ longer[Len(versions) + 1] = v /\ \A i \in 1..Len(versions) : longer[i] = versions[i]
  BY <1>1, <1>5
<1>8. sequence \in Nat /\ WorkerBump \in Nat /\ WorkerTtlMin \in Nat /\ WorkerTtlMin >= 1
      /\ WorkerTtlMin <= WorkerBump
  BY WorkerRegistryAssumption DEF WorkerInv
<1>9. /\ IsInjective(versions) /\ \A i \in 1..Len(versions) : versions[i] # v
      /\ DOMAIN until = IF versions = <<>> THEN {} ELSE Range(versions) \cup {"versions", "latest"}
      /\ \A e \in DOMAIN until : until[e] \in Int /\ until[e] <= sequence + WorkerBump
  BY <1>1, <1>2, <1>6 DEF WorkerInv, TableSound, Registered, Range
<1>10. IsInjective(longer)
  <2>1. ASSUME NEW i \in 1..Len(longer), NEW j \in 1..Len(longer), longer[i] = longer[j]
        PROVE  i = j
    <3>1. CASE i \in 1..Len(versions) /\ j \in 1..Len(versions)
      BY <1>7, <1>9, <2>1, <3>1 DEF IsInjective
    <3>2. CASE ~(i \in 1..Len(versions) /\ j \in 1..Len(versions))
      BY <1>7, <1>9, <2>1, <3>2
    <3> QED BY <3>1, <3>2
  <2> QED BY <1>7, <2>1 DEF IsInjective
<1>11. ASSUME NEW e \in extended
       PROVE  /\ old[e] \in Int /\ old[e] <= sequence + WorkerBump
              /\ Kept(old[e]) \in Int /\ Kept(old[e]) <= sequence + WorkerBump
  <2>1. old[e] \in Int /\ old[e] <= sequence + WorkerBump
    BY <1>4, <1>8, <1>9
  <2> QED BY <1>8, <2>1 DEF Kept
<1>12. Kept(old[v]) = sequence + WorkerBump
  <2>1. v \notin Range(versions)
    BY <1>1, <1>6 DEF Registered
  <2>2. v \notin DOMAIN until
    BY <1>9, <2>1, WorkerRegistryAssumption
  <2>3. old[v] = sequence
    BY <1>3, <1>4, <2>2
  <2> QED BY <1>8, <2>3 DEF Kept
<1>13. /\ table'.versions = longer /\ table'.latest = v
       /\ DOMAIN table'.until = DOMAIN until \cup extended
       /\ \A e \in DOMAIN until \cup extended :
             table'.until[e] = IF e \in extended THEN Kept(old[e]) ELSE until[e]
  BY <1>6
<1>14. Range(longer) = Range(versions) \cup {v} /\ Last(longer) = v
  <2>1. \A x : x \in Range(longer) <=> \E i \in 1..Len(longer) : longer[i] = x
    BY <1>7 DEF Range
  <2>2. \A x : x \in Range(versions) <=> \E i \in 1..Len(versions) : versions[i] = x
    BY <1>1 DEF Range
  <2>3. /\ Len(versions) \in Nat /\ Len(versions) + 1 \in 1..Len(longer)
        /\ \A i \in 1..Len(longer) : i \in 1..Len(versions) \/ i = Len(versions) + 1
        /\ 1..Len(versions) \subseteq 1..Len(longer)
    BY <1>1, <1>7
  <2>4. \A x : x \in Range(longer) <=> x \in Range(versions) \cup {v}
    BY <1>7, <2>1, <2>2, <2>3
  <2> QED BY <1>7, <2>4 DEF Last
<1>15. DOMAIN table'.until = Range(longer) \cup {"versions", "latest"}
  <2>1. CASE versions = <<>>
    <3>1. Range(versions) = {}
      BY <2>1 DEF Range
    <3> QED BY <1>3, <1>9, <1>13, <1>14, <2>1, <3>1
  <2>2. CASE versions # <<>>
    BY <1>3, <1>9, <1>13, <1>14, <2>2
  <2> QED BY <2>1, <2>2
<1>16. \A e \in DOMAIN table'.until : table'.until[e] \in Int
                                       /\ table'.until[e] <= sequence + WorkerBump
  BY <1>9, <1>11, <1>13
<1>17. table'.until["latest"] <= table'.until[v]
  <2>1. /\ table'.until["latest"] = Kept(old["latest"])
        /\ table'.until[v] = Kept(old[v]) /\ "latest" \in extended
    BY <1>3, <1>13
  <2> QED BY <1>11, <1>12, <2>1
<1>18. TableSound(table.versions, table.latest, table.until, prolonged)'
  BY <1>6, <1>7, <1>10, <1>13, <1>14, <1>15, <1>16, <1>17 DEF TableSound
<1>19. PagerSound(pager)'
  <2>1. pager.got \in Seq(WorkerVersions) /\ pager.began \in Nat
    BY DEF WorkerInv, Pagers
  <2>2. FirstOf(pager.got, longer)
    BY <1>1, <1>5, <2>1, FirstOfLonger DEF WorkerInv, PagerSound
  <2>3. pager.began <= Len(longer)
    BY <1>1, <1>7, <2>1 DEF WorkerInv, PagerSound
  <2> QED BY <1>6, <1>13, <2>2, <2>3 DEF WorkerInv, PagerSound
<1> QED BY <1>6, <1>18, <1>19 DEF WorkerInv

(* An entry is paid for; the records live no shorter for it.                 *)
LEMMA ProlongKeeps ==
    ASSUME WorkerInv, NEW x \in WorkerVersions \cup {"versions", "latest"}, Prolong(x)
    PROVE  WorkerInv'
<1>1. PICK versions \in Seq(WorkerVersions) : versions = table.versions
  BY DEF WorkerInv, TableSound
<1>2. PICK until : until = table.until
  OBVIOUS
<1>3. /\ sequence \in Nat /\ WorkerBump \in Nat /\ x \in DOMAIN until
      /\ UNCHANGED <<sequence, pager>> /\ prolonged' = (prolonged \/ x = "latest")
  BY <1>2, WorkerRegistryAssumption DEF Prolong, WorkerInv
<1>4. PICK n \in sequence .. sequence + WorkerBump :
          n > until[x] /\ table' = [table EXCEPT !.until[x] = n]
  BY <1>2 DEF Prolong
<1>5. PICK later : later = [until EXCEPT ![x] = n]
  OBVIOUS
<1>6. table'.versions = versions /\ table'.latest = table.latest /\ table'.until = later
  BY <1>1, <1>2, <1>4, <1>5 DEF WorkerInv
<1>7. /\ IsInjective(versions)
      /\ DOMAIN until = IF versions = <<>> THEN {} ELSE Range(versions) \cup {"versions", "latest"}
      /\ \A e \in DOMAIN until : until[e] \in Int /\ until[e] <= sequence + WorkerBump
      /\ versions # <<>> => /\ table.latest = Last(versions)
                            /\ until["latest"] <= until[table.latest] \/ prolonged
  BY <1>1, <1>2 DEF WorkerInv, TableSound
<1>8. /\ DOMAIN later = DOMAIN until
      /\ \A e \in DOMAIN until : later[e] = IF e = x THEN n ELSE until[e]
  BY <1>3, <1>5
<1>9. ASSUME versions # <<>>
      PROVE  later["latest"] <= later[table.latest] \/ prolonged'
  <2>1. table.latest \in DOMAIN until /\ "latest" \in DOMAIN until
    BY <1>1, <1>7, <1>9 DEF Last, Range
  <2>2. until["latest"] \in Int /\ until[table.latest] \in Int /\ until[x] \in Int /\ n \in Int
    BY <1>3, <1>7, <2>1
  <2>3. CASE x = "latest"
    BY <1>3, <2>3
  <2>4. CASE x # "latest" /\ ~prolonged
    <3>1. later["latest"] = until["latest"] /\ until["latest"] <= until[table.latest]
      BY <1>7, <1>8, <1>9, <2>1, <2>4
    <3>2. later[table.latest] = until[table.latest] \/ (later[table.latest] = n /\ table.latest = x)
      BY <1>8, <2>1
    <3> QED BY <1>4, <2>2, <3>1, <3>2
  <2> QED BY <1>3, <2>3, <2>4 DEF WorkerInv
<1>10. \A e \in DOMAIN later : later[e] \in Int /\ later[e] <= sequence + WorkerBump
  BY <1>3, <1>4, <1>7, <1>8
<1>11. TableSound(table.versions, table.latest, table.until, prolonged)'
  BY <1>1, <1>3, <1>6, <1>7, <1>8, <1>9, <1>10 DEF TableSound
<1>12. PagerSound(pager)'
  BY <1>1, <1>3, <1>6 DEF WorkerInv, PagerSound
<1> QED BY <1>3, <1>11, <1>12 DEF WorkerInv

(* A page goes on where the last one ended.                                  *)
LEMMA PagesKeep ==
    ASSUME WorkerInv, StartPaging \/ NextPage
    PROVE  WorkerInv'
<1>1. UNCHANGED <<sequence, table, prolonged>>
  BY DEF StartPaging, NextPage
<1>2. PICK versions \in Seq(WorkerVersions) : versions = table.versions
  BY DEF WorkerInv, TableSound
<1>3. PICK n \in Nat : n = Len(versions)
  BY <1>2
<1>4. TableSound(table.versions, table.latest, table.until, prolonged)'
  BY <1>1 DEF WorkerInv, TableSound
<1>5. CASE StartPaging
  <2>0. PICK q : q = NoPager
    OBVIOUS
  <2>5. q \in Pagers /\ q.got = <<>> /\ q.cursor = 0 /\ ~q.done
    BY <2>0 DEF NoPager, Pagers
  <2>1. pager' = [q EXCEPT !.on = TRUE, !.began = n]
    BY <1>2, <1>3, <1>5, <2>0 DEF StartPaging
  <2>2. /\ pager' \in Pagers /\ pager'.got = <<>> /\ pager'.cursor = 0 /\ pager'.began = n
        /\ ~pager'.done
    BY <2>1, <2>5 DEF Pagers
  <2>3. FirstOf(pager'.got, versions)
    BY <1>2, <1>3, <2>2 DEF FirstOf
  <2>4. PagerSound(pager)'
    BY <1>1, <1>2, <1>3, <2>2, <2>3 DEF PagerSound
  <2> QED BY <1>1, <1>4, <2>2, <2>4 DEF WorkerInv
<1>6. CASE NextPage
  <2>1. PICK p \in Pagers : p = pager
    BY DEF WorkerInv
  <2>2. PICK got \in Seq(WorkerVersions) : got = p.got
    BY <2>1 DEF Pagers
  <2>3. PICK k \in Nat : k = Len(got)
    BY <2>2
  <2>4. /\ p.on /\ p.cursor = k /\ FirstOf(got, versions) /\ p.began <= n /\ p.began \in Nat /\ k <= n
    BY <1>2, <1>3, <1>6, <2>1, <2>2, <2>3 DEF NextPage, WorkerInv, PagerSound, Pagers, FirstOf
  <2>5. PICK sheet : sheet = PageOf(k)
    OBVIOUS
  <2>6. PICK e \in Nat :
           /\ k <= e /\ e <= n /\ sheet.next = IF e < n THEN e ELSE -1
           /\ got \o sheet.names = got \o SubSeq(versions, k + 1, e)
    <3>1. CASE k >= n
      <4>1. sheet.names = <<>> /\ sheet.next = -1
        BY <1>2, <1>3, <2>5, <3>1 DEF PageOf
      <4>2. SubSeq(versions, k + 1, n) = <<>>
        BY <1>3, <2>4, <3>1
      <4>3. k <= n /\ n <= n /\ ~(n < n)
        BY <2>4
      <4> WITNESS n \in Nat
      <4> QED BY <4>1, <4>2, <4>3
    <3>2. CASE ~(k >= n)
      <4>0. k < n
        BY <3>2
      <4>1. PICK e \in Nat : e = IF k + PageSize < n THEN k + PageSize ELSE n
        BY WorkerRegistryAssumption
      <4>2. sheet = [names |-> SubSeq(versions, k + 1, e), next |-> IF e < n THEN e ELSE -1]
        BY <1>2, <1>3, <2>5, <4>0, <4>1 DEF PageOf
      <4>3. k <= e /\ e <= n
        BY <4>0, <4>1, WorkerRegistryAssumption
      <4>4. /\ sheet.next = IF e < n THEN e ELSE -1
            /\ sheet.names = SubSeq(versions, k + 1, e)
        BY <4>2
      <4> WITNESS e \in Nat
      <4> QED BY <4>3, <4>4
    <3> QED BY <3>1, <3>2
  <2>7. PICK s : s = got \o sheet.names
    OBVIOUS
  <2>8. s \in Seq(WorkerVersions) /\ Len(s) = e /\ FirstOf(s, versions)
    <3>1. /\ s = got \o SubSeq(versions, Len(got) + 1, e) /\ Len(got) <= e
          /\ e <= Len(versions) /\ FirstOf(got, versions)
      BY <1>3, <2>3, <2>4, <2>6, <2>7
    <3> QED BY <3>1, PageAppends
  <2>9. PICK c \in Int : c = sheet.next
    BY <2>6
  <2>10. PICK b \in BOOLEAN : b <=> (c # -1)
    OBVIOUS
  <2>11. PICK d \in BOOLEAN : d <=> (c = -1)
    OBVIOUS
  <2>12. pager' = [p EXCEPT !.got = s, !.cursor = c, !.on = b, !.done = d]
    BY <1>6, <2>1, <2>2, <2>4, <2>5, <2>7, <2>9, <2>10, <2>11 DEF NextPage
  <2>13. /\ pager' \in Pagers /\ pager'.got = s /\ pager'.cursor = c /\ pager'.on = b
         /\ pager'.done = d /\ pager'.began = p.began
    BY <2>8, <2>12 DEF Pagers
  <2>14. (b => c = e) /\ (d => e = n)
    BY <1>3, <2>6, <2>9, <2>10, <2>11
  <2>15. PagerSound(pager)'
    BY <1>1, <1>2, <1>3, <2>4, <2>8, <2>13, <2>14 DEF PagerSound
  <2> QED BY <1>1, <1>4, <2>13, <2>15 DEF WorkerInv
<1> QED BY <1>5, <1>6

(* For every page size, life time and set of versions, and whatever entries  *)
(* others pay for: the latest entry names a record that lives, unless it was *)
(* paid for alone, and the lists a client reads are whole.                   *)
THEOREM WorkersAreFound == WorkerRegistrySpec => []WorkersAreListed
<1>1. WorkerRegistryInit => WorkerInv
  <2> SUFFICES ASSUME WorkerRegistryInit PROVE WorkerInv
    OBVIOUS
  <2>1. /\ pager \in Pagers /\ pager.got = <<>> /\ ~pager.on /\ pager.began = 0 /\ ~pager.done
    BY DEF WorkerRegistryInit, NoPager, Pagers
  <2>2. table.versions = <<>> /\ table.until = <<>> /\ sequence = 0 /\ prolonged = FALSE
    BY DEF WorkerRegistryInit
  <2>3. TableSound(table.versions, table.latest, table.until, prolonged)
    BY <2>2 DEF TableSound, IsInjective
  <2>4. PagerSound(pager)
    BY <2>1, <2>2 DEF PagerSound, FirstOf
  <2> QED BY <2>1, <2>2, <2>3, <2>4 DEF WorkerInv
<1>2. WorkerInv /\ [WorkerRegistryNext]_workerRegistryVars => WorkerInv'
  <2> SUFFICES ASSUME WorkerInv, [WorkerRegistryNext]_workerRegistryVars PROVE WorkerInv'
    OBVIOUS
  <2>1. CASE UNCHANGED workerRegistryVars
    BY <2>1 DEF workerRegistryVars, WorkerInv, TableSound, PagerSound
  <2>2. CASE SequenceCloses
    <3>1. sequence \in Nat /\ sequence' = sequence + 1 /\ UNCHANGED <<table, pager, prolonged>>
      BY <2>2 DEF SequenceCloses, WorkerInv
    <3>2. \A x \in Int : x <= sequence + WorkerBump => x <= sequence' + WorkerBump
      BY <3>1, WorkerRegistryAssumption
    <3>3. TableSound(table.versions, table.latest, table.until, prolonged)'
      BY <3>1, <3>2 DEF WorkerInv, TableSound
    <3> QED BY <3>1, <3>3 DEF WorkerInv, PagerSound
  <2>3. CASE WorkerRegistryNext
    BY <2>2, <2>3, RegisterKeeps, ProlongKeeps, PagesKeep DEF WorkerRegistryNext
  <2> QED BY <2>1, <2>3
<1>3. WorkerInv => WorkersAreListed
  <2> SUFFICES ASSUME WorkerInv PROVE WorkersAreListed
    OBVIOUS
  <2>1. PICK versions \in Seq(WorkerVersions) : versions = table.versions
    BY DEF WorkerInv, TableSound
  <2>2. LatestIsReadable
    <3>1. ASSUME versions # <<>>, Alive("latest"), ~prolonged
          PROVE  Alive(table.latest)
      <4>1. Last(versions) \in Range(versions)
        BY <3>1 DEF Last, Range
      <4>2. "latest" \in DOMAIN table.until /\ table.latest \in DOMAIN table.until
        BY <2>1, <3>1, <4>1 DEF WorkerInv, TableSound
      <4>3. /\ table.until["latest"] <= table.until[table.latest]
            /\ table.until["latest"] \in Int /\ table.until[table.latest] \in Int
        BY <2>1, <3>1, <4>2 DEF WorkerInv, TableSound
      <4> QED BY <3>1, <4>3 DEF WorkerInv, Alive
    <3> QED BY <2>1, <3>1 DEF LatestIsReadable, WorkerInv, TableSound
  <2>3. IsPrefix(pager.got, table.versions)
    <3>1. pager.got \in Seq(WorkerVersions)
      BY DEF WorkerInv, Pagers
    <3> QED BY <2>1, <3>1, FirstIsPrefix DEF WorkerInv, PagerSound
  <2>4. ListVersions = table.versions \/ Last(ListVersions) = Marker
    <3>1. CASE Len(versions) > PageSize
      <4>1. PICK s : s = SubSeq(versions, 1, PageSize)
        OBVIOUS
      <4>2. s \in Seq(WorkerVersions)
        BY <3>1, <4>1, WorkerRegistryAssumption
      <4>3. ListVersions = Append(s, Marker)
        BY <2>1, <3>1, <4>1 DEF ListVersions
      <4>4. Last(Append(s, Marker)) = Marker
        BY <4>2 DEF Last
      <4> QED BY <4>3, <4>4
    <3>2. CASE ~(Len(versions) > PageSize)
      BY <2>1, <3>2 DEF ListVersions
    <3> QED BY <3>1, <3>2
  <2> QED BY <2>2, <2>3, <2>4 DEF WorkersAreListed, VersionsAreComplete, WorkerInv, PagerSound
<1> QED BY <1>1, <1>2, <1>3, PTL DEF WorkerRegistrySpec

-----------------------------------------------------------------------------
(***************************************************************************)
(* SpecRegistry                                                             *)
(***************************************************************************)
Reads == [at: {"idle", "listing", "getting"}, cursor: Int, names: Seq(Releases),
          left: SUBSET Releases, began: Nat]
Caches == [there: BOOLEAN, names: Seq(Releases), stored: Nat, began: Nat]

RegistryTyped ==
    /\ closes \in Nat /\ index \in Seq(Releases) /\ reads \in [Readers -> Reads] /\ records \in Caches
    /\ DOMAIN specs \subseteq Releases /\ \A v \in DOMAIN specs : specs[v] \in 0..closes

(* The names a read has are the first of the list; when it has them all they *)
(* are at least those published before it began.                             *)
ListSound(names, began) ==
    /\ FirstOf(names, index) /\ PublishedBefore(began) \subseteq Range(names)

ReadSound(read) ==
    /\ read.began <= closes
    /\ read.at = "listing" => FirstOf(read.names, index) /\ read.cursor = Len(read.names)
    /\ read.at = "getting" => ListSound(read.names, read.began)

CacheSound ==
    records.there => /\ records.began <= records.stored /\ records.stored <= closes
                     /\ ListSound(records.names, records.began)

RegistryInv ==
    /\ RegistryTyped /\ IndexAgrees /\ CacheSound
    /\ \A r \in Readers : ReadSound(reads[r])

(* A read moves while the registry stays.                                    *)
LEMMA ReadMoves ==
    ASSUME RegistryInv, NEW r \in Readers, NEW q \in Reads, reads' = [reads EXCEPT ![r] = q],
           ReadSound(q), UNCHANGED <<closes, specs, index, newest>>,
           records' \in Caches, CacheSound'
    PROVE  RegistryInv'
<1>1. RegistryTyped /\ IndexAgrees
  BY DEF RegistryInv
<1>2. /\ reads' \in [Readers -> Reads] /\ reads'[r] = q
      /\ \A p \in Readers : p # r => reads'[p] = reads[p]
  BY <1>1 DEF RegistryTyped
<1>3. RegistryTyped' /\ IndexAgrees'
  BY <1>1, <1>2 DEF RegistryTyped, IndexAgrees
<1>4. ASSUME NEW p \in Readers PROVE ReadSound(reads[p])'
  <2>1. ReadSound(reads'[p])
    BY <1>2 DEF RegistryInv
  <2> QED BY <2>1 DEF ReadSound, ListSound, PublishedBefore
<1> QED BY <1>3, <1>4 DEF RegistryInv

(* A cache that stays is sound.                                              *)
LEMMA CacheStays ==
    ASSUME RegistryInv, UNCHANGED <<closes, specs, index, records>>
    PROVE  records' \in Caches /\ CacheSound'
BY DEF RegistryInv, RegistryTyped, CacheSound, ListSound, PublishedBefore

(* A read with nothing in hand.                                              *)
LEMMA IdleReadSound ==
    ASSUME RegistryInv
    PROVE  NoRead \in Reads /\ ReadSound(NoRead)
<1>1. closes \in Nat
  BY DEF RegistryInv, RegistryTyped
<1>2. PICK q : q = NoRead
  OBVIOUS
<1>3. q \in Reads /\ q.at = "idle" /\ q.began = 0
  BY <1>2 DEF NoRead, Reads
<1>4. ReadSound(q)
  BY <1>1, <1>3 DEF ReadSound
<1> QED BY <1>2, <1>3, <1>4

(* An empty cache.                                                           *)
LEMMA NoCacheSound ==
    ASSUME records' = NoCache
    PROVE  records' \in Caches /\ CacheSound'
BY DEF NoCache, Caches, CacheSound

(* The list with all the names, when the last page was read.                 *)
LEMMA WholeList ==
    ASSUME RegistryInv, NEW names \in Seq(Releases), FirstOf(names, index),
           Len(names) = Len(index), NEW began
    PROVE  ListSound(names, began) /\ Range(names) \subseteq Releases
<1>1. index \in Seq(Releases) /\ DOMAIN index = 1..Len(index) /\ DOMAIN names = 1..Len(index)
  BY DEF RegistryInv, RegistryTyped
<1>2. Range(index) = DOMAIN specs
  BY DEF RegistryInv, IndexAgrees
<1>3. \A x \in Range(index) : x \in Range(names)
  BY <1>1 DEF Range, FirstOf
<1>4. Range(names) \subseteq Releases
  BY <1>1 DEF Range
<1> QED BY <1>2, <1>3, <1>4 DEF ListSound, PublishedBefore

(* A page goes on where the last one ended.                                  *)
LEMMA ListKeeps ==
    ASSUME RegistryInv, NEW r \in Readers, ListPage(r)
    PROVE  RegistryInv'
<1>1. /\ RegistryTyped /\ ReadSound(reads[r]) /\ UNCHANGED <<closes, specs, index, newest, records>>
      /\ index \in Seq(Releases)
  BY DEF RegistryInv, RegistryTyped, ListPage
<1>2. PICK read \in Reads : read = reads[r]
  BY <1>1 DEF RegistryTyped
<1>3. PICK got \in Seq(Releases) : got = read.names
  BY DEF Reads
<1>4. PICK n \in Nat : n = Len(index)
  BY <1>1
<1>5. PICK k \in Nat : k = Len(got)
  BY <1>3
<1>6. /\ read.at = "listing" /\ FirstOf(got, index) /\ read.cursor = k /\ k <= n
      /\ read.began <= closes
  BY <1>1, <1>2, <1>3, <1>4, <1>5 DEF ListPage, ReadSound, FirstOf
<1>7. PICK e \in Nat : e = PageEnd(k) /\ k <= e /\ e <= n /\ (~(e < n) => e = n)
  <2>1. CASE k >= n
    <3>1. PageEnd(k) = k
      BY <1>4, <2>1 DEF PageEnd
    <3> QED BY <1>6, <2>1, <3>1
  <2>2. CASE ~(k >= n)
    <3>1. PICK m \in Nat : m = k + MaxPageSize /\ m >= k
      BY RegistryAssumption
    <3>2. PageEnd(k) = Min({m, n})
      BY <1>4, <2>2, <3>1 DEF PageEnd
    <3>3. Min({m, n}) \in {m, n} /\ Min({m, n}) <= m /\ Min({m, n}) <= n
      <4>1. \E x \in {m, n} : \A y \in {m, n} : x <= y
        <5>1. CASE m <= n
          BY <5>1
        <5>2. CASE n <= m
          BY <5>2
        <5> QED BY <5>1, <5>2
      <4> QED BY <4>1 DEF Min
    <3> QED BY <2>2, <3>1, <3>2, <3>3
  <2> QED BY <2>1, <2>2
<1>8. PICK s : s = got \o SubSeq(index, k + 1, e)
  OBVIOUS
<1>9. s \in Seq(Releases) /\ Len(s) = e /\ FirstOf(s, index)
  <2>1. /\ s = got \o SubSeq(index, Len(got) + 1, e) /\ Len(got) <= e
        /\ e <= Len(index) /\ FirstOf(got, index) /\ index \in Seq(Releases)
    BY <1>1, <1>4, <1>5, <1>6, <1>7, <1>8
  <2> QED BY <2>1, PageAppends
<1>10. NextCursor(e) = IF e < n THEN e ELSE -1
  BY <1>4 DEF NextCursor
<1>11. /\ s = read.names \o SubSeq(index, read.cursor + 1, e) /\ PageEnd(read.cursor) = e
  BY <1>3, <1>6, <1>7, <1>8
<1>12. records' \in Caches /\ CacheSound'
  BY <1>1, CacheStays
<1>13. CASE e < n
  <2>0. PICK x \in Int : x = e /\ x # -1 /\ NextCursor(e) = x
    BY <1>10, <1>13
  <2>1. PICK q : q = [read EXCEPT !.names = s, !.cursor = x]
    OBVIOUS
  <2>2. reads' = [reads EXCEPT ![r] = q]
    BY <1>2, <1>11, <2>0, <2>1 DEF ListPage
  <2>3. /\ q \in Reads /\ q.names = s /\ q.cursor = x /\ q.began = read.began /\ q.at = "listing"
    BY <1>6, <1>9, <2>1 DEF Reads
  <2>4. ReadSound(q)
    BY <1>6, <1>9, <2>0, <2>3 DEF ReadSound
  <2> QED BY <1>1, <1>12, <2>2, <2>3, <2>4, ReadMoves
<1>14. CASE ~(e < n)
  <2>1. e = n
    BY <1>7, <1>14
  <2>2. ListSound(s, read.began) /\ Range(s) \in SUBSET Releases
    BY <1>4, <1>9, <2>1, WholeList
  <2>3. PICK q : q = [read EXCEPT !.names = s, !.at = "getting", !.left = Range(s)]
    OBVIOUS
  <2>4. reads' = [reads EXCEPT ![r] = q]
    BY <1>2, <1>10, <1>11, <1>14, <2>3 DEF ListPage
  <2>5. q \in Reads /\ q.names = s /\ q.began = read.began /\ q.at = "getting"
    BY <1>9, <2>2, <2>3 DEF Reads
  <2>6. ReadSound(q)
    BY <1>6, <2>2, <2>5 DEF ReadSound
  <2> QED BY <1>1, <1>12, <2>4, <2>5, <2>6, ReadMoves
<1> QED BY <1>13, <1>14

(* The other steps of a read.                                                *)
LEMMA ReadsKeep ==
    ASSUME RegistryInv, NEW r \in Readers,
           \/ StartRead(r) \/ StoreRecords(r) \/ ReadThrows(r)
           \/ \E v \in Releases : GetVersion(r, v)
    PROVE  RegistryInv'
<1>1. /\ RegistryTyped /\ ReadSound(reads[r]) /\ UNCHANGED <<closes, specs, index, newest>>
      /\ closes \in Nat
  BY DEF RegistryInv, RegistryTyped, StartRead, StoreRecords, ReadThrows, GetVersion
<1>2. PICK read \in Reads : read = reads[r]
  BY <1>1 DEF RegistryTyped
<1>3. CASE StartRead(r)
  <2>1. PICK i : i = NoRead
    OBVIOUS
  <2>2. i \in Reads /\ i.names = <<>> /\ i.cursor = 0
    BY <2>1 DEF NoRead, Reads
  <2>3. PICK q : q = [i EXCEPT !.at = "listing", !.began = closes]
    OBVIOUS
  <2>4. q \in Reads /\ q.at = "listing" /\ q.began = closes /\ q.names = <<>> /\ q.cursor = 0
    BY <1>1, <2>2, <2>3 DEF Reads
  <2>5. reads' = [reads EXCEPT ![r] = q] /\ records' = NoCache
    BY <1>3, <2>1, <2>3 DEF StartRead
  <2>6. FirstOf(<<>>, index)
    BY <1>1 DEF FirstOf, RegistryTyped
  <2>7. ReadSound(q)
    BY <1>1, <2>4, <2>6 DEF ReadSound
  <2> QED BY <1>1, <2>4, <2>5, <2>7, NoCacheSound, ReadMoves
<1>4. CASE StoreRecords(r)
  <2>1. PICK c : c = [there |-> TRUE, names |-> read.names, stored |-> closes, began |-> read.began]
    OBVIOUS
  <2>2. c \in Caches /\ c.names = read.names /\ c.stored = closes /\ c.began = read.began /\ c.there
    BY <1>1, <2>1 DEF Caches, Reads
  <2>3. reads' = [reads EXCEPT ![r] = NoRead] /\ records' = c /\ read.at = "getting"
    BY <1>2, <1>4, <2>1 DEF StoreRecords
  <2>4. read.began <= closes /\ ListSound(read.names, read.began)
    BY <1>1, <1>2, <2>3 DEF ReadSound
  <2>5. CacheSound'
    BY <1>1, <2>2, <2>3, <2>4 DEF CacheSound, ListSound, PublishedBefore
  <2> QED BY <1>1, <2>2, <2>3, <2>5, IdleReadSound, ReadMoves
<1>5. CASE ReadThrows(r)
  <2>1. reads' = [reads EXCEPT ![r] = NoRead] /\ UNCHANGED records
    BY <1>5 DEF ReadThrows
  <2> QED BY <1>1, <2>1, CacheStays, IdleReadSound, ReadMoves
<1>6. ASSUME NEW v \in Releases, GetVersion(r, v) PROVE RegistryInv'
  <2>1. PICK l \in SUBSET Releases : l = read.left \ {v}
    BY DEF Reads
  <2>2. PICK q : q = [read EXCEPT !.left = l]
    OBVIOUS
  <2>3. /\ q \in Reads /\ q.at = read.at /\ q.names = read.names /\ q.began = read.began
        /\ q.cursor = read.cursor
    BY <2>2 DEF Reads
  <2>4. reads' = [reads EXCEPT ![r] = q] /\ UNCHANGED records
    BY <1>2, <1>6, <2>1, <2>2 DEF GetVersion
  <2>5. ReadSound(q)
    BY <1>1, <1>2, <2>3 DEF ReadSound
  <2> QED BY <1>1, <2>3, <2>4, <2>5, CacheStays, ReadMoves
<1> QED BY <1>3, <1>4, <1>5, <1>6

(* A publication: what was listed before is a first part of the list, and    *)
(* what is new was not published before any read began.                      *)
LEMMA PublishKeeps ==
    ASSUME RegistryInv, NEW v \in Releases, Publish(v)
    PROVE  RegistryInv'
<1>1. /\ RegistryTyped /\ IndexAgrees /\ closes \in Nat /\ index \in Seq(Releases)
      /\ UNCHANGED <<closes, reads, records>>
      /\ specs' = [u \in DOMAIN specs \cup {v} |-> IF u = v THEN closes ELSE specs[u]]
      /\ index' = Append(index, v) /\ newest' = v /\ v \notin DOMAIN specs
  BY DEF RegistryInv, RegistryTyped, Publish, IsNew
<1>2. PICK n \in Nat : n = Len(index)
  BY <1>1
<1>3. /\ index' \in Seq(Releases) /\ Len(index') = n + 1 /\ DOMAIN index' = 1..(n + 1)
      /\ index'[n + 1] = v /\ \A i \in 1..n : index'[i] = index[i]
      /\ index' # <<>>
  BY <1>1, <1>2
<1>4. /\ DOMAIN specs' = DOMAIN specs \cup {v} /\ specs'[v] = closes
      /\ \A u \in DOMAIN specs : specs'[u] = specs[u] /\ specs[u] \in 0..closes
  BY <1>1 DEF RegistryTyped
<1>5. /\ \A i \in 1..n : index[i] \in DOMAIN specs /\ index[i] # v
      /\ \A u \in DOMAIN specs : \E i \in 1..n : index[i] = u
  BY <1>1, <1>2 DEF IndexAgrees, Range
<1>6. \A i \in 1..(n + 1) : i \in 1..n \/ i = n + 1
  BY <1>2
<1>7. RegistryTyped'
  <2>1. DOMAIN specs' \subseteq Releases /\ \A u \in DOMAIN specs' : specs'[u] \in 0..closes
    BY <1>1, <1>4 DEF RegistryTyped
  <2> QED BY <1>1, <1>3, <2>1 DEF RegistryTyped
<1>8. IndexAgrees'
  <2>1. IsInjective(index')
    <3>1. ASSUME NEW i \in 1..(n + 1), NEW j \in 1..(n + 1), index'[i] = index'[j] PROVE i = j
      <4>1. CASE i \in 1..n /\ j \in 1..n
        BY <1>1, <1>2, <1>3, <3>1, <4>1 DEF IndexAgrees, IsInjective
      <4>2. CASE ~(i \in 1..n /\ j \in 1..n)
        BY <1>3, <1>5, <1>6, <3>1, <4>2
      <4> QED BY <4>1, <4>2
    <3> QED BY <1>3, <3>1 DEF IsInjective
  <2>2. Range(index') = DOMAIN specs'
    <3>1. \A x : x \in Range(index') <=> \E i \in 1..(n + 1) : index'[i] = x
      BY <1>3 DEF Range
    <3>2. n + 1 \in 1..(n + 1) /\ 1..n \subseteq 1..(n + 1)
      BY <1>2
    <3>3. ASSUME NEW x \in Range(index') PROVE x \in DOMAIN specs'
      <4>1. PICK i \in 1..(n + 1) : index'[i] = x
        BY <3>1
      <4>2. CASE i \in 1..n
        BY <1>3, <1>4, <1>5, <4>1, <4>2
      <4>3. CASE i = n + 1
        BY <1>3, <1>4, <4>1, <4>3
      <4> QED BY <1>6, <4>2, <4>3
    <3>4. ASSUME NEW x \in DOMAIN specs' PROVE x \in Range(index')
      <4>1. CASE x = v
        BY <1>3, <3>1, <3>2, <4>1
      <4>2. CASE x \in DOMAIN specs
        <5>1. PICK i \in 1..n : index[i] = x
          BY <1>5, <4>2
        <5> QED BY <1>3, <3>1, <3>2, <5>1
      <4> QED BY <1>4, <4>1, <4>2
    <3> QED BY <3>3, <3>4
  <2>3. ASSUME NEW i \in DOMAIN index', NEW j \in DOMAIN index', i <= j
        PROVE  specs'[index'[i]] <= specs'[index'[j]]
    <3>1. CASE j \in 1..n
      <4>1. i \in 1..n
        BY <1>3, <2>3, <3>1
      <4>2. specs[index[i]] <= specs[index[j]]
        BY <1>1, <1>2, <2>3, <3>1, <4>1 DEF IndexAgrees
      <4> QED BY <1>3, <1>4, <1>5, <3>1, <4>1, <4>2
    <3>2. CASE j = n + 1
      <4>1. specs'[index'[j]] = closes
        BY <1>3, <1>4, <3>2
      <4>2. index'[i] \in DOMAIN specs'
        BY <1>3, <1>4, <1>5, <1>6
      <4>3. specs'[index'[i]] \in 0..closes
        BY <1>7, <4>2, <1>1 DEF RegistryTyped
      <4> QED BY <1>1, <4>1, <4>3
    <3> QED BY <1>3, <1>6, <3>1, <3>2
  <2>4. newest' = Last(index')
    BY <1>1, <1>3 DEF Last
  <2> QED BY <1>3, <2>1, <2>2, <2>3, <2>4 DEF IndexAgrees
<1>9. ASSUME NEW names \in Seq(Releases), FirstOf(names, index) PROVE FirstOf(names, index)'
  <2>1. FirstOf(names, Append(index, v))
    BY <1>1, <1>9, FirstOfLonger
  <2> QED BY <1>1, <2>1 DEF FirstOf
<1>10. ASSUME NEW b \in Nat, b <= closes PROVE PublishedBefore(b)' = PublishedBefore(b)
  <2>1. ASSUME NEW x \in DOMAIN specs' PROVE specs'[x] < b => x \in DOMAIN specs /\ specs[x] < b
    BY <1>1, <1>4, <1>10
  <2>2. ASSUME NEW x \in DOMAIN specs, specs[x] < b PROVE x \in DOMAIN specs' /\ specs'[x] < b
    BY <1>4, <2>2
  <2> QED BY <2>1, <2>2 DEF PublishedBefore
<1>11. ASSUME NEW names \in Seq(Releases), NEW b \in Nat, b <= closes, ListSound(names, b)
       PROVE  ListSound(names, b)'
  BY <1>9, <1>10, <1>11 DEF ListSound
<1>12. CacheSound'
  <2>1. records \in Caches
    BY <1>1 DEF RegistryTyped
  <2>2. records.names \in Seq(Releases) /\ records.began \in Nat /\ records.stored \in Nat
    BY <2>1 DEF Caches
  <2>3. CASE records.there
    <3>1. /\ records.began <= records.stored /\ records.stored <= closes
          /\ ListSound(records.names, records.began)
      BY <2>3 DEF RegistryInv, CacheSound
    <3>2. ListSound(records.names, records.began)'
      <4>1. records.began <= closes
        BY <1>1, <2>2, <3>1
      <4>2. \A x \in Seq(Releases), b \in Nat : b <= closes /\ ListSound(x, b) =>
                /\ FirstOf(x, index') /\ PublishedBefore(b)' \subseteq Range(x)
        BY <1>11 DEF ListSound
      <4> QED BY <1>1, <2>2, <3>1, <4>1, <4>2 DEF ListSound
    <3> QED BY <1>1, <3>1, <3>2 DEF CacheSound
  <2>4. CASE ~records.there
    BY <1>1, <2>4 DEF CacheSound
  <2> QED BY <2>3, <2>4
<1>13. ASSUME NEW r \in Readers PROVE ReadSound(reads[r])'
  <2>1. PICK q \in Reads : q = reads[r]
    BY <1>1 DEF RegistryTyped
  <2>2. ReadSound(q) /\ reads'[r] = q /\ q.names \in Seq(Releases) /\ q.began \in Nat
    BY <1>1, <2>1 DEF RegistryInv, Reads
  <2>3. q.at = "listing" => FirstOf(q.names, index')
    BY <1>9, <2>2 DEF ReadSound
  <2>4. q.at = "getting" => ListSound(q.names, q.began)'
    <3>1. \A x \in Seq(Releases), b \in Nat : b <= closes /\ ListSound(x, b) =>
                /\ FirstOf(x, index') /\ PublishedBefore(b)' \subseteq Range(x)
      BY <1>11 DEF ListSound
    <3> QED BY <2>2, <3>1 DEF ReadSound, ListSound
  <2> QED BY <1>1, <2>2, <2>3, <2>4 DEF ReadSound
<1> QED BY <1>7, <1>8, <1>12, <1>13 DEF RegistryInv

(* What getSpecAt answers: among the known versions up to a ledger there is  *)
(* one of the highest, and the first of these is taken.                      *)
LEMMA InForceAnswered ==
    ASSUME RegistryInv
    PROVE  InForceThen
<1> SUFFICES ASSUME CacheValid, NEW l \in 0..closes,
                    NEW known, known = {v \in Range(records.names) : specs[v] <= l}
             PROVE  IF known = {} THEN GetSpecAt(l) = None
                    ELSE /\ GetSpecAt(l) \in known
                         /\ \A v \in known : specs[v] <= specs[GetSpecAt(l)]
  BY DEF InForceThen
<1>1. /\ closes \in Nat /\ index \in Seq(Releases) /\ records \in Caches /\ records.there
      /\ \A v \in DOMAIN specs : specs[v] \in 0..closes
  BY DEF RegistryInv, RegistryTyped, CacheValid
<1>2. PICK names \in Seq(Releases) : names = records.names
  BY <1>1 DEF Caches
<1>3. FirstOf(names, index) /\ Range(index) = DOMAIN specs
  BY <1>1, <1>2 DEF RegistryInv, CacheSound, ListSound, IndexAgrees
<1>4. \A n \in 1..Len(names) : specs[names[n]] \in 0..closes
  <2> SUFFICES ASSUME NEW n \in 1..Len(names) PROVE specs[names[n]] \in 0..closes
    OBVIOUS
  <2>1. names[n] = index[n] /\ n \in DOMAIN index
    BY <1>1, <1>2, <1>3 DEF FirstOf
  <2>2. names[n] \in DOMAIN specs
    BY <1>3, <2>1 DEF Range
  <2> QED BY <1>1, <2>2
<1>5. UpTo(l) = {n \in 1..Len(names) : specs[names[n]] <= l}
  BY <1>2 DEF UpTo
<1>6. \A v : v \in known <=> \E n \in UpTo(l) : names[n] = v
  BY <1>2, <1>5 DEF Range
<1>7. CASE UpTo(l) = {}
  BY <1>6, <1>7 DEF GetSpecAt
<1>8. CASE UpTo(l) # {}
  <2> DEFINE Back == {closes - specs[names[n]] : n \in UpTo(l)}
  <2>1. Back \in SUBSET Nat /\ Back # {}
    <3>1. \A n \in UpTo(l) : specs[names[n]] \in 0..closes
      BY <1>4, <1>5
    <3>2. \A n \in UpTo(l) : closes - specs[names[n]] \in Nat
      BY <1>1, <3>1
    <3> QED BY <1>8, <3>2
  <2>2. PICK b \in Back : \A d \in Back : b <= d
    BY <2>1, NatMin
  <2>3. PICK c \in UpTo(l) : \A m \in UpTo(l) : closes - specs[names[c]] <= closes - specs[names[m]]
    BY <2>2
  <2>4. \A m \in UpTo(l) : specs[names[m]] <= specs[names[c]]
    BY <1>1, <1>4, <1>5, <2>3
  <2>5. Candidates(l) # {} /\ Candidates(l) \in SUBSET Nat
    BY <1>2, <1>5, <2>4 DEF Candidates
  <2>6. Min(Candidates(l)) \in Candidates(l)
    BY <2>5, MinIs
  <2>7. PICK n \in UpTo(l) : /\ GetSpecAt(l) = names[n]
                             /\ \A m \in UpTo(l) : specs[names[m]] <= specs[names[n]]
    BY <1>2, <1>8, <2>6 DEF GetSpecAt, Candidates
  <2> QED BY <1>6, <2>7
<1> QED BY <1>7, <1>8

(* For every page size and however publications, pages and lapses interleave *)
(* and reads overlap: the entries of the contract agree, what a paged read   *)
(* comes to is the whole list of some moment of it, and what the cache       *)
(* answers is behind by no more than its time to live and the read; and a    *)
(* version of the highest ledger up to the one asked for is answered.        *)
THEOREM ReadsAreFresh == RegistrySpec => []RegistryReadsSound
<1>1. RegistryInit => RegistryInv
  <2> SUFFICES ASSUME RegistryInit PROVE RegistryInv
    OBVIOUS
  <2>1. /\ closes = 0 /\ index = <<>> /\ specs = <<>> /\ newest = None /\ records = NoCache
        /\ reads = [r \in Readers |-> NoRead]
    BY DEF RegistryInit
  <2>2. PICK q : q = NoRead
    OBVIOUS
  <2>3. q \in Reads /\ q.at = "idle" /\ q.began = 0
    BY <2>2 DEF NoRead, Reads
  <2>4. records \in Caches /\ ~records.there
    BY <2>1 DEF NoCache, Caches
  <2>5. reads \in [Readers -> Reads] /\ \A r \in Readers : reads[r] = q
    BY <2>1, <2>2, <2>3
  <2>6. RegistryTyped
    BY <2>1, <2>4, <2>5 DEF RegistryTyped
  <2>7. Range(index) = {} /\ DOMAIN specs = {} /\ IsInjective(index)
    BY <2>1 DEF Range, IsInjective
  <2>8. IndexAgrees
    BY <2>1, <2>7 DEF IndexAgrees
  <2>9. \A r \in Readers : ReadSound(reads[r])
    BY <2>1, <2>3, <2>5 DEF ReadSound
  <2> QED BY <2>4, <2>6, <2>8, <2>9 DEF RegistryInv, CacheSound
<1>2. RegistryInv /\ [RegistryNext]_registryVars => RegistryInv'
  <2> SUFFICES ASSUME RegistryInv, [RegistryNext]_registryVars PROVE RegistryInv'
    OBVIOUS
  <2>0. RegistryTyped /\ closes \in Nat
    BY DEF RegistryInv, RegistryTyped
  <2>1. CASE /\ UNCHANGED <<closes, specs, index, newest, reads>>
             /\ records' \in Caches /\ CacheSound'
    <3>1. RegistryTyped' /\ IndexAgrees'
      BY <2>0, <2>1 DEF RegistryInv, RegistryTyped, IndexAgrees
    <3>2. \A r \in Readers : ReadSound(reads[r])'
      BY <2>1 DEF RegistryInv, ReadSound, ListSound, PublishedBefore
    <3> QED BY <2>1, <3>1, <3>2 DEF RegistryInv
  <2>2. CASE \/ UNCHANGED registryVars \/ \E vs \in SUBSET Releases : Touch(vs)
             \/ \E k \in Releases \cup {"versions", "latest"} : RestoreFootprint(k)
    <3>1. UNCHANGED <<closes, specs, index, newest, reads, records>>
      BY <2>2 DEF registryVars, Touch, RestoreFootprint
    <3> QED BY <2>1, <3>1, CacheStays
  <2>3. CASE ClearCache
    BY <2>1, <2>3, NoCacheSound DEF ClearCache
  <2>4. CASE LedgerClose
    <3>1. closes' = closes + 1 /\ UNCHANGED <<specs, index, newest, reads, records>>
      BY <2>4 DEF LedgerClose
    <3>2. \A x \in Nat : x <= closes => x <= closes'
      BY <2>0, <3>1
    <3>3. RegistryTyped'
      <4>1. \A v \in DOMAIN specs : specs[v] \in 0..closes'
        BY <2>0, <3>1 DEF RegistryTyped
      <4> QED BY <2>0, <3>1, <4>1 DEF RegistryTyped
    <3>4. IndexAgrees'
      BY <3>1 DEF RegistryInv, IndexAgrees
    <3>5. records.stored \in Nat /\ \A r \in Readers : reads[r].began \in Nat
      BY <2>0 DEF RegistryTyped, Reads, Caches
    <3>6. CacheSound'
      BY <3>1, <3>2, <3>5 DEF RegistryInv, CacheSound, ListSound, PublishedBefore
    <3>7. \A r \in Readers : ReadSound(reads[r])'
      BY <3>1, <3>2, <3>5 DEF RegistryInv, ReadSound, ListSound, PublishedBefore
    <3> QED BY <3>3, <3>4, <3>6, <3>7 DEF RegistryInv
  <2>5. CASE RegistryNext
    BY <2>2, <2>3, <2>4, <2>5, PublishKeeps, ListKeeps, ReadsKeep DEF RegistryNext
  <2> QED BY <2>2, <2>5
<1>3. RegistryInv => RegistryReadsSound
  <2> SUFFICES ASSUME RegistryInv PROVE RegistryReadsSound
    OBVIOUS
  <2>1. /\ RegistryTyped /\ IndexAgrees /\ closes \in Nat /\ index \in Seq(Releases)
        /\ records \in Caches
    BY DEF RegistryInv, RegistryTyped
  <2>2. PICK names \in Seq(Releases) : names = records.names
    BY <2>1 DEF Caches
  <2>3. records.began \in Nat /\ records.stored \in Nat
    BY <2>1 DEF Caches
  <2>4. records.there => /\ records.began <= records.stored /\ records.stored <= closes
                         /\ FirstOf(names, index)
                         /\ PublishedBefore(records.began) \subseteq Range(names)
    BY <2>2 DEF RegistryInv, CacheSound, ListSound
  <2>5. ReadsAreComplete
    <3>1. records.there => IsPrefix(names, index)
      BY <2>1, <2>4, FirstIsPrefix
    <3> QED BY <2>2, <2>4, <3>1 DEF ReadsAreComplete
  <2>6. ASSUME CacheValid,
               NEW v \in PublishedBefore(closes - CacheTtl - (records.stored - records.began))
        PROVE  v \in Range(names) /\ GetSpec # None /\ specs[v] <= specs[GetSpec]
    <3>1. /\ records.there /\ closes - CacheTtl - (records.stored - records.began) <= records.began
          /\ closes - CacheTtl - (records.stored - records.began) \in Int
      BY <2>1, <2>3, <2>6, RegistryAssumption DEF CacheValid
    <3>2. v \in DOMAIN specs /\ specs[v] \in Int /\ specs[v] < records.began
      <4>1. /\ v \in DOMAIN specs
            /\ specs[v] < closes - CacheTtl - (records.stored - records.began)
        BY DEF PublishedBefore
      <4>2. specs[v] \in Int
        BY <2>1, <4>1 DEF RegistryTyped
      <4> QED BY <2>3, <3>1, <4>1, <4>2
    <3>3. v \in Range(names)
      BY <2>4, <3>1, <3>2 DEF PublishedBefore
    <3>4. PICK i \in 1..Len(names) : names[i] = v
      BY <3>3 DEF Range
    <3>5. PICK n \in Nat : n = Len(names) /\ n >= 1 /\ i <= n /\ n <= Len(index)
      BY <2>4, <3>1, <3>4 DEF FirstOf
    <3>6. /\ names # <<>> /\ index[i] = v /\ index[n] = names[n] /\ i \in DOMAIN index
          /\ n \in DOMAIN index
      BY <2>1, <2>4, <3>1, <3>4, <3>5 DEF FirstOf
    <3>7. GetSpec = names[n] /\ names[n] \in Releases
      BY <2>2, <3>5, <3>6 DEF GetSpec, Last
    <3>8. specs[index[i]] <= specs[index[n]]
      BY <2>1, <3>5, <3>6 DEF IndexAgrees
    <3> QED BY <3>3, <3>6, <3>7, <3>8, RegistryAssumption
  <2>7. StaleAtMostTtl
    BY <2>2, <2>6 DEF StaleAtMostTtl
  <2> QED BY <2>1, <2>5, <2>7, InForceAnswered DEF RegistryReadsSound
<1> QED BY <1>1, <1>2, <1>3, PTL DEF RegistrySpec

-----------------------------------------------------------------------------
(***************************************************************************)
(* SpecResolution                                                           *)
(***************************************************************************)
Holdings == [chain: [SpecIds -> Nat], mirror: [SpecIds -> Nat]]
Entries == [id: SpecIds, version: Nat, expires: Nat, took: Nat]
Stages == {"idle", "hosted", "sampling", "storing", "chain", "listing", "reading", "resolving"}
Asks == [at: Stages, id: SpecIds \cup {"none"}, got: Nat, began: Nat, seen: Nat, asked: Nat, took: Nat]

ResolutionTyped ==
    /\ instant \in Nat /\ held \in Seq(Holdings) /\ Len(held) = instant + 1
    /\ lru \in [Sources -> Seq(Entries)] /\ asks \in [Askers -> Asks]

(* Versions only go up, on the chain and, after it, in the mirror.           *)
HeldGrows ==
    \A id \in SpecIds :
        /\ \A i, j \in 1..Len(held) : i <= j => /\ held[i].chain[id] <= held[j].chain[id]
                                                /\ held[i].mirror[id] <= held[j].mirror[id]
        /\ \A i \in 1..Len(held) : held[i].mirror[id] <= held[i].chain[id]

(* A version is not older than its source's at the end of the instant before *)
(* one in which it was asked for.                                            *)
NotOlder(w, version, since, id) == since > 0 => version >= held[since][w][id]

(* What a cached entry was when it was stored, one time to live before it    *)
(* expires.                                                                  *)
EntrySound(w, e) ==
    /\ w = "mirror" => e.version # 0
    /\ \E since \in 0..instant : /\ e.expires - SpecTtl - e.took = since
                                 /\ NotOlder(w, e.version, since, e.id)

(* What a call has in hand, from the mirror and from the chain.              *)
GotSound(ask) ==
    /\ ask.at \in {"sampling", "storing"} => ask.got # 0
    /\ ask.got # 0 => NotOlder("mirror", ask.got, ask.began, ask.id)
SeenSound(ask) ==
    /\ ask.at = "reading" => NotOlder("chain", ask.seen, ask.asked, ask.id)
    /\ ask.at = "resolving" =>
          NotOlder("chain", ask.seen, ask.asked - SpecTtl - ask.took, ask.id)

AskSound(ask) ==
    /\ ask.began <= instant /\ ask.asked <= instant
    /\ ask.at # "idle" => ask.id \in SpecIds /\ GotSound(ask) /\ SeenSound(ask)

ResolutionInv ==
    /\ ResolutionTyped /\ HeldGrows /\ CacheWithinBounds
    /\ \A w \in Sources : \A n \in DOMAIN lru[w] : EntrySound(w, lru[w][n])
    /\ \A a \in Askers : AskSound(asks[a])

(* A sequence without one of its elements.                                   *)
LEMMA RemovedAt ==
    ASSUME NEW S, NEW s \in Seq(S), NEW i \in 1..Len(s)
    PROVE  /\ RemoveAt(s, i) \in Seq(S) /\ Len(RemoveAt(s, i)) = Len(s) - 1
           /\ \A k \in 1..(Len(s) - 1) : RemoveAt(s, i)[k] = IF k < i THEN s[k] ELSE s[k + 1]
<1>1. PICK p : p = SubSeq(s, 1, i - 1)
  OBVIOUS
<1>2. PICK q : q = SubSeq(s, i + 1, Len(s))
  OBVIOUS
<1>3. p \in Seq(S) /\ Len(p) = i - 1 /\ \A k \in 1..(i - 1) : p[k] = s[k]
  BY <1>1
<1>4. q \in Seq(S) /\ Len(q) = Len(s) - i /\ \A k \in 1..(Len(s) - i) : q[k] = s[i + k]
  <2>1. CASE i = Len(s)
    <3>1. q = <<>>
      BY <1>2, <2>1
    <3> QED BY <2>1, <3>1
  <2>2. CASE i < Len(s)
    BY <1>2, <2>2
  <2> QED BY <2>1, <2>2
<1>5. PICK r : r = p \o q
  OBVIOUS
<1>6. r \in Seq(S) /\ Len(r) = Len(s) - 1
  BY <1>3, <1>4, <1>5
<1>7. ASSUME NEW k \in 1..(Len(s) - 1) PROVE r[k] = IF k < i THEN s[k] ELSE s[k + 1]
  <2>1. CASE k < i
    BY <1>3, <1>4, <1>5, <2>1
  <2>2. CASE ~(k < i)
    <3>1. k - (i - 1) \in 1..(Len(s) - i) /\ i + (k - (i - 1)) = k + 1
      BY <2>2
    <3>2. r[k] = q[k - (i - 1)]
      BY <1>3, <1>4, <1>5, <2>2
    <3> QED BY <1>4, <2>2, <3>1, <3>2
  <2> QED BY <2>1, <2>2
<1> QED BY <1>1, <1>2, <1>5, <1>6, <1>7 DEF RemoveAt

(* What is left in a cache without a contract's entry, or with one more.     *)
CacheOf(w, kept) ==
    /\ kept \in Seq(Entries) /\ Len(kept) <= SpecCapacity
    /\ \A m, n \in 1..Len(kept) : kept[m].id = kept[n].id => m = n
    /\ \A n \in 1..Len(kept) : EntrySound(w, kept[n])

CachesOf(caches) ==
    caches \in [Sources -> Seq(Entries)] /\ \A w \in Sources : CacheOf(w, caches[w])

(* Deleting a key leaves the others' entries, and none with that key.        *)
LEMMA WithoutIs ==
    ASSUME ResolutionInv, NEW w \in Sources, NEW id \in SpecIds
    PROVE  /\ CacheOf(w, Without(w, id)) /\ \A n \in 1..Len(Without(w, id)) : Without(w, id)[n].id # id
           /\ PlacesOf(w, id) # {} => Len(Without(w, id)) < SpecCapacity
<1>0. SpecCapacity \in Nat
  BY ResolutionAssumption
<1>1. lru[w] \in Seq(Entries) /\ Len(lru[w]) <= SpecCapacity
  BY DEF ResolutionInv, ResolutionTyped, CacheWithinBounds
<1>2. \A m, n \in 1..Len(lru[w]) : lru[w][m].id = lru[w][n].id => m = n
  BY <1>1 DEF ResolutionInv, CacheWithinBounds
<1>3. \A n \in 1..Len(lru[w]) : EntrySound(w, lru[w][n])
  BY <1>1 DEF ResolutionInv
<1>4. CASE PlacesOf(w, id) = {}
  <2>1. Without(w, id) = lru[w]
    BY <1>4 DEF Without
  <2>2. \A n \in 1..Len(lru[w]) : lru[w][n].id # id
    BY <1>1, <1>4 DEF PlacesOf
  <2> QED BY <1>1, <1>2, <1>3, <1>4, <2>1, <2>2 DEF CacheOf
<1>5. CASE PlacesOf(w, id) # {}
  <2>1. PICK i \in 1..Len(lru[w]) : lru[w][i].id = id /\ Without(w, id) = RemoveAt(lru[w], i)
    <3>1. PICK i : i = (CHOOSE n \in PlacesOf(w, id) : TRUE) /\ i \in PlacesOf(w, id)
      BY <1>5
    <3>2. Without(w, id) = RemoveAt(lru[w], i)
      BY <1>5, <3>1 DEF Without
    <3>3. i \in 1..Len(lru[w]) /\ lru[w][i].id = id
      BY <1>1, <3>1 DEF PlacesOf
    <3> QED BY <3>2, <3>3
  <2>2. PICK c : c = Without(w, id)
    OBVIOUS
  <2>3. /\ c \in Seq(Entries) /\ Len(c) = Len(lru[w]) - 1
        /\ \A k \in 1..Len(c) : c[k] = IF k < i THEN lru[w][k] ELSE lru[w][k + 1]
    <3>1. /\ RemoveAt(lru[w], i) \in Seq(Entries) /\ Len(RemoveAt(lru[w], i)) = Len(lru[w]) - 1
          /\ \A k \in 1..(Len(lru[w]) - 1) :
                RemoveAt(lru[w], i)[k] = IF k < i THEN lru[w][k] ELSE lru[w][k + 1]
      BY <1>1, RemovedAt
    <3> QED BY <2>1, <2>2, <3>1
  <2>4. \A k \in 1..Len(c) : \E n \in 1..Len(lru[w]) :
            n # i /\ c[k] = lru[w][n] /\ n = IF k < i THEN k ELSE k + 1
    <3> SUFFICES ASSUME NEW k \in 1..Len(c)
                 PROVE  \E n \in 1..Len(lru[w]) :
                            n # i /\ c[k] = lru[w][n] /\ n = IF k < i THEN k ELSE k + 1
      OBVIOUS
    <3>1. CASE k < i
      <4>1. k \in 1..Len(lru[w]) /\ k # i
        BY <1>1, <2>3, <3>1
      <4> QED BY <2>3, <3>1, <4>1
    <3>2. CASE ~(k < i)
      <4>1. k + 1 \in 1..Len(lru[w]) /\ k + 1 # i
        BY <1>1, <2>3, <3>2
      <4> QED BY <2>3, <3>2, <4>1
    <3> QED BY <3>1, <3>2
  <2>5. \A k \in 1..Len(c) : c[k].id # id /\ EntrySound(w, c[k])
    BY <1>2, <1>3, <2>1, <2>4
  <2>6. ASSUME NEW m \in 1..Len(c), NEW n \in 1..Len(c), c[m].id = c[n].id PROVE m = n
    <3>1. PICK x \in 1..Len(lru[w]) : c[m] = lru[w][x] /\ x = IF m < i THEN m ELSE m + 1
      BY <2>4
    <3>2. PICK y \in 1..Len(lru[w]) : c[n] = lru[w][y] /\ y = IF n < i THEN n ELSE n + 1
      BY <2>4
    <3>3. x = y
      BY <1>2, <2>6, <3>1, <3>2
    <3> QED BY <3>1, <3>2, <3>3, <2>3
  <2>7. Len(c) < SpecCapacity
    BY <1>0, <1>1, <2>3
  <2> QED BY <1>0, <2>2, <2>3, <2>5, <2>6, <2>7 DEF CacheOf
<1> QED BY <1>4, <1>5

(* An entry set at the end.                                                  *)
LEMMA AppendedIs ==
    ASSUME NEW w \in Sources, NEW kept, CacheOf(w, kept), NEW e \in Entries, EntrySound(w, e),
           \A n \in 1..Len(kept) : kept[n].id # e.id
    PROVE  /\ Len(kept) < SpecCapacity => CacheOf(w, Append(kept, e))
           /\ Len(kept) = SpecCapacity => CacheOf(w, Tail(Append(kept, e)))
<1>0. SpecCapacity \in Nat /\ SpecCapacity > 0
  BY ResolutionAssumption
<1>1. PICK k \in Nat : k = Len(kept) /\ k <= SpecCapacity /\ kept \in Seq(Entries)
  BY DEF CacheOf
<1>2. PICK c : c = Append(kept, e)
  OBVIOUS
<1>3. /\ c \in Seq(Entries) /\ Len(c) = k + 1 /\ c[k + 1] = e
      /\ \A n \in 1..k : c[n] = kept[n]
  BY <1>1, <1>2
<1>4. \A n \in 1..(k + 1) : EntrySound(w, c[n])
  BY <1>1, <1>3 DEF CacheOf
<1>5. \A m, n \in 1..(k + 1) : c[m].id = c[n].id => m = n
  <2> SUFFICES ASSUME NEW m \in 1..(k + 1), NEW n \in 1..(k + 1), c[m].id = c[n].id
               PROVE  m = n
    OBVIOUS
  <2>1. CASE m \in 1..k /\ n \in 1..k
    BY <1>1, <1>3, <2>1 DEF CacheOf
  <2>2. CASE m = k + 1 /\ n \in 1..k
    BY <1>1, <1>3, <2>2
  <2>3. CASE n = k + 1 /\ m \in 1..k
    BY <1>1, <1>3, <2>3
  <2> QED BY <2>1, <2>2, <2>3
<1>6. CASE k < SpecCapacity
  <2>1. Len(c) <= SpecCapacity
    BY <1>0, <1>3, <1>6
  <2>2. CacheOf(w, c)
    BY <1>3, <1>4, <1>5, <2>1 DEF CacheOf
  <2> QED BY <1>0, <1>1, <1>2, <1>6, <2>2
<1>7. CASE k = SpecCapacity
  <2>1. PICK t : t = Tail(c)
    OBVIOUS
  <2>2. t \in Seq(Entries) /\ Len(t) = k /\ \A n \in 1..k : t[n] = c[n + 1]
    BY <1>3, <2>1
  <2>3. \A n \in 1..k : n + 1 \in 1..(k + 1)
    BY <1>1
  <2>4. \A n \in 1..k : EntrySound(w, t[n])
    BY <1>4, <2>2, <2>3
  <2>5. ASSUME NEW m \in 1..k, NEW n \in 1..k, t[m].id = t[n].id PROVE m = n
    <3>1. c[m + 1] = t[m] /\ c[n + 1] = t[n]
      BY <2>2
    <3>2. c[m + 1].id = c[n + 1].id
      BY <2>5, <3>1
    <3>3. m + 1 = n + 1
      BY <1>5, <2>3, <3>2
    <3> QED BY <3>3
  <2>6. Len(t) <= SpecCapacity
    BY <1>0, <1>7, <2>2
  <2>7. CacheOf(w, t)
    BY <2>2, <2>4, <2>5, <2>6 DEF CacheOf
  <2> QED BY <1>0, <1>1, <1>2, <1>7, <2>1, <2>7
<1> QED BY <1>0, <1>1, <1>6, <1>7

(* One of the caches changes.                                                *)
LEMMA CachesSet ==
    ASSUME NEW caches, CachesOf(caches), NEW w \in Sources, NEW c, CacheOf(w, c)
    PROVE  CachesOf([caches EXCEPT ![w] = c])
<1>1. PICK d : d = [caches EXCEPT ![w] = c]
  OBVIOUS
<1>2. c \in Seq(Entries) /\ caches \in [Sources -> Seq(Entries)]
  BY DEF CacheOf, CachesOf
<1>3. /\ d \in [Sources -> Seq(Entries)] /\ d[w] = c
      /\ \A v \in Sources : v # w => d[v] = caches[v]
  BY <1>1, <1>2
<1>4. ASSUME NEW v \in Sources PROVE CacheOf(v, d[v])
  <2>1. CASE v = w
    BY <1>3, <2>1
  <2>2. CASE v # w
    BY <1>3, <2>2 DEF CachesOf
  <2> QED BY <2>1, <2>2
<1> QED BY <1>1, <1>3, <1>4 DEF CachesOf

(* The invariant in those words, in a state and in the next.                 *)
LEMMA ResolutionIs ==
    /\ ResolutionInv <=> /\ ResolutionTyped /\ HeldGrows /\ CachesOf(lru)
                         /\ \A a \in Askers : AskSound(asks[a])
    /\ ResolutionInv' <=> (/\ ResolutionTyped /\ HeldGrows /\ CachesOf(lru)
                           /\ \A a \in Askers : AskSound(asks[a]))'
<1>1. \A s \in Seq(Entries) : DOMAIN s = 1..Len(s)
  OBVIOUS
<1>2. /\ ResolutionTyped => \A w \in Sources : lru[w] \in Seq(Entries)
      /\ ResolutionTyped' => \A w \in Sources : lru'[w] \in Seq(Entries)
  BY DEF ResolutionTyped
<1>3. ResolutionInv <=> /\ ResolutionTyped /\ HeldGrows /\ CachesOf(lru)
                        /\ \A a \in Askers : AskSound(asks[a])
  BY <1>1, <1>2 DEF ResolutionInv, ResolutionTyped, CacheWithinBounds, CacheOf, CachesOf
<1>4. ResolutionInv' <=> (/\ ResolutionTyped /\ HeldGrows /\ CachesOf(lru)
                          /\ \A a \in Askers : AskSound(asks[a]))'
  BY <1>1, <1>2 DEF ResolutionInv, ResolutionTyped, CacheWithinBounds, CacheOf, CachesOf
<1> QED BY <1>3, <1>4

(* What a source held, of any type and never less than before.               *)
LEMMA SourceGrows ==
    ASSUME ResolutionInv, NEW w \in Sources, NEW id \in SpecIds
    PROVE  /\ \A i \in 1..(instant + 1) : held[i][w][id] \in Nat
           /\ \A i, j \in 1..(instant + 1) : i <= j => held[i][w][id] <= held[j][w][id]
<1>1. /\ instant \in Nat /\ held \in Seq(Holdings) /\ Len(held) = instant + 1 /\ HeldGrows
  BY DEF ResolutionInv, ResolutionTyped
<1>2. \A i \in 1..(instant + 1) : held[i] \in Holdings
  BY <1>1
<1>3. \A i \in 1..(instant + 1) : held[i].chain[id] \in Nat /\ held[i].mirror[id] \in Nat
  BY <1>2 DEF Holdings
<1>4. \A i, j \in 1..(instant + 1) : i <= j => /\ held[i].chain[id] <= held[j].chain[id]
                                               /\ held[i].mirror[id] <= held[j].mirror[id]
  BY <1>1 DEF HeldGrows
<1>5. CASE w = "chain"
  BY <1>3, <1>4, <1>5
<1>6. CASE w = "mirror"
  BY <1>3, <1>4, <1>6
<1> QED BY <1>5, <1>6 DEF Sources

(* What is not older than a source was is not older than it was before.      *)
LEMMA NotOlderBefore ==
    ASSUME ResolutionInv, NEW w \in Sources, NEW id \in SpecIds, NEW v \in Nat,
           NEW since \in Int, NEW t \in Int, t <= since, since <= instant + 1,
           NotOlder(w, v, since, id)
    PROVE  NotOlder(w, v, t, id)
<1> SUFFICES ASSUME t > 0 PROVE v >= held[t][w][id]
  BY DEF NotOlder
<1>1. instant \in Nat
  BY DEF ResolutionInv, ResolutionTyped
<1>2. t \in 1..(instant + 1) /\ since \in 1..(instant + 1) /\ since > 0
  BY <1>1
<1>3. held[t][w][id] \in Nat /\ held[since][w][id] \in Nat /\ held[t][w][id] <= held[since][w][id]
  BY <1>2, SourceGrows
<1>4. v >= held[since][w][id]
  BY <1>2 DEF NotOlder
<1> QED BY <1>3, <1>4

(* What a source holds now is not older than it was in any instant.          *)
LEMMA NowNotOlder ==
    ASSUME ResolutionInv, NEW w \in Sources, NEW id \in SpecIds, NEW since \in Nat, since <= instant
    PROVE  Now[w][id] \in Nat /\ NotOlder(w, Now[w][id], since, id)
<1>1. instant \in Nat /\ instant + 1 \in 1..(instant + 1)
  BY DEF ResolutionInv, ResolutionTyped
<1>2. PICK v : v = Now[w][id]
  OBVIOUS
<1>3. v \in Nat /\ v = held[instant + 1][w][id]
  BY <1>1, <1>2, SourceGrows DEF Now
<1>4. NotOlder(w, v, instant + 1, id)
  BY <1>3 DEF NotOlder
<1>5. NotOlder(w, v, since, id)
  BY <1>1, <1>3, <1>4, NotOlderBefore
<1> QED BY <1>2, <1>3, <1>5

(* A hit is not older than its source was one time to live and one fetch     *)
(* ago.                                                                      *)
LEMMA HitNotOlder ==
    ASSUME ResolutionInv, NEW w \in Sources, NEW e \in Entries, EntrySound(w, e), Valid(e)
    PROVE  /\ e.id \in SpecIds /\ e.version \in Nat /\ e.took \in Nat
           /\ NotOlder(w, e.version, instant - SpecTtl - e.took, e.id)
<1>1. instant \in Nat /\ SpecTtl \in Nat
  BY ResolutionAssumption DEF ResolutionInv, ResolutionTyped
<1>2. e.id \in SpecIds /\ e.version \in Nat /\ e.expires \in Nat /\ e.took \in Nat
  BY DEF Entries
<1>3. PICK since \in 0..instant : /\ e.expires - SpecTtl - e.took = since
                                  /\ NotOlder(w, e.version, since, e.id)
  BY DEF EntrySound
<1>4. PICK t \in Int : t = instant - SpecTtl - e.took
  BY <1>1, <1>2
<1>5. t <= since /\ since \in Int /\ since <= instant + 1
  BY <1>1, <1>2, <1>3, <1>4 DEF Valid
<1>6. NotOlder(w, e.version, t, e.id)
  BY <1>2, <1>3, <1>5, NotOlderBefore
<1> QED BY <1>2, <1>4, <1>6

(* A call moves, and a cache with it, while chain and mirror stay.          *)
LEMMA CallMoves ==
    ASSUME ResolutionInv, UNCHANGED <<instant, held>>, CachesOf(lru'),
           asks' \in [Askers -> Asks], \A a \in Askers : AskSound(asks'[a])
    PROVE  ResolutionInv'
<1>1. ResolutionTyped /\ HeldGrows
  BY DEF ResolutionInv
<1>2. ResolutionTyped'
  BY <1>1 DEF ResolutionTyped, CachesOf
<1>3. HeldGrows'
  BY <1>1 DEF HeldGrows
<1>4. CachesOf(lru)'
  <2>1. \A w, e : EntrySound(w, e) => EntrySound(w, e)'
    BY DEF EntrySound, NotOlder
  <2>2. \A w, c : CacheOf(w, c) => CacheOf(w, c)'
    BY <2>1 DEF CacheOf
  <2> QED BY <2>2 DEF CachesOf
<1>5. (\A a \in Askers : AskSound(asks[a]))'
  BY DEF AskSound, GotSound, SeenSound, NotOlder
<1> QED BY <1>2, <1>3, <1>4, <1>5, ResolutionIs

(* One call goes on with ask; the caches stay or are others.                 *)
LEMMA AskMoves ==
    ASSUME ResolutionInv, UNCHANGED <<instant, held>>, CachesOf(lru'), NEW a \in Askers,
           NEW ask \in Asks, AskSound(ask), asks' = [asks EXCEPT ![a] = ask]
    PROVE  ResolutionInv'
<1>1. asks \in [Askers -> Asks] /\ \A b \in Askers : AskSound(asks[b])
  BY DEF ResolutionInv, ResolutionTyped
<1>2. asks' \in [Askers -> Asks] /\ asks'[a] = ask /\ \A b \in Askers : b # a => asks'[b] = asks[b]
  BY <1>1
<1>3. ASSUME NEW b \in Askers PROVE AskSound(asks'[b])
  <2>1. CASE b = a
    BY <1>2, <2>1
  <2>2. CASE b # a
    BY <1>1, <1>2, <2>2
  <2> QED BY <2>1, <2>2
<1> QED BY <1>2, <1>3, CallMoves

(* A call that is idle, or that only has the next client to ask.             *)
LEMMA PlainAskSound ==
    ASSUME instant \in Nat
    PROVE  /\ NoAsk \in Asks /\ AskSound(NoAsk)
           /\ \A ask : ask.id \in SpecIds => Fallback(ask) \in Asks /\ AskSound(Fallback(ask))
<1>1. NoAsk \in Asks /\ AskSound(NoAsk)
  <2>1. PICK q : q = NoAsk
    OBVIOUS
  <2>2. q \in Asks /\ q.at = "idle" /\ q.began = 0 /\ q.asked = 0
    BY <2>1 DEF NoAsk, Asks, Stages
  <2> QED BY <2>1, <2>2 DEF AskSound
<1>2. ASSUME NEW ask, ask.id \in SpecIds PROVE Fallback(ask) \in Asks /\ AskSound(Fallback(ask))
  <2>1. PICK q : q = Fallback(ask)
    OBVIOUS
  <2>2. /\ q \in Asks /\ q.at = "chain" /\ q.id = ask.id /\ q.began = 0 /\ q.asked = 0 /\ q.got = 0
    BY <1>2, <2>1 DEF Fallback, NoAsk, Asks, Stages
  <2> QED BY <1>2, <2>1, <2>2 DEF AskSound, GotSound, SeenSound
<1> QED BY <1>1, <1>2

(* get moves an entry of the cache to its end.                               *)
LEMMA TouchedIs ==
    ASSUME ResolutionInv, NEW w \in Sources, NEW id \in SpecIds, NEW n \in Hits(w, id)
    PROVE  /\ lru[w][n] \in Entries /\ lru[w][n].id = id /\ EntrySound(w, lru[w][n])
           /\ Valid(lru[w][n]) /\ CachesOf([lru EXCEPT ![w] = Touched(w, n)])
<1>1. CachesOf(lru) /\ CacheOf(w, lru[w]) /\ lru[w] \in Seq(Entries)
  BY ResolutionIs DEF CachesOf
<1>2. n \in PlacesOf(w, id) /\ Valid(lru[w][n])
  BY DEF Hits
<1>3. n \in 1..Len(lru[w]) /\ lru[w][n].id = id /\ lru[w][n] \in Entries
  BY <1>1, <1>2 DEF PlacesOf
<1>4. EntrySound(w, lru[w][n])
  BY <1>1, <1>3 DEF CacheOf
<1>5. /\ CacheOf(w, Without(w, id)) /\ \A m \in 1..Len(Without(w, id)) : Without(w, id)[m].id # id
      /\ Len(Without(w, id)) < SpecCapacity
  BY <1>2, WithoutIs
<1>6. Touched(w, n) = Append(Without(w, id), lru[w][n])
  BY <1>3 DEF Touched
<1>7. CacheOf(w, Touched(w, n))
  BY <1>3, <1>4, <1>5, <1>6, AppendedIs
<1> QED BY <1>1, <1>2, <1>3, <1>4, <1>7, CachesSet

(* set adds what was fetched, at the end of the fetch.                       *)
LEMMA FetchedIs ==
    ASSUME ResolutionInv, NEW w \in Sources, NEW id \in SpecIds, NEW v \in Nat,
           NEW since \in Nat, since <= instant, NotOlder(w, v, since, id), w = "mirror" => v # 0
    PROVE  CachesOf([lru EXCEPT ![w] = AfterSet(w, Fetched(id, v, since))])
<1>0. instant \in Nat /\ SpecTtl \in Nat /\ SpecCapacity \in Nat
  BY ResolutionAssumption DEF ResolutionInv, ResolutionTyped
<1>1. PICK e : e = Fetched(id, v, since)
  OBVIOUS
<1>2. instant + SpecTtl \in Nat /\ instant - since \in Nat
  BY <1>0
<1>3. e \in Entries /\ e.id = id /\ e.version = v
      /\ e.expires = instant + SpecTtl /\ e.took = instant - since
  BY <1>1, <1>2 DEF Entries, Fetched
<1>4. e.expires - SpecTtl - e.took = since /\ since \in 0..instant
  BY <1>0, <1>3
<1>5. EntrySound(w, e)
  BY <1>3, <1>4 DEF EntrySound
<1>6. PICK kept : /\ kept = Without(w, e.id) /\ CacheOf(w, kept)
                  /\ \A n \in 1..Len(kept) : kept[n].id # e.id
  BY <1>3, WithoutIs
<1>7. Len(kept) \in Nat /\ Len(kept) <= SpecCapacity /\ Len(Append(kept, e)) = Len(kept) + 1
  BY <1>3, <1>6 DEF CacheOf
<1>8. /\ Len(kept) < SpecCapacity => CacheOf(w, Append(kept, e))
      /\ Len(kept) = SpecCapacity => CacheOf(w, Tail(Append(kept, e)))
  BY <1>3, <1>5, <1>6, AppendedIs
<1>9. AfterSet(w, e) = IF Len(kept) + 1 > SpecCapacity THEN Tail(Append(kept, e)) ELSE Append(kept, e)
  BY <1>6, <1>7 DEF AfterSet
<1>10. CacheOf(w, AfterSet(w, e))
  BY <1>0, <1>7, <1>8, <1>9
<1>11. CachesOf(lru)
  BY ResolutionIs
<1> QED BY <1>1, <1>10, <1>11, CachesSet

(* The steps of a call at the hosted client.                                 *)
LEMMA HostedKeeps ==
    ASSUME ResolutionInv, NEW a \in Askers,
           \/ HostedSaysNull(a) \/ HostedReads(a) \/ SampleCompares(a) \/ HostedStores(a)
           \/ \E id \in SpecIds : CacheHit(a, id) \/ CacheMiss(a, id)
    PROVE  ResolutionInv'
<1>0. instant \in Nat /\ "mirror" \in Sources
  BY DEF ResolutionInv, ResolutionTyped, Sources
<1>1. asks \in [Askers -> Asks] /\ \A b \in Askers : AskSound(asks[b])
  BY DEF ResolutionInv, ResolutionTyped
<1>2. PICK ask \in Asks : ask = asks[a] /\ AskSound(ask)
  BY <1>1
<1>3. CachesOf(lru)
  BY ResolutionIs
<1>4. CASE HostedSaysNull(a)
  <2>1. /\ UNCHANGED <<instant, held, lru>> /\ asks' = [asks EXCEPT ![a] = Fallback(ask)]
        /\ ask.at = "hosted"
    BY <1>1, <1>2, <1>4 DEF HostedSaysNull
  <2>2. ask.id \in SpecIds
    BY <1>2, <2>1 DEF AskSound
  <2> QED BY <1>0, <1>3, <2>1, <2>2, PlainAskSound, AskMoves
<1>5. CASE HostedReads(a)
  <2>1. PICK at \in {"sampling", "storing"} :
            asks' = [asks EXCEPT ![a] = [ask EXCEPT !.at = at, !.got = Now.mirror[ask.id]]]
    BY <1>1, <1>2, <1>5 DEF HostedReads
  <2>2. UNCHANGED <<instant, held, lru>> /\ ask.at = "hosted" /\ Now.mirror[ask.id] # 0
    BY <1>2, <1>5 DEF HostedReads
  <2>3. PICK got : got = Now.mirror[ask.id]
    OBVIOUS
  <2>4. ask.id \in SpecIds /\ ask.began \in Nat /\ ask.began <= instant
    BY <1>2, <2>2 DEF AskSound, Asks
  <2>5. got \in Nat /\ got # 0 /\ NotOlder("mirror", got, ask.began, ask.id)
    BY <1>0, <2>2, <2>3, <2>4, NowNotOlder
  <2>6. PICK q : q = [ask EXCEPT !.at = at, !.got = got]
    OBVIOUS
  <2>7. /\ q \in Asks /\ q.at = at /\ q.id = ask.id /\ q.began = ask.began /\ q.got = got
        /\ q.asked = ask.asked
    BY <2>5, <2>6 DEF Asks, Stages
  <2>8. AskSound(q)
    BY <1>2, <2>1, <2>4, <2>5, <2>7 DEF AskSound, GotSound, SeenSound
  <2>9. asks' = [asks EXCEPT ![a] = q] /\ CachesOf(lru')
    BY <1>3, <2>1, <2>2, <2>3, <2>6
  <2> QED BY <2>2, <2>7, <2>8, <2>9, AskMoves
<1>6. CASE SampleCompares(a)
  <2>1. /\ UNCHANGED <<instant, held, lru>> /\ ask.at = "resolving" /\ ask.got # 0
        /\ asks' = [asks EXCEPT ![a] = IF Agrees(ask.got, ask.seen) THEN [ask EXCEPT !.at = "storing"]
                                       ELSE Fallback(ask)]
    BY <1>1, <1>2, <1>6 DEF SampleCompares
  <2>2. ask.id \in SpecIds
    BY <1>2, <2>1 DEF AskSound
  <2>3. PICK q : q = [ask EXCEPT !.at = "storing"]
    OBVIOUS
  <2>4. /\ q \in Asks /\ q.at = "storing" /\ q.id = ask.id /\ q.began = ask.began
        /\ q.got = ask.got /\ q.asked = ask.asked
    BY <2>3 DEF Asks, Stages
  <2>5. AskSound(q)
    BY <1>2, <2>1, <2>4 DEF AskSound, GotSound, SeenSound
  <2>6. CASE Agrees(ask.got, ask.seen)
    BY <1>3, <2>1, <2>3, <2>4, <2>5, <2>6, AskMoves
  <2>7. CASE ~Agrees(ask.got, ask.seen)
    BY <1>0, <1>3, <2>1, <2>2, <2>7, PlainAskSound, AskMoves
  <2> QED BY <2>6, <2>7
<1>7. CASE HostedStores(a)
  <2>1. /\ UNCHANGED <<instant, held>> /\ ask.at = "storing"
        /\ lru' = [lru EXCEPT !["mirror"] =
                       AfterSet("mirror", Fetched(ask.id, ask.got, ask.began))]
        /\ asks' = [asks EXCEPT ![a] = NoAsk]
    BY <1>2, <1>7 DEF HostedStores
  <2>2. /\ ask.id \in SpecIds /\ ask.began \in Nat /\ ask.began <= instant
        /\ ask.got \in Nat /\ ask.got # 0 /\ NotOlder("mirror", ask.got, ask.began, ask.id)
    BY <1>2, <2>1 DEF AskSound, GotSound, Asks
  <2>3. CachesOf(lru')
    BY <1>0, <2>1, <2>2, FetchedIs
  <2> QED BY <1>0, <2>1, <2>3, PlainAskSound, AskMoves
<1>8. ASSUME NEW id \in SpecIds, CacheHit(a, id) PROVE ResolutionInv'
  <2>1. PICK n \in Hits("mirror", id) : lru' = [lru EXCEPT !["mirror"] = Touched("mirror", n)]
    BY <1>8 DEF CacheHit
  <2>2. UNCHANGED <<instant, held, asks>>
    BY <1>8 DEF CacheHit
  <2>3. CachesOf(lru')
    BY <1>0, <2>1, TouchedIs
  <2> QED BY <1>1, <2>2, <2>3, CallMoves
<1>9. ASSUME NEW id \in SpecIds, CacheMiss(a, id) PROVE ResolutionInv'
  <2>1. PICK q : q = [NoAsk EXCEPT !.at = "hosted", !.id = id, !.began = instant]
    OBVIOUS
  <2>2. /\ UNCHANGED <<instant, held>> /\ asks' = [asks EXCEPT ![a] = q]
        /\ lru' = [lru EXCEPT !["mirror"] = Without("mirror", id)]
    <3>1. /\ UNCHANGED <<instant, held>>
          /\ asks' = [asks EXCEPT ![a] = [NoAsk EXCEPT !.at = "hosted", !.id = id, !.began = instant]]
          /\ lru' = [lru EXCEPT !["mirror"] = Without("mirror", id)]
      BY <1>9, Zenon DEF CacheMiss
    <3> QED BY <2>1, <3>1
  <2>3. /\ q \in Asks /\ q.at = "hosted" /\ q.id = id /\ q.began = instant /\ q.got = 0
        /\ q.asked = 0
    BY <1>0, <2>1 DEF Asks, Stages, NoAsk
  <2>4. AskSound(q)
    BY <1>0, <2>3 DEF AskSound, GotSound, SeenSound
  <2>5. CachesOf(lru')
    BY <1>0, <1>3, <2>2, WithoutIs, CachesSet
  <2> QED BY <2>2, <2>3, <2>4, <2>5, AskMoves
<1> QED BY <1>4, <1>5, <1>6, <1>7, <1>8, <1>9

(* The steps of a call at the on-chain client.                               *)
LEMMA OnChainKeeps ==
    ASSUME ResolutionInv, NEW a \in Askers,
           \/ ChainHit(a) \/ ChainMiss(a) \/ ChainLists(a) \/ ChainStores(a)
           \/ ChainAnswers(a) \/ ChainThrows(a)
    PROVE  ResolutionInv'
<1>0. instant \in Nat /\ SpecTtl \in Nat /\ "chain" \in Sources
  BY ResolutionAssumption DEF ResolutionInv, ResolutionTyped, Sources
<1>1. asks \in [Askers -> Asks] /\ \A b \in Askers : AskSound(asks[b])
  BY DEF ResolutionInv, ResolutionTyped
<1>2. PICK ask \in Asks : ask = asks[a] /\ AskSound(ask)
  BY <1>1
<1>3. CachesOf(lru)
  BY ResolutionIs
<1>4. /\ ask.began \in Nat /\ ask.asked \in Nat /\ ask.took \in Nat /\ ask.seen \in Nat
      /\ ask.got \in Nat /\ ask.began <= instant /\ ask.asked <= instant
  BY <1>2 DEF Asks, AskSound
<1>5. CASE ChainHit(a)
  <2>1. UNCHANGED <<instant, held>> /\ ask.at \in {"sampling", "chain"}
    <3>1. UNCHANGED <<instant, held>> /\ asks[a].at \in {"sampling", "chain"}
      BY <1>5, Zenon DEF ChainHit
    <3> QED BY <1>2, <3>1
  <2>2. ask.id \in SpecIds /\ GotSound(ask)
    BY <1>2, <2>1 DEF AskSound
  <2>3. PICK n \in Hits("chain", ask.id) :
          /\ lru' = [lru EXCEPT !["chain"] = Touched("chain", n)]
          /\ asks' = [asks EXCEPT ![a] = [ask EXCEPT !.at = "resolving", !.asked = instant,
                          !.seen = lru["chain"][n].version, !.took = lru["chain"][n].took]]
    <3>1. PICK n \in Hits("chain", asks[a].id) :
            /\ lru' = [lru EXCEPT !["chain"] = Touched("chain", n)]
            /\ asks' = [asks EXCEPT ![a] = [asks[a] EXCEPT !.at = "resolving", !.asked = instant,
                            !.seen = lru["chain"][n].version, !.took = lru["chain"][n].took]]
      BY <1>5, Zenon DEF ChainHit
    <3>2. ask = asks[a]
      BY <1>2
    <3> QED BY <3>1, <3>2, Zenon
  <2>4. PICK e \in Entries : e = lru["chain"][n] /\ e.id = ask.id /\ EntrySound("chain", e) /\ Valid(e)
    BY <1>0, <2>2, <2>3, TouchedIs
  <2>5. CachesOf(lru')
    BY <1>0, <2>2, <2>3, TouchedIs
  <2>6. /\ e.version \in Nat /\ e.took \in Nat
        /\ NotOlder("chain", e.version, instant - SpecTtl - e.took, ask.id)
    BY <1>0, <2>4, HitNotOlder
  <2>7. PICK q : q = [ask EXCEPT !.at = "resolving", !.asked = instant,
                          !.seen = e.version, !.took = e.took]
    OBVIOUS
  <2>8. /\ q \in Asks /\ q.at = "resolving" /\ q.id = ask.id /\ q.began = ask.began
        /\ q.got = ask.got /\ q.asked = instant /\ q.seen = e.version /\ q.took = e.took
    BY <1>0, <2>6, <2>7 DEF Asks, Stages
  <2>9. AskSound(q)
    BY <1>0, <1>4, <2>2, <2>6, <2>8 DEF AskSound, GotSound, SeenSound
  <2>10. asks' = [asks EXCEPT ![a] = q]
    BY <2>3, <2>4, <2>7
  <2> QED BY <2>1, <2>5, <2>8, <2>9, <2>10, AskMoves
<1>6. CASE ChainMiss(a)
  <2>1. /\ UNCHANGED <<instant, held>> /\ ask.at \in {"sampling", "chain"}
        /\ lru' = [lru EXCEPT !["chain"] = Without("chain", ask.id)]
        /\ asks' = [asks EXCEPT ![a] = [ask EXCEPT !.at = "listing", !.asked = instant]]
    BY <1>1, <1>2, <1>6 DEF ChainMiss
  <2>2. ask.id \in SpecIds /\ GotSound(ask)
    BY <1>2, <2>1 DEF AskSound
  <2>3. PICK q : q = [ask EXCEPT !.at = "listing", !.asked = instant]
    OBVIOUS
  <2>4. /\ q \in Asks /\ q.at = "listing" /\ q.id = ask.id /\ q.began = ask.began
        /\ q.got = ask.got /\ q.asked = instant
    BY <1>0, <2>3 DEF Asks, Stages
  <2>5. AskSound(q)
    BY <1>0, <1>4, <2>2, <2>4 DEF AskSound, GotSound, SeenSound
  <2>6. CachesOf(lru')
    BY <1>0, <1>3, <2>1, <2>2, WithoutIs, CachesSet
  <2> QED BY <2>1, <2>3, <2>4, <2>5, <2>6, AskMoves
<1>7. CASE ChainLists(a)
  <2>1. /\ UNCHANGED <<instant, held, lru>> /\ ask.at = "listing"
        /\ asks' = [asks EXCEPT ![a] = [ask EXCEPT !.at = "reading", !.seen = Now.chain[ask.id]]]
    BY <1>1, <1>2, <1>7 DEF ChainLists
  <2>2. ask.id \in SpecIds /\ GotSound(ask)
    BY <1>2, <2>1 DEF AskSound
  <2>3. PICK seen : seen = Now.chain[ask.id]
    OBVIOUS
  <2>4. seen \in Nat /\ NotOlder("chain", seen, ask.asked, ask.id)
    BY <1>0, <1>4, <2>2, <2>3, NowNotOlder
  <2>5. PICK q : q = [ask EXCEPT !.at = "reading", !.seen = seen]
    OBVIOUS
  <2>6. /\ q \in Asks /\ q.at = "reading" /\ q.id = ask.id /\ q.began = ask.began
        /\ q.got = ask.got /\ q.asked = ask.asked /\ q.seen = seen
    BY <2>4, <2>5 DEF Asks, Stages
  <2>7. AskSound(q)
    BY <1>4, <2>2, <2>4, <2>6 DEF AskSound, GotSound, SeenSound
  <2>8. asks' = [asks EXCEPT ![a] = q] /\ CachesOf(lru')
    BY <1>3, <2>1, <2>3, <2>5
  <2> QED BY <2>1, <2>6, <2>7, <2>8, AskMoves
<1>8. CASE ChainStores(a)
  <2>1. /\ UNCHANGED <<instant, held>> /\ ask.at = "reading"
        /\ lru' = [lru EXCEPT !["chain"] =
                       AfterSet("chain", Fetched(ask.id, ask.seen, ask.asked))]
        /\ asks' = [asks EXCEPT ![a] = [ask EXCEPT !.at = "resolving"]]
    BY <1>1, <1>2, <1>8 DEF ChainStores
  <2>2. ask.id \in SpecIds /\ GotSound(ask) /\ NotOlder("chain", ask.seen, ask.asked, ask.id)
    BY <1>2, <2>1 DEF AskSound, SeenSound
  <2>3. CachesOf(lru')
    BY <1>0, <1>4, <2>1, <2>2, FetchedIs
  <2>4. PICK q : q = [ask EXCEPT !.at = "resolving"]
    OBVIOUS
  <2>5. /\ q \in Asks /\ q.at = "resolving" /\ q.id = ask.id /\ q.began = ask.began
        /\ q.got = ask.got /\ q.asked = ask.asked /\ q.seen = ask.seen /\ q.took = ask.took
    BY <2>4 DEF Asks, Stages
  <2>6. NotOlder("chain", ask.seen, ask.asked - SpecTtl - ask.took, ask.id)
    <3>1. PICK t \in Int : t = ask.asked - SpecTtl - ask.took
      BY <1>0, <1>4
    <3>2. t <= ask.asked /\ ask.asked \in Int /\ ask.asked <= instant + 1
      BY <1>0, <1>4, <3>1
    <3>3. NotOlder("chain", ask.seen, t, ask.id)
      BY <1>0, <1>4, <2>2, <3>2, NotOlderBefore
    <3> QED BY <3>1, <3>3
  <2>7. AskSound(q)
    BY <1>4, <2>2, <2>5, <2>6 DEF AskSound, GotSound, SeenSound
  <2> QED BY <2>1, <2>3, <2>4, <2>5, <2>7, AskMoves
<1>9. CASE ChainAnswers(a)
  BY <1>0, <1>3, <1>9, PlainAskSound, AskMoves DEF ChainAnswers
<1>10. CASE ChainThrows(a)
  <2>1. /\ UNCHANGED <<instant, held, lru>> /\ ask.at \in {"listing", "reading", "resolving"}
        /\ asks' = [asks EXCEPT ![a] = IF ask.got # 0 THEN [ask EXCEPT !.at = "storing"] ELSE NoAsk]
    BY <1>1, <1>2, <1>10 DEF ChainThrows
  <2>2. ask.id \in SpecIds /\ GotSound(ask)
    BY <1>2, <2>1 DEF AskSound
  <2>3. CASE ask.got = 0
    BY <1>0, <1>3, <2>1, <2>3, PlainAskSound, AskMoves
  <2>4. CASE ask.got # 0
    <3>1. PICK q : q = [ask EXCEPT !.at = "storing"]
      OBVIOUS
    <3>2. /\ q \in Asks /\ q.at = "storing" /\ q.id = ask.id /\ q.began = ask.began
          /\ q.got = ask.got /\ q.asked = ask.asked
      BY <3>1 DEF Asks, Stages
    <3>3. AskSound(q)
      BY <1>4, <2>2, <2>4, <3>2 DEF AskSound, GotSound, SeenSound
    <3> QED BY <1>3, <2>1, <2>4, <3>1, <3>2, <3>3, AskMoves
  <2> QED BY <2>3, <2>4
<1> QED BY <1>5, <1>6, <1>7, <1>8, <1>9, <1>10

(* What was held before any call in hand began is as it was: what the caches *)
(* and the calls hold stays as sound as it is.                               *)
LEMMA PastStands ==
    ASSUME ResolutionInv, lru' = lru, asks' = asks, instant' \in Nat, instant <= instant',
           \A t \in Int : t > 0 /\ t <= instant => held'[t] = held[t]
    PROVE  (CachesOf(lru) /\ \A a \in Askers : AskSound(asks[a]))'
<1>1. /\ instant \in Nat /\ SpecTtl \in Nat /\ asks \in [Askers -> Asks]
      /\ CachesOf(lru) /\ \A a \in Askers : AskSound(asks[a])
  BY ResolutionAssumption, ResolutionIs DEF ResolutionInv, ResolutionTyped
<1>2. \A w, v, id : \A t \in Int : t <= instant /\ NotOlder(w, v, t, id) => NotOlder(w, v, t, id)'
  BY DEF NotOlder
<1>3. ASSUME NEW w, NEW e, EntrySound(w, e) PROVE EntrySound(w, e)'
  <2>1. PICK since \in 0..instant : /\ e.expires - SpecTtl - e.took = since
                                    /\ NotOlder(w, e.version, since, e.id)
    BY <1>3 DEF EntrySound
  <2>2. since \in 0..instant' /\ since \in Int /\ since <= instant
    BY <1>1
  <2>3. NotOlder(w, e.version, since, e.id)'
    BY <1>2, <2>1, <2>2
  <2> QED BY <1>3, <2>1, <2>2, <2>3 DEF EntrySound
<1>4. CachesOf(lru)'
  <2>1. \A w, c : CacheOf(w, c) => CacheOf(w, c)'
    BY <1>3 DEF CacheOf
  <2> QED BY <1>1, <2>1 DEF CachesOf
<1>5. ASSUME NEW ask \in Asks, AskSound(ask) PROVE AskSound(ask)'
  <2>1. /\ ask.began \in Nat /\ ask.asked \in Nat /\ ask.took \in Nat
        /\ ask.began <= instant /\ ask.asked <= instant
    BY <1>5 DEF Asks, AskSound
  <2>2. ask.began <= instant' /\ ask.asked <= instant'
    BY <1>1, <2>1
  <2>3. /\ ask.asked - SpecTtl - ask.took \in Int /\ ask.asked - SpecTtl - ask.took <= instant
        /\ ask.began \in Int /\ ask.asked \in Int
    BY <1>1, <2>1
  <2>4. GotSound(ask) => GotSound(ask)'
    BY <1>2, <2>1, <2>3 DEF GotSound
  <2>5. SeenSound(ask) => SeenSound(ask)'
    BY <1>2, <2>1, <2>3 DEF SeenSound
  <2> QED BY <1>5, <2>2, <2>4, <2>5 DEF AskSound
<1>6. ASSUME NEW a \in Askers PROVE AskSound(asks[a])'
  <2>1. PICK ask \in Asks : ask = asks[a] /\ ask = asks'[a] /\ AskSound(ask)
    BY <1>1
  <2>2. AskSound(ask)'
    BY <1>5, <2>1
  <2> QED BY <2>1, <2>2 DEF AskSound, GotSound, SeenSound, NotOlder
<1> QED BY <1>4, <1>6

(* Chain or mirror take up a newer version: what they held before any call   *)
(* in hand began is as it was.                                               *)
LEMMA HoldingKeeps ==
    ASSUME ResolutionInv, UNCHANGED <<instant, lru, asks>>, NEW h \in Holdings,
           held' = [held EXCEPT ![instant + 1] = h],
           \A id \in SpecIds : /\ Now.chain[id] <= h.chain[id] /\ Now.mirror[id] <= h.mirror[id]
                               /\ h.mirror[id] <= h.chain[id]
    PROVE  ResolutionInv'
<1>1. /\ instant \in Nat /\ held \in Seq(Holdings) /\ Len(held) = instant + 1 /\ HeldGrows
      /\ lru \in [Sources -> Seq(Entries)] /\ asks \in [Askers -> Asks]
  BY DEF ResolutionInv, ResolutionTyped
<1>2. /\ held' \in Seq(Holdings) /\ Len(held') = instant + 1 /\ held'[instant + 1] = h
      /\ \A i \in 1..instant : held'[i] = held[i]
  BY <1>1
<1>3. \A i \in 1..(instant + 1), id \in SpecIds : /\ held[i].chain[id] \in Nat
                                                  /\ held[i].mirror[id] \in Nat
  <2>1. \A i \in 1..(instant + 1) : held[i] \in Holdings
    BY <1>1
  <2> QED BY <2>1 DEF Holdings
<1>4. \A id \in SpecIds : h.chain[id] \in Nat /\ h.mirror[id] \in Nat
  BY DEF Holdings
<1>5. HeldGrows'
  <2> SUFFICES ASSUME NEW id \in SpecIds
               PROVE  /\ \A i, j \in 1..(instant + 1) :
                            i <= j => /\ held'[i].chain[id] <= held'[j].chain[id]
                                      /\ held'[i].mirror[id] <= held'[j].mirror[id]
                      /\ \A i \in 1..(instant + 1) : held'[i].mirror[id] <= held'[i].chain[id]
    BY <1>2 DEF HeldGrows
  <2>1. /\ \A i, j \in 1..(instant + 1) :
              i <= j => /\ held[i].chain[id] <= held[j].chain[id]
                        /\ held[i].mirror[id] <= held[j].mirror[id]
        /\ \A i \in 1..(instant + 1) : held[i].mirror[id] <= held[i].chain[id]
    BY <1>1 DEF HeldGrows
  <2>2. /\ held[instant + 1].chain[id] <= h.chain[id]
        /\ held[instant + 1].mirror[id] <= h.mirror[id]
        /\ h.mirror[id] <= h.chain[id]
    BY DEF Now
  <2>3. ASSUME NEW i \in 1..(instant + 1), NEW j \in 1..(instant + 1), i <= j
        PROVE  /\ held'[i].chain[id] <= held'[j].chain[id]
               /\ held'[i].mirror[id] <= held'[j].mirror[id]
    <3>1. CASE j <= instant
      <4>1. i \in 1..instant /\ j \in 1..instant
        BY <1>1, <2>3, <3>1
      <4> QED BY <1>2, <2>1, <2>3, <4>1
    <3>2. CASE j = instant + 1 /\ i = instant + 1
      BY <1>2, <1>4, <3>2
    <3>3. CASE j = instant + 1 /\ i <= instant
      <4>1. i \in 1..instant /\ instant + 1 \in 1..(instant + 1) /\ i <= instant + 1
        BY <1>1, <3>3
      <4>2. /\ held[i].chain[id] <= held[instant + 1].chain[id]
            /\ held[i].mirror[id] <= held[instant + 1].mirror[id]
        BY <2>1, <4>1
      <4>3. /\ held[i].chain[id] <= h.chain[id] /\ held[i].mirror[id] <= h.mirror[id]
        BY <1>3, <1>4, <2>2, <4>1, <4>2
      <4> QED BY <1>2, <3>3, <4>1, <4>3
    <3> QED BY <1>1, <3>1, <3>2, <3>3
  <2>4. ASSUME NEW i \in 1..(instant + 1) PROVE held'[i].mirror[id] <= held'[i].chain[id]
    <3>1. CASE i = instant + 1
      BY <1>2, <2>2, <3>1
    <3>2. CASE i \in 1..instant
      BY <1>2, <2>1, <3>2
    <3> QED BY <1>1, <3>1, <3>2
  <2> QED BY <2>3, <2>4
<1>6. \A t \in Int : t > 0 /\ t <= instant => held'[t] = held[t]
  BY <1>1, <1>2
<1>7. instant' = instant /\ lru' = lru /\ asks' = asks
  OBVIOUS
<1>8. (CachesOf(lru) /\ \A a \in Askers : AskSound(asks[a]))'
  BY <1>1, <1>6, <1>7, PastStands
<1>9. ResolutionTyped'
  BY <1>1, <1>2 DEF ResolutionTyped
<1> QED BY <1>5, <1>8, <1>9, ResolutionIs

(* The clock goes on: what chain and mirror hold now is held at the end of   *)
(* this instant.                                                             *)
LEMMA InstantKeeps ==
    ASSUME ResolutionInv, InstantPasses
    PROVE  ResolutionInv'
<1>1. /\ instant \in Nat /\ held \in Seq(Holdings) /\ Len(held) = instant + 1 /\ HeldGrows
      /\ lru \in [Sources -> Seq(Entries)] /\ asks \in [Askers -> Asks]
  BY DEF ResolutionInv, ResolutionTyped
<1>2. /\ instant' = instant + 1 /\ held' = Append(held, held[instant + 1])
      /\ lru' = lru /\ asks' = asks
  BY DEF InstantPasses, Now
<1>3. held[instant + 1] \in Holdings
  BY <1>1
<1>4. /\ held' \in Seq(Holdings) /\ Len(held') = instant + 2
      /\ held'[instant + 2] = held[instant + 1]
      /\ \A i \in 1..(instant + 1) : held'[i] = held[i]
  BY <1>1, <1>2, <1>3
<1>5. \A i \in 1..(instant + 2) : \E k \in 1..(instant + 1) :
         held'[i] = held[k] /\ k = IF i <= instant + 1 THEN i ELSE instant + 1
  <2> SUFFICES ASSUME NEW i \in 1..(instant + 2)
               PROVE  \E k \in 1..(instant + 1) :
                        held'[i] = held[k] /\ k = IF i <= instant + 1 THEN i ELSE instant + 1
    OBVIOUS
  <2>1. CASE i <= instant + 1
    <3>1. i \in 1..(instant + 1)
      BY <1>1, <2>1
    <3> QED BY <1>4, <2>1, <3>1
  <2>2. CASE ~(i <= instant + 1)
    <3>1. i = instant + 2 /\ instant + 1 \in 1..(instant + 1)
      BY <1>1, <2>2
    <3> QED BY <1>4, <2>2, <3>1
  <2> QED BY <2>1, <2>2
<1>6. HeldGrows'
  <2> SUFFICES ASSUME NEW id \in SpecIds
               PROVE  /\ \A i, j \in 1..(instant + 2) :
                            i <= j => /\ held'[i].chain[id] <= held'[j].chain[id]
                                      /\ held'[i].mirror[id] <= held'[j].mirror[id]
                      /\ \A i \in 1..(instant + 2) : held'[i].mirror[id] <= held'[i].chain[id]
    BY <1>4 DEF HeldGrows
  <2>1. /\ \A i, j \in 1..(instant + 1) :
              i <= j => /\ held[i].chain[id] <= held[j].chain[id]
                        /\ held[i].mirror[id] <= held[j].mirror[id]
        /\ \A i \in 1..(instant + 1) : held[i].mirror[id] <= held[i].chain[id]
    BY <1>1 DEF HeldGrows
  <2>2. ASSUME NEW i \in 1..(instant + 2), NEW j \in 1..(instant + 2), i <= j
        PROVE  /\ held'[i].chain[id] <= held'[j].chain[id]
               /\ held'[i].mirror[id] <= held'[j].mirror[id]
    <3>1. PICK k \in 1..(instant + 1) :
            held'[i] = held[k] /\ k = IF i <= instant + 1 THEN i ELSE instant + 1
      BY <1>5
    <3>2. PICK m \in 1..(instant + 1) :
            held'[j] = held[m] /\ m = IF j <= instant + 1 THEN j ELSE instant + 1
      BY <1>5
    <3>3. k <= m
      BY <1>1, <2>2, <3>1, <3>2
    <3> QED BY <2>1, <3>1, <3>2, <3>3
  <2> QED BY <1>5, <2>1, <2>2
<1>7. \A t \in Int : t > 0 /\ t <= instant => held'[t] = held[t]
  BY <1>1, <1>4
<1>8. (CachesOf(lru) /\ \A a \in Askers : AskSound(asks[a]))'
  BY <1>1, <1>2, <1>7, PastStands
<1>9. ResolutionTyped'
  BY <1>1, <1>2, <1>4 DEF ResolutionTyped
<1> QED BY <1>6, <1>8, <1>9, ResolutionIs

(* What the invariant says of the answers.                                   *)
LEMMA ResolutionSound ==
    ASSUME ResolutionInv
    PROVE  SpecsResolved
<1>1. /\ instant \in Nat /\ SpecTtl \in Nat /\ "chain" \in Sources /\ "mirror" \in Sources
      /\ lru \in [Sources -> Seq(Entries)] /\ asks \in [Askers -> Asks]
  BY ResolutionAssumption DEF ResolutionInv, ResolutionTyped, Sources
<1>2. \A w, v, t, id : NotOlder(w, v, t, id) /\ v \in Nat /\ t \in Int => v >= HeldBefore(w, t, id)
  <2> SUFFICES ASSUME NEW w, NEW v \in Nat, NEW t \in Int, NEW id, NotOlder(w, v, t, id)
               PROVE  v >= HeldBefore(w, t, id)
    OBVIOUS
  <2>1. CASE t <= 0
    BY <2>1 DEF HeldBefore
  <2>2. CASE ~(t <= 0)
    BY <2>2 DEF HeldBefore, NotOlder
  <2> QED BY <2>1, <2>2
<1>3. ASSUME NEW w \in Sources, NEW n \in DOMAIN lru[w]
      PROVE  lru[w][n] \in Entries /\ EntrySound(w, lru[w][n])
  <2>1. lru[w] \in Seq(Entries)
    BY <1>1
  <2> QED BY <2>1 DEF ResolutionInv
<1>4. ASSUME NEW w \in Sources, NEW n \in DOMAIN lru[w], Valid(lru[w][n])
      PROVE  lru[w][n].version
               >= HeldBefore(w, instant - SpecTtl - lru[w][n].took, lru[w][n].id)
  <2>1. PICK e \in Entries : e = lru[w][n] /\ EntrySound(w, e) /\ Valid(e)
    BY <1>3, <1>4
  <2>2. e.version \in Nat /\ e.took \in Nat /\ NotOlder(w, e.version, instant - SpecTtl - e.took, e.id)
    BY <2>1, HitNotOlder
  <2>3. instant - SpecTtl - e.took \in Int
    BY <1>1, <2>2
  <2> QED BY <1>2, <2>1, <2>2, <2>3
<1>5. HitsAreFresh
  BY <1>4 DEF HitsAreFresh
<1>6. \A n \in DOMAIN lru["mirror"] : lru["mirror"][n].version # 0
  BY <1>1, <1>3 DEF EntrySound
<1>7. ASSUME NEW a \in Askers, asks[a].at = "resolving"
      PROVE  asks[a].seen
               >= HeldBefore("chain", asks[a].asked - SpecTtl - asks[a].took, asks[a].id)
  <2>1. PICK ask \in Asks : ask = asks[a] /\ AskSound(ask)
    BY <1>1 DEF ResolutionInv
  <2>2. ask.seen \in Nat /\ ask.asked \in Nat /\ ask.took \in Nat
    BY DEF Asks
  <2>3. NotOlder("chain", ask.seen, ask.asked - SpecTtl - ask.took, ask.id)
    BY <1>7, <2>1 DEF AskSound, SeenSound
  <2>4. ask.asked - SpecTtl - ask.took \in Int
    BY <1>1, <2>2
  <2> QED BY <1>2, <2>1, <2>2, <2>3, <2>4
<1>8. KnownIsFound
  BY <1>6, <1>7 DEF KnownIsFound
<1>9. CacheWithinBounds
  BY DEF ResolutionInv
<1> QED BY <1>5, <1>8, <1>9 DEF SpecsResolved

(* For every capacity and time to live, for any specs and callers and        *)
(* however their calls and reads overlap: each client's cache holds each     *)
(* contract once and no more than it may, a hit is not older than its source *)
(* was one time to live and one fetch ago, and a spec that was on the chain  *)
(* that long before its client was asked is found.                           *)
THEOREM SpecsAreResolved == ResolutionSpec => []SpecsResolved
<1>1. ResolutionInit => ResolutionInv
  <2> SUFFICES ASSUME ResolutionInit PROVE ResolutionInv
    OBVIOUS
  <2>1. PICK h : h = [chain |-> NoSpecs, mirror |-> NoSpecs]
    OBVIOUS
  <2>2. h \in Holdings /\ \A id \in SpecIds : h.chain[id] = 0 /\ h.mirror[id] = 0
    BY <2>1 DEF Holdings, NoSpecs
  <2>3. instant = 0 /\ held = <<h>> /\ lru = [w \in Sources |-> <<>>] /\ asks = [a \in Askers |-> NoAsk]
    BY <2>1 DEF ResolutionInit
  <2>4. held \in Seq(Holdings) /\ Len(held) = 1 /\ held[1] = h
    BY <2>2, <2>3
  <2>5. /\ lru \in [Sources -> Seq(Entries)] /\ SpecCapacity \in Nat
        /\ \A w \in Sources : lru[w] = <<>>
    BY <2>3, ResolutionAssumption
  <2>6. asks \in [Askers -> Asks] /\ \A a \in Askers : AskSound(asks[a])
    BY <2>3, PlainAskSound
  <2>7. HeldGrows
    BY <2>2, <2>4 DEF HeldGrows
  <2>8. CachesOf(lru)
    <3>1. \A w : CacheOf(w, <<>>)
      BY <2>5 DEF CacheOf
    <3> QED BY <2>5, <3>1 DEF CachesOf
  <2>9. ResolutionTyped
    BY <2>3, <2>4, <2>5, <2>6 DEF ResolutionTyped
  <2> QED BY <2>6, <2>7, <2>8, <2>9, ResolutionIs
<1>2. ResolutionInv /\ [ResolutionNext]_resolutionVars => ResolutionInv'
  <2> SUFFICES ASSUME ResolutionInv, [ResolutionNext]_resolutionVars PROVE ResolutionInv'
    OBVIOUS
  <2>0. /\ instant \in Nat /\ held \in Seq(Holdings) /\ Len(held) = instant + 1 /\ HeldGrows
        /\ CachesOf(lru) /\ asks \in [Askers -> Asks] /\ \A a \in Askers : AskSound(asks[a])
    BY ResolutionIs DEF ResolutionTyped
  <2>1. CASE UNCHANGED resolutionVars
    <3>1. UNCHANGED <<instant, held, lru, asks>>
      BY <2>1 DEF resolutionVars
    <3> QED BY <2>0, <3>1, CallMoves
  <2>2. PICK now \in Holdings : now = held[instant + 1] /\ now = Now
    BY <2>0 DEF Now
  <2>3. \A id \in SpecIds : /\ now.chain[id] \in Nat /\ now.mirror[id] \in Nat
                            /\ now.mirror[id] <= now.chain[id]
    <3>1. instant + 1 \in 1..Len(held)
      BY <2>0
    <3> QED BY <2>0, <2>2, <3>1 DEF HeldGrows, Holdings
  <2>4. ASSUME NEW id \in SpecIds, Published(id) PROVE ResolutionInv'
    <3>1. PICK h : h = [now EXCEPT !.chain = [now.chain EXCEPT ![id] = now.chain[id] + 1]]
      OBVIOUS
    <3>2. UNCHANGED <<instant, lru, asks>> /\ held' = [held EXCEPT ![instant + 1] = h]
      <4>1. /\ UNCHANGED <<instant, lru, asks>>
            /\ held' = [held EXCEPT ![instant + 1].chain[id] = @ + 1]
        BY <2>4 DEF Published
      <4> QED BY <2>2, <3>1, <4>1
    <3>3. /\ h \in Holdings /\ h.mirror = now.mirror
          /\ h.chain = [now.chain EXCEPT ![id] = now.chain[id] + 1]
      BY <2>3, <3>1 DEF Holdings
    <3>4. now.chain \in [SpecIds -> Nat]
      BY DEF Holdings
    <3>5. ASSUME NEW x \in SpecIds
          PROVE  /\ Now.chain[x] <= h.chain[x] /\ Now.mirror[x] <= h.mirror[x]
                 /\ h.mirror[x] <= h.chain[x]
      BY <2>2, <2>3, <3>3, <3>4
    <3> QED BY <3>2, <3>3, <3>5, HoldingKeeps
  <2>5. ASSUME NEW id \in SpecIds, MirrorSyncs(id) PROVE ResolutionInv'
    <3>1. PICK h : h = [now EXCEPT !.mirror[id] = now.chain[id]]
      OBVIOUS
    <3>2. UNCHANGED <<instant, lru, asks>> /\ held' = [held EXCEPT ![instant + 1] = h]
      BY <2>0, <2>2, <2>5, <3>1 DEF MirrorSyncs
    <3>3. /\ h \in Holdings /\ h.chain = now.chain
          /\ h.mirror = [now.mirror EXCEPT ![id] = now.chain[id]]
      BY <2>3, <3>1 DEF Holdings
    <3>4. now.mirror \in [SpecIds -> Nat]
      BY DEF Holdings
    <3>5. ASSUME NEW x \in SpecIds
          PROVE  /\ Now.chain[x] <= h.chain[x] /\ Now.mirror[x] <= h.mirror[x]
                 /\ h.mirror[x] <= h.chain[x]
      BY <2>2, <2>3, <3>3, <3>4
    <3> QED BY <3>2, <3>3, <3>5, HoldingKeeps
  <2> QED BY <2>1, <2>4, <2>5, HostedKeeps, OnChainKeeps, InstantKeeps DEF ResolutionNext
<1> QED BY <1>1, <1>2, ResolutionSound, PTL DEF ResolutionSpec

-----------------------------------------------------------------------------
(* A step of the services is a step of each part or leaves it alone.         *)
LEMMA ServicesMoveClients ==
    ASSUME ServicesNext \/ UNCHANGED servicesVars
    PROVE  /\ PoolNext \/ UNCHANGED poolVars
           /\ SuspenseNext \/ UNCHANGED suspenseVars
           /\ HookNext \/ UNCHANGED hookVars
           /\ ReaderNext \/ UNCHANGED readerVars
           /\ PublisherNext \/ UNCHANGED publisherVars
           /\ JobNext \/ UNCHANGED jobVars
           /\ RegistryNext \/ UNCHANGED registryVars
           /\ WorkerRegistryNext \/ UNCHANGED workerRegistryVars
           /\ ResolutionNext \/ UNCHANGED resolutionVars
<1>1. CASE UNCHANGED servicesVars
  BY <1>1 DEF servicesVars
<1>2. CASE ServicesNext
  BY <1>2 DEF ServicesNext, OthersStill
<1> QED BY <1>1, <1>2

(* The hooks are served whenever each of the four parts takes its own steps, *)
(* in whatever order the browser runs them.                                  *)
THEOREM HooksAreServed ==
    PoolSpec /\ SuspenseSpec /\ HookSpec /\ ReaderSpec => []HooksServed
<1>1. PoolKeepsConnected /\ ReleasedWhenUnused /\ HookFollowsStream /\ EntryIsCurrent
      => HooksServed
  BY DEF HooksServed
<1> QED BY <1>1, PoolIsShared, ResourcesReleased, HookKeepsUp, EntriesAreCurrent, PTL

(* The registry's jobs do what they say, the indexers with one key and the   *)
(* verification jobs with one store, however they interleave.                *)
THEOREM RegistryIsKept == PublisherSpec /\ JobSpec => []RegistryKept
<1>1. PublishingSound /\ JobTellsChanges => RegistryKept
  BY DEF RegistryKept
<1> QED BY <1>1, PublishingIsSound, ChangesAreTold, PTL

(* What the registry holds is found, on the contract and through the caches  *)
(* of its clients, whatever is published and registered meanwhile.           *)
THEOREM RegistryIsFound ==
    RegistrySpec /\ WorkerRegistrySpec /\ ResolutionSpec => []RegistryFinds
<1>1. RegistryReadsSound /\ WorkersAreListed /\ SpecsResolved => RegistryFinds
  BY DEF RegistryFinds
<1> QED BY <1>1, ReadsAreFresh, WorkersAreFound, SpecsAreResolved, PTL

(* The composition the services run checks is such an interleaving.          *)
THEOREM ServicesKeepClients == ServicesSpec => [](HooksServed /\ RegistryFinds /\ RegistryKept)
<1>1. ServicesInit => /\ PoolInit /\ SuspenseInit /\ HookInit /\ ReaderInit
                      /\ PublisherInit /\ JobInit
                      /\ RegistryInit /\ WorkerRegistryInit /\ ResolutionInit
  BY DEF ServicesInit
<1>2. [ServicesNext]_servicesVars => /\ [PoolNext]_poolVars /\ [SuspenseNext]_suspenseVars
                                     /\ [HookNext]_hookVars /\ [ReaderNext]_readerVars
                                     /\ [PublisherNext]_publisherVars /\ [JobNext]_jobVars
                                     /\ [RegistryNext]_registryVars
                                     /\ [WorkerRegistryNext]_workerRegistryVars
                                     /\ [ResolutionNext]_resolutionVars
  BY ServicesMoveClients
<1>3. ServicesSpec => /\ PoolSpec /\ SuspenseSpec /\ HookSpec /\ ReaderSpec
                      /\ PublisherSpec /\ JobSpec
                      /\ RegistrySpec /\ WorkerRegistrySpec /\ ResolutionSpec
  BY <1>1, <1>2, PTL DEF ServicesSpec, PoolSpec, SuspenseSpec, HookSpec, ReaderSpec,
                         PublisherSpec, JobSpec, RegistrySpec, WorkerRegistrySpec, ResolutionSpec
<1> QED BY <1>3, HooksAreServed, RegistryIsFound, RegistryIsKept, PTL

(* So does each of the worker's services.                                    *)
LEMMA ServicesMoveWorkers ==
    ASSUME ServicesNext \/ UNCHANGED servicesVars
    PROVE  /\ SponsorNext \/ UNCHANGED sponsorVars
           /\ MeterNext \/ UNCHANGED meterVars
           /\ BackfillNext \/ UNCHANGED backfillVars
           /\ VerificationNext \/ UNCHANGED verificationVars
<1>1. CASE UNCHANGED servicesVars
  BY <1>1 DEF servicesVars
<1>2. CASE ServicesNext
  BY <1>2 DEF ServicesNext, OthersStill
<1> QED BY <1>1, <1>2

(* The composition keeps what the worker's services sum up, fold and judge,  *)
(* too: fees within the float, costs attributed once, backfills whole, and   *)
(* one obligation per burst.                                                 *)
THEOREM ServicesKeepWorkers ==
    ServicesSpec => [](SponsorshipBounded /\ CostsSound /\ BackfillResumes /\ OneObligation)
<1>1. ServicesInit => SponsorInit /\ MeterInit /\ BackfillInit /\ VerificationInit
  BY DEF ServicesInit
<1>2. [ServicesNext]_servicesVars => /\ [SponsorNext]_sponsorVars /\ [MeterNext]_meterVars
                                     /\ [BackfillNext]_backfillVars
                                     /\ [VerificationNext]_verificationVars
  BY ServicesMoveWorkers
<1>3. ServicesSpec => SponsorSpec /\ MeterSpec /\ BackfillSpec /\ VerificationSpec
  BY <1>1, <1>2, PTL DEF ServicesSpec, SponsorSpec, MeterSpec, BackfillSpec, VerificationSpec
<1> QED BY <1>3, SponsorshipIsBounded, CostsAreSound, BackfillIsWhole, ObligationsAreOne, PTL
=============================================================================
