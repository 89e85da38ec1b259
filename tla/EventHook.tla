------------------------------ MODULE EventHook ------------------------------
(***************************************************************************)
(* One mounted useStellarEvent (packages/pulse-notify/src/index.ts), with   *)
(* its document's visibility, its token and the provider that renews it.    *)
(* useContractEvent is written the same way, and useStellarAddresses is one *)
(* such hook by address without the visibility.  The pool has one entry by  *)
(* token; other components may share it.  React runs an effect some time    *)
(* after the state it depends on is set, so a callback of the connection    *)
(* may come in between.  The error text is left out.                        *)
(***************************************************************************)
EXTENDS Integers, Sequences, FiniteSets

CONSTANTS
    HookTokens,  \* the tokens the prop and the provider may hold
    MaxRenewals  \* BOUND on the calls of tokenProvider

ASSUME HookAssumption == MaxRenewals \in Nat /\ HookTokens # {}

VARIABLES
    page,      \* mounted, visible, the timer that pauses, isActive
    auth,      \* token prop, currentToken, tokenRefreshKey
    renewals,  \* calls of tokenProvider: "pending", "answered" or "failed"
    streams,   \* the pool's entry of each token; history: ever shared, and the
               \* renewal the hook asked for when its token expired
    effect,    \* the dependencies the effect last ran with, and the token it holds
    shown      \* the state the hook returns, with lastEventIdRef

hookVars == <<page, auth, renewals, streams, effect, shown>>

NoToken == "no token"
NoStream == [socket |-> "none", connected |-> FALSE, others |-> FALSE, shared |-> FALSE, asked |-> 0]

HookInit ==
    /\ page = [mounted |-> TRUE, visible |-> TRUE, timer |-> FALSE, active |-> TRUE]
    /\ \E t \in HookTokens :
          /\ auth = [prop |-> t, token |-> t, refresh |-> 0]
          /\ effect = [token |-> NoToken, refresh |-> 0, active |-> FALSE, ran |-> FALSE]
    /\ renewals = <<>>
    /\ streams = [t \in HookTokens |-> NoStream]
    /\ shown = [connected |-> FALSE, caughtUp |-> TRUE, lastId |-> FALSE]

-----------------------------------------------------------------------------
(* useVisibilityState.                                                       *)
PageHides ==
    /\ page.mounted /\ page.visible /\ page' = [page EXCEPT !.visible = FALSE, !.timer = TRUE]
    /\ UNCHANGED <<auth, renewals, streams, effect, shown>>

HideTimerFires ==
    /\ page.timer /\ page' = [page EXCEPT !.timer = FALSE, !.active = FALSE]
    /\ UNCHANGED <<auth, renewals, streams, effect, shown>>

MutPageOnShow == [page EXCEPT !.visible = TRUE, !.active = TRUE]
PageOnShow == [page EXCEPT !.visible = TRUE, !.timer = FALSE, !.active = TRUE]

PageShows ==
    /\ page.mounted /\ ~page.visible /\ page' = PageOnShow
    /\ UNCHANGED <<auth, renewals, streams, effect, shown>>

-----------------------------------------------------------------------------
(* The pool: the last subscriber of an entry closes it; the first makes it.  *)
Left(t) == IF streams[t].others THEN streams[t] ELSE NoStream
Joined(s) == IF s.socket = "none" THEN [s EXCEPT !.socket = "connecting"] ELSE s

(* The dependencies that make the effect run again.                          *)
MutStale == effect.token # auth.token \/ effect.active # page.active
Stale == \/ effect.token # auth.token \/ effect.refresh # auth.refresh
         \/ effect.active # page.active

Holds(t) == effect.active /\ effect.token = t

RunEffect ==
    LET dropped == IF effect.active
                   THEN [streams EXCEPT ![effect.token] = Left(effect.token)] ELSE streams
        mine == Joined(dropped[auth.token])
    IN  /\ page.mounted /\ (Stale \/ ~effect.ran)
        /\ effect' = [token |-> auth.token, refresh |-> auth.refresh,
                      active |-> page.active, ran |-> TRUE]
        /\ IF page.active
           THEN /\ streams' = [dropped EXCEPT ![auth.token] = mine]
                /\ shown' = IF mine.connected
                            THEN [shown EXCEPT !.connected = TRUE, !.lastId = FALSE]
                            ELSE [shown EXCEPT !.lastId = FALSE]
           ELSE /\ streams' = dropped
                /\ shown' = [shown EXCEPT !.connected = FALSE, !.lastId = FALSE]
        /\ UNCHANGED <<page, auth, renewals>>

(* The cleanup functions of the effects.                                     *)
UnmountHook ==
    /\ page.mounted /\ page' = [page EXCEPT !.mounted = FALSE, !.timer = FALSE]
    /\ effect' = [effect EXCEPT !.active = FALSE]
    /\ streams' = IF effect.active
                  THEN [streams EXCEPT ![effect.token] = Left(effect.token)] ELSE streams
    /\ UNCHANGED <<auth, renewals, shown>>

(* Another component of the page with the same key.                          *)
OtherComes(t) ==
    /\ ~streams[t].others
    /\ streams' = [streams EXCEPT ![t] = [Joined(@) EXCEPT !.others = TRUE, !.shared = TRUE]]
    /\ UNCHANGED <<page, auth, renewals, effect, shown>>

OtherLeaves(t) ==
    /\ streams[t].others
    /\ streams' = [streams EXCEPT ![t] =
                     IF Holds(t) THEN [@ EXCEPT !.others = FALSE] ELSE NoStream]
    /\ UNCHANGED <<page, auth, renewals, effect, shown>>

-----------------------------------------------------------------------------
(* The callbacks of the entry reach the hook while it holds it.              *)
TellHook(t, told) == shown' = IF Holds(t) THEN told ELSE shown

StreamOpens(t) ==
    /\ streams[t].socket = "connecting"
    /\ streams' = [streams EXCEPT ![t].socket = "open", ![t].connected = TRUE, ![t].asked = 0]
    /\ TellHook(t, [shown EXCEPT !.connected = TRUE, !.caughtUp = ~shown.lastId])
    /\ UNCHANGED <<page, auth, renewals, effect>>

StreamFails(t) ==
    /\ streams[t].socket \in {"connecting", "open"}
    /\ streams' = [streams EXCEPT ![t].socket = "connecting", ![t].connected = FALSE]
    /\ TellHook(t, [shown EXCEPT !.connected = FALSE])
    /\ UNCHANGED <<page, auth, renewals, effect>>

(* onEventId, then onEvent; the type and the filter decide whether the event *)
(* is shown.                                                                 *)
EventComes(t, hasId, accepted) ==
    /\ streams[t].socket = "open"
    /\ LET noted == [shown EXCEPT !.lastId = @ \/ hasId]
       IN  TellHook(t, IF accepted THEN [noted EXCEPT !.caughtUp = TRUE] ELSE noted)
    /\ UNCHANGED <<page, auth, renewals, streams, effect>>

(* onAuthExpired: the provider is asked, or there is none.                   *)
AuthExpires(t) ==
    /\ streams[t].socket = "open"
    /\ \/ /\ Holds(t) /\ Len(renewals) < MaxRenewals
          /\ renewals' = Append(renewals, "pending")
          /\ streams' = [streams EXCEPT ![t].connected = FALSE, ![t].asked = Len(renewals) + 1]
          /\ UNCHANGED shown
       \/ /\ TellHook(t, [shown EXCEPT !.connected = FALSE])
          /\ streams' = [streams EXCEPT ![t].connected = FALSE]
          /\ UNCHANGED renewals
    /\ UNCHANGED <<page, auth, effect>>

(* setCurrentToken and setTokenRefreshKey; an old call may answer last.      *)
RenewalAnswers(r, t) ==
    /\ renewals[r] = "pending"
    /\ renewals' = [renewals EXCEPT ![r] = "answered"]
    /\ auth' = [auth EXCEPT !.token = t, !.refresh = @ + 1]
    /\ UNCHANGED <<page, streams, effect, shown>>

RenewalFails(r) ==
    /\ renewals[r] = "pending"
    /\ renewals' = [renewals EXCEPT ![r] = "failed"]
    /\ UNCHANGED <<page, auth, streams, effect, shown>>

(* The component renders with another token.                                 *)
PropChanges(t) ==
    /\ page.mounted /\ auth.prop # t /\ auth' = [auth EXCEPT !.prop = t, !.token = t]
    /\ UNCHANGED <<page, renewals, streams, effect, shown>>

HookNext ==
    \/ PageHides \/ HideTimerFires \/ PageShows \/ RunEffect \/ UnmountHook
    \/ \E t \in HookTokens :
          \/ OtherComes(t) \/ OtherLeaves(t) \/ StreamOpens(t) \/ StreamFails(t)
          \/ AuthExpires(t) \/ PropChanges(t)
          \/ \E hasId, accepted \in BOOLEAN : EventComes(t, hasId, accepted)
          \/ \E r \in DOMAIN renewals : RenewalAnswers(r, t)
    \/ \E r \in DOMAIN renewals : RenewalFails(r)

HookSpec == HookInit /\ [][HookNext]_hookVars

-----------------------------------------------------------------------------
Settled == page.mounted /\ effect.ran /\ ~Stale

(* A visible page is never paused, and no timer is left that would pause it. *)
VisibleIsActive == page.visible /\ page.mounted => page.active /\ ~page.timer

(* No stream is open that nobody listens to, and a paused hook has none.     *)
NoStrayStream ==
    /\ \A t \in HookTokens : streams[t].socket # "none" => streams[t].others \/ Holds(t)
    /\ Settled /\ ~page.active => ~shown.connected

(* A stream that works is shown as connected, also when the hook joined it   *)
(* open or the token was renewed meanwhile.                                  *)
ConnectedIsShown ==
    Settled /\ page.active /\ streams[auth.token].connected => shown.connected

(* Once the provider has answered, the hook has left the stream it asked     *)
(* for, also when the token is the same; a stream it shares it joins again.  *)
ExpiredIsLeft ==
    Settled /\ page.active =>
        LET own == streams[auth.token]
        IN  own.asked # 0 /\ ~own.shared => renewals[own.asked] # "answered"

(* The hook follows its stream: paused only when hidden, on no stray stream, *)
(* telling the truth when connected, and off a connection whose token was    *)
(* renewed.                                                                  *)
HookFollowsStream == VisibleIsActive /\ NoStrayStream /\ ConnectedIsShown /\ ExpiredIsLeft
=============================================================================
