---------------------------- MODULE PushSubscription ----------------------------
(***************************************************************************)
(* Web push in one browser: the hook usePushNotifications.ts behind the    *)
(* switch of SettingsNotifications.tsx, the subscription the browser       *)
(* keeps, the server's table of subscriptions, and the service worker that *)
(* shows what arrives (sw.ts).                                             *)
(*                                                                         *)
(* A subscription is a number, a new one each time.  The server may have   *)
(* served a request that is given up, may serve it later or never.         *)
(***************************************************************************)
EXTENDS Naturals

CONSTANTS MaxSubscriptions  \* bound: how many there have been

ASSUME SubscriptionsAssumption == MaxSubscriptions \in Nat

VARIABLES
    permission,     \* Notification.permission
    subscription,   \* the browser's subscription, or 0
    made,           \* how many subscriptions there have been
    dropped,        \* those the browser has ended by itself
    rows,           \* push_subscriptions of this browser
    status,         \* status
    pushBusy,       \* busy
    pushStep,       \* what enable or disable waits for
    held,           \* the subscription it is about
    checking,       \* the effect of the first render has not ended
    late,           \* requests given up that are still to be served: <<step, about>>
    overdue,        \* subscriptions registered by such a request
    notified        \* the notification on the device: the subscription it came by

browser == <<permission, subscription, made, dropped>>
hook == <<status, pushBusy, pushStep, held, checking>>
givenUp == <<late, overdue>>
pushVars == <<browser, rows, hook, givenUp, notified>>
-----------------------------------------------------------------------------
PushInit ==
    /\ permission = "default" /\ subscription = 0 /\ made = 0 /\ dropped = {}
    /\ rows = {}
    /\ status = "idle" /\ pushBusy = FALSE /\ pushStep = "none" /\ held = 0
    /\ checking = TRUE
    /\ late = {} /\ overdue = {}
    /\ notified = 0

(* getSubscription of the effect; without a service worker it fails.       *)
Checked ==
    /\ checking
    /\ checking' = FALSE
    /\ status' \in {status, IF subscription # 0 THEN "active" ELSE status}
    /\ UNCHANGED <<browser, rows, pushBusy, pushStep, held, givenUp, notified>>

(* The request under way, if there is one, is given up; what the server    *)
(* has received of it, it may serve later.                                 *)
GiveUp ==
    /\ late' \in {late, late \cup IF pushStep \in {"post", "remove"} THEN {<<pushStep, held>>} ELSE {}}
    /\ UNCHANGED overdue

(* The page is loaded again, at any time.                                  *)
ReloadPage ==
    /\ GiveUp
    /\ status' = "idle" /\ pushBusy' = FALSE /\ pushStep' = "none" /\ held' = 0
    /\ checking' = TRUE
    /\ UNCHANGED <<browser, rows, notified>>

(* finally: setBusy(false).                                                *)
Finish(result) ==
    /\ status' = result
    /\ pushBusy' = FALSE /\ pushStep' = "none" /\ held' = 0
    /\ UNCHANGED checking

Wait(next, about) ==
    /\ pushStep' = next /\ held' = about
    /\ UNCHANGED <<status, pushBusy, checking>>

(* Any call of either function may raise, a request after ten seconds.     *)
CallRaises ==
    /\ pushStep # "none"
    /\ GiveUp
    /\ Finish("error")
    /\ UNCHANGED <<browser, rows, notified>>
-----------------------------------------------------------------------------
(* The switch is disabled while busy; off, it enables.                     *)
Enable ==
    /\ ~pushBusy /\ status # "active"
    /\ pushBusy' = TRUE /\ pushStep' = "permission"
    /\ UNCHANGED <<browser, rows, status, held, checking, givenUp, notified>>

PermissionAnswered ==
    /\ pushStep = "permission"
    /\ permission' \in IF permission = "default" THEN {"granted", "denied"} ELSE {permission}
    /\ IF permission' = "granted" THEN Wait("key", 0) ELSE Finish(status)
    /\ UNCHANGED <<subscription, made, dropped, rows, givenUp, notified>>

(* getVapidPublicKey: null if the server has none.                         *)
KeyAnswered ==
    /\ pushStep = "key"
    /\ Wait("subscribe", 0) \/ Finish(status)
    /\ UNCHANGED <<browser, rows, givenUp, notified>>

(* pushManager.subscribe: the one there is, or a new one.                  *)
Subscribed ==
    /\ pushStep = "subscribe"
    /\ subscription # 0 \/ made < MaxSubscriptions
    /\ made' = IF subscription = 0 THEN made + 1 ELSE made
    /\ subscription' = IF subscription = 0 THEN made + 1 ELSE subscription
    /\ Wait("post", subscription')
    /\ UNCHANGED <<permission, dropped, rows, givenUp, notified>>

SubscribeServed ==
    /\ pushStep = "post"
    /\ rows' = rows \cup {held}
    /\ Finish("active") \/ Finish("error")      \* the answer arrives, or not
    /\ UNCHANGED <<browser, givenUp, notified>>

Disable ==
    /\ ~pushBusy /\ status = "active"
    /\ pushBusy' = TRUE /\ pushStep' = "find"
    /\ UNCHANGED <<browser, rows, status, held, checking, givenUp, notified>>

(* A mutant: the browser first.                                            *)
FoundBrowserFirst ==
    /\ pushStep = "find"
    /\ subscription' = 0
    /\ IF subscription = 0 THEN Finish("idle") ELSE Wait("remove", subscription)
    /\ UNCHANGED <<permission, made, dropped, rows, givenUp, notified>>

Found ==
    /\ pushStep = "find"
    /\ IF subscription = 0 THEN Finish("idle") ELSE Wait("remove", subscription)
    /\ UNCHANGED <<browser, rows, givenUp, notified>>

UnsubscribeServed ==
    /\ pushStep = "remove"
    /\ rows' = rows \ {held} /\ overdue' = overdue \ {held}
    /\ Wait("unsubscribe", held) \/ Finish("error")
    /\ UNCHANGED <<browser, late, notified>>

LateServed(request) ==
    /\ request \in late
    /\ late' = late \ {request}
    /\ LET about == request[2] IN
       IF request[1] = "post"
       THEN rows' = rows \cup {about} /\ overdue' = overdue \cup {about}
       ELSE rows' = rows \ {about} /\ overdue' = overdue \ {about}
    /\ UNCHANGED <<browser, hook, notified>>

(* subscription.unsubscribe, whose result, false or true, is not read.     *)
Unsubscribed ==
    /\ pushStep = "unsubscribe"
    /\ subscription' \in {subscription, IF subscription = held THEN 0 ELSE subscription}
    /\ Finish("idle")
    /\ UNCHANGED <<permission, made, dropped, rows, givenUp, notified>>
-----------------------------------------------------------------------------
(* It expires, or the user takes the permission back.  The worker has no   *)
(* handler that would tell the server.                                     *)
BrowserDrops ==
    /\ subscription # 0
    /\ subscription' = 0
    /\ dropped' = dropped \cup {subscription}
    /\ permission' \in {permission, "denied"}
    /\ UNCHANGED <<made, rows, hook, givenUp, notified>>

(* WebPushNotifier.send: a subscription that has ended is pruned.          *)
SendTo(row) ==
    /\ row \in rows
    /\ IF row = subscription
       THEN notified' = row /\ UNCHANGED rows
       ELSE rows' \in {rows, rows \ {row}} /\ UNCHANGED notified
    /\ UNCHANGED <<browser, hook, givenUp>>

(* notificationclick: the window is focused, or opened, which loads it.    *)
NotificationClick ==
    /\ notified # 0
    /\ notified' = 0
    /\ \/ UNCHANGED <<hook, givenUp>>
       \/ /\ GiveUp
          /\ status' = "idle" /\ pushBusy' = FALSE /\ pushStep' = "none" /\ held' = 0
          /\ checking' = TRUE
    /\ UNCHANGED <<browser, rows>>

PushNext ==
    \/ Checked \/ ReloadPage \/ CallRaises
    \/ Enable \/ PermissionAnswered \/ KeyAnswered \/ Subscribed \/ SubscribeServed
    \/ Disable \/ Found \/ UnsubscribeServed \/ Unsubscribed
    \/ BrowserDrops
    \/ \E row \in rows : SendTo(row)
    \/ \E request \in late : LateServed(request)
    \/ NotificationClick

PushSpec == PushInit /\ [][PushNext]_pushVars
-----------------------------------------------------------------------------
(* Whatever call fails and whenever the page is closed, the server never   *)
(* keeps a subscription that this page has ended: each row is the          *)
(* browser's own, one the browser has dropped by itself, or one whose      *)
(* registration was served after the page had given it up                  *)
(* (usePushNotifications.ts:40-63, api.ts:216-228).                        *)
RowsAreLive == rows \subseteq {subscription} \cup dropped \cup overdue
=============================================================================
