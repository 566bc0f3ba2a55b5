------------------------------ MODULE SellerGuard ------------------------------
(***************************************************************************)
(* The ThaiMart Seller Guard browser extension                             *)
(* (apps/thaimart-seller-guard): its service worker inspects the active    *)
(* Seller Center tab and posts a workflow request to the dev control API.  *)
(* Between any two awaits the user may navigate, change tabs or press      *)
(* Start in another popup, content scripts report snapshots of their own,  *)
(* and time passes.                                                        *)
(***************************************************************************)
EXTENDS Naturals

CONSTANTS
  Tabs,      \* browser tabs
  Pages,     \* addresses on Seller Center, queries included
  pathname,  \* the pathname of each: many addresses share one
  Elsewhere, \* any other address
  Requests,  \* presses of Start local dry-run
  MaxAge,    \* 120 seconds, in ticks
  MaxNow,    \* bound on the clock
  None

GuardAssumption ==
  /\ Tabs # {} /\ Elsewhere \notin Pages /\ DOMAIN pathname = Pages
  /\ MaxAge \in Nat /\ MaxNow \in Nat

VARIABLES
  url,      \* the address each tab shows
  active,   \* the active tab
  now,      \* Date.now()
  gate,     \* whether the control API has a CONTROL_API_TOKEN
  stored,   \* thaimartLastPageSnapshot of the extension's session storage
  req,      \* where each request is
  sent      \* ghost: what is posted, and what was on screen at the check
vars == <<url, active, now, gate, stored, req, sent>>

Routes == {pathname[p] : p \in Pages}

(* A snapshot names its route only; tab and page are ghosts that say where *)
(* it was taken.                                                           *)
Snapshot == [tab : Tabs, page : Pages, route : Routes, at : 0..MaxNow]
Idle == [pc |-> "idle", tab |-> None, page |-> None, snap |-> None, outcome |-> None]

Init ==
  /\ url \in [Tabs -> Pages \union {Elsewhere}]
  /\ active \in Tabs /\ now = 0 /\ gate \in BOOLEAN
  /\ stored = None
  /\ req = [r \in Requests |-> Idle]
  /\ sent = {}

-----------------------------------------------------------------------------
(* buildSnapshot of the content script in tab t while it shows page p: of  *)
(* the address it keeps location.pathname.                                 *)
buildSnapshot(t, p) == [tab |-> t, page |-> p, route |-> pathname[p], at |-> now]

(* Content scripts run on Seller Center only, and normalizeSnapshot takes  *)
(* no other host.                                                          *)
Reports(p) == p \in Pages

(* The content script of a page that loads reports a snapshot, which the   *)
(* service worker stores; a page that changes its own address need not     *)
(* load.                                                                   *)
Navigate(t, p) ==
  /\ url' = [url EXCEPT ![t] = p]
  /\ stored' \in {stored} \union
       (IF Reports(p) THEN {buildSnapshot(t, p)} ELSE {})
  /\ UNCHANGED <<active, now, gate, req, sent>>

SwitchTab(t) ==
  /\ active' = t
  /\ UNCHANGED <<url, now, gate, stored, req, sent>>

Tick ==
  /\ now < MaxNow
  /\ now' = now + 1
  /\ UNCHANGED <<url, active, gate, stored, req, sent>>

Stop(r, why) == req' = [req EXCEPT ![r].pc = "done", ![r].outcome = why]

(* activeSellerTab of the first chrome.tabs.query.                         *)
FirstQuery(r) ==
  /\ req[r].pc = "idle"
  /\ IF url[active] \in Pages
     THEN req' = [req EXCEPT ![r].pc = "capture", ![r].tab = active,
                             ![r].page = url[active]]
     ELSE Stop(r, "seller_page_unavailable")
  /\ UNCHANGED <<url, active, now, gate, stored, sent>>

(* The content script answers with a snapshot, and reports it as well;     *)
(* there is none in a tab that left Seller Center.                         *)
Capture(r) ==
  /\ req[r].pc = "capture"
  /\ IF url[req[r].tab] \in Pages
     THEN LET snap == buildSnapshot(req[r].tab, url[req[r].tab]) IN
          /\ req' = [req EXCEPT ![r].pc = "recheck", ![r].snap = snap]
          /\ stored' = snap
     ELSE Stop(r, "seller_page_unavailable") /\ UNCHANGED stored
  /\ UNCHANGED <<url, active, now, gate, sent>>

(* The two queries found one tab and one address.                          *)
SamePage(r) == active = req[r].tab /\ url[active] = req[r].page

(* Mutant: whatever route the snapshot shows is taken.                     *)
AnyRoute(r) == req[r].snap # None

(* Routes are compared, not addresses.                                     *)
RouteMatches(r) == req[r].snap.route = pathname[req[r].page]

Fresh(r) == now - req[r].snap.at <= MaxAge

(* The second query and projectSellerPageContext.                          *)
Recheck(r) ==
  /\ req[r].pc = "recheck"
  /\ IF url[active] \notin Pages THEN Stop(r, "seller_page_unavailable")
     ELSE IF ~SamePage(r) THEN Stop(r, "seller_page_changed")
     ELSE IF ~RouteMatches(r) THEN Stop(r, "seller_page_context_invalid")
     ELSE IF ~Fresh(r) THEN Stop(r, "seller_page_context_stale")
     ELSE req' = [req EXCEPT ![r].pc = "store"]
  /\ sent' = IF req'[r].pc = "store"
             THEN sent \union {[snap |-> req[r].snap, active |-> active,
                                shown |-> url[active], checked |-> now]}
             ELSE sent
  /\ UNCHANGED <<url, active, now, gate, stored>>

StoreAndPost(r) ==
  /\ req[r].pc = "store"
  /\ stored' = req[r].snap
  /\ req' = [req EXCEPT ![r].pc = "posted"]
  /\ UNCHANGED <<url, active, now, gate, sent>>

(* handleRequest asks every /api/ route for a bearer token; the extension  *)
(* sends none.  503 without a configured token, 401 with one.              *)
ControlApi(r) ==
  /\ req[r].pc = "posted"
  /\ Stop(r, IF gate THEN "bearer_token_missing" ELSE "control_api_token_not_configured")
  /\ UNCHANGED <<url, active, now, gate, stored, sent>>

(* The control API is not running.                                         *)
Unreachable(r) ==
  /\ req[r].pc = "posted"
  /\ Stop(r, "control_api_unavailable")
  /\ UNCHANGED <<url, active, now, gate, stored, sent>>

Step(r) == FirstQuery(r) \/ Capture(r) \/ Recheck(r) \/ StoreAndPost(r)
           \/ ControlApi(r) \/ Unreachable(r)

Next == \/ \E t \in Tabs : SwitchTab(t) \/ \E p \in Pages \union {Elsewhere} : Navigate(t, p)
        \/ Tick
        \/ \E r \in Requests : Step(r)

(* Promises of the browser settle.                                         *)
Fairness == \A r \in Requests : WF_vars(Step(r))

Spec == Init /\ [][Next]_vars /\ Fairness

-----------------------------------------------------------------------------
(* The type of the state.                                                  *)
TypeOK ==
  /\ url \in [Tabs -> Pages \union {Elsewhere}] /\ active \in Tabs
  /\ stored \in Snapshot \union {None}
  /\ \A r \in Requests :
       /\ req[r].pc \in {"idle", "capture", "recheck", "store", "posted", "done"}
       /\ req[r].page \in Pages \union {None}
       /\ req[r].snap \in Snapshot \union {None}

(* captureCurrentPageContext: a context that is posted was taken in the    *)
(* active tab, of the route on screen when it was checked, and was at most *)
(* MaxAge old then: changes of tab and route in between, away and back     *)
(* included, never let the snapshot of one route pass for another's.       *)
PostedRouteOnScreen ==
  \A s \in sent :
    /\ s.snap.tab = s.active /\ s.snap.route = pathname[s.shown]
    /\ s.checked - s.snap.at <= MaxAge

(* What apps/thaimart-seller-guard/README.md:11 says, "captures the        *)
(* current Seller Center tab again and confirms that the active tab and    *)
(* URL have not changed": a context that is posted was taken of the        *)
(* address on screen.                                                      *)
PostedPageOnScreen == \A s \in sent : s.snap.page = s.shown

(* services/dev-control-api/src/thaimart-seller-handoff.test.mjs:101: a    *)
(* request with fresh context that reaches the control API is accepted.    *)
HandoffAccepted ==
  \A r \in Requests : req[r].outcome \notin {"bearer_token_missing"}
=============================================================================
