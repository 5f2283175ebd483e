------------------------------- MODULE WebApp --------------------------------
(***************************************************************************)
(* The screens of the web application (apps/web/src/app/App.tsx) over the  *)
(* wallet connection of module FreighterWallet: the page shows one of      *)
(* three screens, an effect moves the user between them when the wallet    *)
(* connects or disconnects, and the user moves by its buttons, among them  *)
(* those that call connect and disconnect.                                 *)
(*                                                                         *)
(* React runs the effect of a render before the page handles the next      *)
(* click; what the extension answers does not wait for it.  Deposit and    *)
(* withdraw are stubs that show a message and change nothing.              *)
(***************************************************************************)
EXTENDS FreighterWallet

CONSTANTS StellarKeys,   \* what can be typed and begins with G
          OtherText,     \* what can be typed and does not
          Spaces         \* only blanks

ASSUME TextAssumption ==
    /\ Spaces \notin StellarKeys \cup OtherText \cup {NoKey}
    /\ NoKey \notin StellarKeys \cup OtherText

VARIABLES view, manualKey

page    == <<view, manualKey>>
webVars == <<vars, page>>

Texts == StellarKeys \cup OtherText \cup {Spaces, NoKey}

\* manualKey.trim().
Trimmed == IF manualKey = Spaces THEN NoKey ELSE manualKey

\* The key the dashboard shows and the handlers of its buttons use.
DisplayKey == IF publicKey # NoKey THEN publicKey ELSE Trimmed

WebInit == Init /\ view = "landing" /\ manualKey = NoKey

-----------------------------------------------------------------------------
(***************************************************************************)
(* The effect                                                              *)
(***************************************************************************)

\* Faulty variant: what was typed is compared without trimming it.
LeavesDashboardUntrimmed == publicKey = NoKey /\ view = "dashboard" /\ manualKey = NoKey
LeavesDashboard == publicKey = NoKey /\ view = "dashboard" /\ Trimmed = NoKey

EntersDashboard == publicKey # NoKey /\ view = "connect"

Navigate ==
    /\ \/ EntersDashboard /\ view' = "dashboard"
       \/ LeavesDashboard /\ view' = "connect"
    /\ UNCHANGED <<vars, manualKey>>

Routed == ~EntersDashboard /\ ~LeavesDashboard

-----------------------------------------------------------------------------
(***************************************************************************)
(* The buttons                                                             *)
(***************************************************************************)
Clickable(screen) == view = screen /\ Routed

\* "Start Saving & Earning".
OpenConnect ==
    /\ Clickable("landing")
    /\ view' = "connect"
    /\ UNCHANGED <<vars, manualKey>>

\* "Connect Freighter", which is disabled while a connection is under way.
ConnectFreighter ==
    /\ Clickable("connect")
    /\ \E c \in Calls : Connect(c)
    /\ UNCHANGED page

Type ==
    /\ Clickable("connect")
    /\ manualKey' \in Texts \ {manualKey}
    /\ UNCHANGED <<vars, view>>

\* "Submit & Open Dashboard".
SubmitManual ==
    /\ Clickable("connect")
    /\ Trimmed \in StellarKeys
    /\ view' = "dashboard"
    /\ UNCHANGED <<vars, manualKey>>

\* "Disconnect Wallet", which is there for a connected wallet only.
DisconnectWallet ==
    /\ Clickable("dashboard")
    /\ Disconnect
    /\ UNCHANGED page

\* "Back to Home" of the connect screen and of the dashboard.
BackFromConnect ==
    /\ Clickable("connect")
    /\ view' = "landing"
    /\ UNCHANGED <<vars, manualKey>>

BackFromDashboard ==
    /\ Clickable("dashboard")
    /\ view' = "landing"
    /\ UNCHANGED <<vars, manualKey>>

Clicks ==
    \/ OpenConnect \/ ConnectFreighter \/ Type \/ SubmitManual
    \/ DisconnectWallet \/ BackFromConnect \/ BackFromDashboard

WebNext == (Unattended /\ UNCHANGED page) \/ Navigate \/ Clicks

WebSpec == WebInit /\ [][WebNext]_webVars /\ Fairness /\ WF_webVars(Navigate)

-----------------------------------------------------------------------------
(***************************************************************************)
(* Properties                                                              *)
(***************************************************************************)
WebTypeOK == TypeOK /\ view \in {"landing", "connect", "dashboard"} /\ manualKey \in Texts

\* The screen follows the wallet, whichever of handshake, connect, watcher and the
\* user's clicks moved first: a dashboard without any key is left, and so is the
\* connect screen with a connected wallet, on which nothing could be disconnected.
ScreenFollowsKey ==
    /\ (view = "dashboard" /\ DisplayKey = NoKey)
           ~> (view # "dashboard" \/ DisplayKey # NoKey)
    /\ (view = "connect" /\ publicKey # NoKey)
           ~> (view # "connect" \/ publicKey = NoKey)

=============================================================================
