---------------------------- MODULE WebAppProofs -----------------------------
(***************************************************************************)
(* Proofs about the wallet connection and the screens over it, for any     *)
(* accounts, retries and number of overlapping calls of connect: types,    *)
(* and that the watcher that runs is the one the reference holds.          *)
(***************************************************************************)
EXTENDS WebApp, TLAPS

\* A request is made while a retry is left.
RetryInv == TypeOK /\ (handshake.at = "request" => handshake.retries < MaxRetries)

\* A running watcher is held.  Before the effects have seen the extension there is
\* none: a call of connect that could start one waits for an answer which the
\* extension gives only when the effects have run.
WatchInv ==
    /\ RunningWatcherIsHeld
    /\ ~rendered => ref = 0
    /\ \A c \in Calls : call[c] \in {"request", "fallback"} => isInstalled \/ extension = "gone"
    /\ extension = "starting" => ~isInstalled

WInv == RetryInv /\ WatchInv

-----------------------------------------------------------------------------
LEMMA WalletInit == Init => WInv
<1> SUFFICES ASSUME Init PROVE WInv
  OBVIOUS
<1>1. call \in [Calls -> {"idle", "check", "request", "fallback"}]
  BY DEF Init
<1>2. last \in [Watchers -> Keys]
  BY DEF Init, Keys
<1>3. RetryInv
  <2>1. /\ handshake \in [at : {"none", "request", "sleep", "fallback", "done"},
                           retries : 0 .. MaxRetries, cancelled : BOOLEAN]
        /\ handshake.at = "none"
    BY RetriesAssumption DEF Init
  <2>2. /\ publicKey \in Keys /\ isInstalled \in BOOLEAN /\ isConnecting \in BOOLEAN
        /\ error \in BOOLEAN /\ rendered \in BOOLEAN /\ detecting \in BOOLEAN
    BY DEF Init, Keys
  <2>3. /\ ref \in Watchers \cup {0} /\ running \subseteq Watchers
        /\ extension \in {"starting", "there", "gone"} /\ account \in Accounts
        /\ granted \in BOOLEAN /\ user \in {"new", "left", "back"}
    BY DEF Init
  <2> QED
    BY <1>1, <1>2, <2>1, <2>2, <2>3 DEF RetryInv, TypeOK
<1>4. WatchInv
  BY DEF Init, WatchInv, RunningWatcherIsHeld
<1> QED
  BY <1>3, <1>4 DEF WInv

LEMMA FreshIsFree ==
    ASSUME TypeOK, Free # {}
    PROVE  Fresh \in Watchers /\ Fresh \notin running /\ Fresh # 0
BY WatchersAssumption DEF Free, Fresh

\* A watcher is started where none runs, and only the one that is held is stopped.
LEMMA WatchHolds ==
    ASSUME TypeOK, RunningWatcherIsHeld, ref = 0, Watch
    PROVE  /\ ref' \in Watchers /\ running' \subseteq Watchers /\ last' \in [Watchers -> Keys]
           /\ RunningWatcherIsHeld'
<1>1. running = {}
  BY WatchersAssumption DEF TypeOK, RunningWatcherIsHeld
<1> QED
  BY <1>1, FreshIsFree DEF Watch, TypeOK, RunningWatcherIsHeld, Keys

LEMMA StopHolds ==
    ASSUME TypeOK, RunningWatcherIsHeld, StopWatching
    PROVE  /\ ref' = 0 /\ running' = {} /\ last' = last
           /\ RunningWatcherIsHeld'
BY DEF StopWatching, TypeOK, RunningWatcherIsHeld

-----------------------------------------------------------------------------
\* Every step of the wallet keeps the invariant, one step per action.
LEMMA WalletStep == WInv /\ (Next \/ UNCHANGED vars) => WInv'
<1> SUFFICES ASSUME WInv, Next \/ UNCHANGED vars PROVE WInv'
  OBVIOUS
<1> USE KeyAssumption, RetriesAssumption DEF WInv, RetryInv, WatchInv
<1>1. CASE ExtensionChanges
  BY <1>1 DEF ExtensionChanges, There, context, watching, TypeOK, RunningWatcherIsHeld, Keys
<1>2. ASSUME NEW a \in Accounts, SwitchAccount(a)
      PROVE  WInv'
  BY <1>2 DEF SwitchAccount, context, watching, TypeOK, RunningWatcherIsHeld, Keys
<1>3. CASE Detected
  BY <1>3 DEF Detected, There, watching, wallet, TypeOK, RunningWatcherIsHeld, Keys
<1>4. CASE RunEffects
  <2>1. CASE isInstalled
    <3>1. /\ ~rendered /\ Watch /\ rendered' = isInstalled
          /\ handshake' = [at |-> "request", retries |-> 0, cancelled |-> FALSE]
          /\ UNCHANGED <<context, detecting, call, wallet, user>>
      BY <1>4, <2>1 DEF RunEffects, TypeOK
    <3> QED
      BY <3>1, <2>1, WatchHolds DEF context, wallet, TypeOK, Keys
  <2>2. CASE ~isInstalled
    <3>1. /\ StopWatching /\ rendered' = isInstalled
          /\ handshake' = [handshake EXCEPT !.cancelled = TRUE]
          /\ UNCHANGED <<context, detecting, call, wallet, user>>
      BY <1>4, <2>2 DEF RunEffects
    <3> QED
      BY <3>1, <2>2, StopHolds DEF context, wallet, TypeOK, Keys
  <2> QED
    BY <2>1, <2>2
<1>5. ASSUME NEW w \in Watchers, WatcherReports(w) \/ WatcherFails(w)
      PROVE  WInv'
  <2>1. /\ publicKey' \in Keys /\ error' \in BOOLEAN /\ last' \in [Watchers -> Keys]
        /\ UNCHANGED <<isInstalled, isConnecting, rendered, detecting, handshake, call, ref,
                       running, extension, account, granted, user>>
    BY <1>5 DEF WatcherReports, WatcherFails, WatchedKey, watching, wallet, TypeOK, Keys
  <2> QED
    BY <2>1 DEF TypeOK, RunningWatcherIsHeld
<1>6. CASE HandshakeAnswered
  BY <1>6 DEF HandshakeAnswered, HandshakeEnds, Unlock, watching, TypeOK,
              RunningWatcherIsHeld, Keys
<1>7. CASE HandshakeThrows
  <2>1. /\ handshake.at = "request" /\ handshake.retries < MaxRetries
        /\ handshake' = [handshake EXCEPT !.retries = @ + 1,
                                          !.at = AfterFailure(handshake.retries + 1)]
        /\ UNCHANGED <<context, rendered, detecting, call, watching, wallet, user>>
    BY <1>7 DEF HandshakeThrows
  <2>2. /\ handshake'.at \in {"sleep", "fallback"}
        /\ handshake' \in [at : {"none", "request", "sleep", "fallback", "done"},
                            retries : 0 .. MaxRetries, cancelled : BOOLEAN]
    <3>1. handshake.retries + 1 \in 0 .. MaxRetries
      BY <2>1 DEF TypeOK
    <3>2. AfterFailure(handshake.retries + 1) \in {"sleep", "fallback"}
      BY DEF AfterFailure
    <3> QED
      BY <2>1, <3>1, <3>2 DEF TypeOK
  <2> QED
    BY <2>1, <2>2 DEF context, watching, wallet, TypeOK, RunningWatcherIsHeld, Keys
<1>8. CASE HandshakeAwakes
  BY <1>8 DEF HandshakeAwakes, context, watching, wallet, TypeOK, RunningWatcherIsHeld, Keys
<1>9. CASE HandshakeFallsBack
  <2>1. /\ publicKey' \in Keys /\ error' \in BOOLEAN /\ isConnecting' \in BOOLEAN
        /\ handshake' = [handshake EXCEPT !.at = "done"]
        /\ UNCHANGED <<isInstalled, rendered, detecting, call, watching, wallet, user>>
    BY <1>9 DEF HandshakeFallsBack, HandshakeEnds, Unlock, TypeOK, Keys
  <2> QED
    BY <2>1 DEF watching, wallet, TypeOK, RunningWatcherIsHeld
<1>10. ASSUME NEW c \in Calls, Connect(c)
       PROVE  WInv'
  BY <1>10 DEF Connect, watching, wallet, TypeOK, RunningWatcherIsHeld, Keys
<1>11. ASSUME NEW c \in Calls, ConnectChecked(c)
       PROVE  WInv'
  <2>1. /\ isInstalled' = There /\ rendered = isInstalled
        /\ isConnecting' \in BOOLEAN /\ error' \in BOOLEAN
        /\ UNCHANGED <<publicKey, rendered, detecting, handshake, watching, wallet, user>>
    BY <1>11 DEF ConnectChecked, Return, TypeOK
  <2>2. \/ There /\ call' = [call EXCEPT ![c] = "request"]
        \/ ~There /\ call' = [call EXCEPT ![c] = "idle"]
    BY <1>11 DEF ConnectChecked, Return
  <2>3. call' \in [Calls -> {"idle", "check", "request", "fallback"}]
    BY <2>2 DEF TypeOK
  <2>4. \A d \in Calls : call'[d] \in {"request", "fallback"} => There \/ extension = "gone"
    BY <2>2 DEF There, TypeOK
  <2> QED
    BY <2>1, <2>3, <2>4 DEF There, watching, wallet, TypeOK, RunningWatcherIsHeld
<1>12. ASSUME NEW c \in Calls, ConnectFails(c) \/ RequestThrows(c)
       PROVE  WInv'
  <2>1. /\ There /\ isConnecting' \in BOOLEAN /\ error' \in BOOLEAN
        /\ UNCHANGED <<publicKey, isInstalled, rendered, detecting, handshake, watching,
                       wallet, user>>
    BY <1>12 DEF ConnectFails, RequestThrows, Return, Answering, context, TypeOK
  <2>2. \/ call' = [call EXCEPT ![c] = "idle"]
        \/ call[c] = "request" /\ call' = [call EXCEPT ![c] = "fallback"]
    BY <1>12 DEF ConnectFails, RequestThrows, Return
  <2>3. /\ call' \in [Calls -> {"idle", "check", "request", "fallback"}]
        /\ \A d \in Calls : call'[d] \in {"request", "fallback"} =>
               isInstalled \/ extension = "gone"
    BY <2>2 DEF TypeOK
  <2> QED
    BY <2>1, <2>3 DEF watching, wallet, TypeOK, RunningWatcherIsHeld
<1>13. ASSUME NEW c \in Calls, Connected(c)
       PROVE  WInv'
  <2>1. rendered
    BY <1>13 DEF Connected, Answering, There, TypeOK
  <2>2. /\ publicKey' \in Keys /\ error' \in BOOLEAN /\ granted' \in BOOLEAN
        /\ (ref = 0 /\ Watch) \/ UNCHANGED watching
    BY <1>13 DEF Connected, NeedsWatcher, TypeOK, Keys
  <2>3. /\ call' = [call EXCEPT ![c] = "idle"] /\ isConnecting' = FALSE
        /\ UNCHANGED <<isInstalled, rendered, detecting, handshake, extension, account, user>>
    BY <1>13 DEF Connected, Return
  <2>4. CASE ref = 0 /\ Watch
    BY <2>1, <2>2, <2>3, <2>4, WatchHolds DEF TypeOK
  <2>5. CASE UNCHANGED watching
    BY <2>1, <2>2, <2>3, <2>5 DEF TypeOK, watching, RunningWatcherIsHeld
  <2> QED
    BY <2>2, <2>4, <2>5
<1>14. CASE Disconnect
  BY <1>14, StopHolds DEF Disconnect, wallet, TypeOK, Keys
<1>15. CASE UNCHANGED vars
  BY <1>15 DEF vars, context, watching, wallet, TypeOK, RunningWatcherIsHeld, Keys
<1> QED
  BY <1>1, <1>2, <1>3, <1>4, <1>5, <1>6, <1>7, <1>8, <1>9, <1>10, <1>11, <1>12, <1>13,
     <1>14, <1>15, Zenon DEF Next, Unattended, Handshake, Connecting

\* A step of the page is one of the wallet, or leaves it alone.
LEMMA PageStep == [WebNext]_webVars => Next \/ UNCHANGED vars
BY DEF WebNext, webVars, Navigate, Clicks, OpenConnect, ConnectFreighter, Type, SubmitManual,
       DisconnectWallet, BackFromConnect, BackFromDashboard, Next

LEMMA WalletHolds == WebSpec => []WInv
<1>1. WebInit => WInv
  BY WalletInit DEF WebInit
<1> QED
  BY <1>1, WalletStep, PageStep, PTL DEF WebSpec

\* No watcher runs that disconnect and the cleanup of the effect could not stop,
\* however handshakes, calls of connect and clicks overlap.
THEOREM WatcherIsHeld == WebSpec => []RunningWatcherIsHeld
<1>1. WInv => RunningWatcherIsHeld
  BY DEF WInv, WatchInv
<1> QED
  BY <1>1, WalletHolds, PTL

-----------------------------------------------------------------------------
LEMMA PageTypeInit == WebInit => WebTypeOK
BY WalletInit DEF WebInit, WebTypeOK, WInv, RetryInv, Texts

LEMMA PageTypeStep == WebTypeOK /\ WInv' /\ [WebNext]_webVars => WebTypeOK'
BY DEF WebTypeOK, WInv, RetryInv, WebNext, webVars, page, Navigate, Clicks, OpenConnect,
       ConnectFreighter, Type, SubmitManual, DisconnectWallet, BackFromConnect,
       BackFromDashboard

\* The state of the wallet and of the page stays within its types: among it, that
\* the handshake never fails more often than it may be retried.
THEOREM WebTypeCorrect == WebSpec => []WebTypeOK
BY PageTypeInit, PageTypeStep, WalletHolds, PTL DEF WebSpec

=============================================================================
