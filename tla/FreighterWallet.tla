-------------------------- MODULE FreighterWallet ---------------------------
(***************************************************************************)
(* The wallet connection of the web application                            *)
(* (apps/web/src/components/wallet/FreighterWalletContext.tsx): a handshake *)
(* that starts when the extension is detected, a watcher that follows the  *)
(* wallet's account, and the user's connect and disconnect.  They share    *)
(* the React state, and none of them waits for another.                    *)
(*                                                                         *)
(* External: the extension.  It answers what it is asked while it is       *)
(* there, truthfully, or throws; the page learns of an account by          *)
(* requestAccess, by getAddress once access was granted, and from running  *)
(* watchers.  React runs the effects of a state change before the          *)
(* extension answers a request made after it.  The provider wraps the      *)
(* whole application and is never unmounted.                               *)
(***************************************************************************)
EXTENDS Integers, FiniteSets

CONSTANTS Accounts,     \* the accounts in the wallet
          NoKey,        \* publicKey when there is none (null or empty)
          Calls,        \* concurrent calls of connect
          Watchers,     \* WatchWalletChanges instances; 0 is none
          MaxRetries    \* MAX_RETRIES

ASSUME KeyAssumption == NoKey \notin Accounts
ASSUME WatchersAssumption == 0 \notin Watchers
ASSUME RetriesAssumption == MaxRetries \in Nat \ {0}

VARIABLES publicKey, isInstalled, isConnecting, error,   \* the context's state
          rendered,     \* isInstalled as the effects have last seen it
          detecting,    \* detect waits for its answer
          handshake,    \* the handshake: where it is, its failures, cancelled
          call,         \* where each call of connect is
          ref,          \* walletWatcherRef.current: a watcher, or 0
          running,      \* the watchers that run
          last,         \* the account each watcher has reported last
          extension,    \* "starting", "there" or "gone"
          account,      \* the account selected in the wallet
          granted,      \* the page has access to it
          user          \* ghost: "new", "left" (disconnected), "back" (connects again)

context  == <<publicKey, isInstalled, isConnecting, error>>
watching == <<ref, running, last>>
wallet   == <<extension, account, granted>>
vars     == <<context, rendered, detecting, handshake, call, watching, wallet, user>>

Init ==
    /\ publicKey = NoKey /\ isInstalled = FALSE /\ isConnecting = TRUE /\ error = FALSE
    /\ rendered = FALSE
    /\ detecting = TRUE
    /\ handshake = [at |-> "none", retries |-> 0, cancelled |-> FALSE]
    /\ call = [c \in Calls |-> "idle"]
    /\ ref = 0 /\ running = {} /\ last = [w \in Watchers |-> NoKey]
    /\ extension \in {"starting", "there"} /\ account \in Accounts /\ granted \in BOOLEAN
    /\ user = "new"

There == extension = "there"

\* The extension can answer: it is there and the page's effects have run.
Answering == There /\ rendered = isInstalled

-----------------------------------------------------------------------------
(***************************************************************************)
(* The extension and the wallet's user                                     *)
(***************************************************************************)
ExtensionChanges ==
    /\ \/ extension = "starting" /\ extension' = "there"
       \/ There /\ extension' = "gone"
    /\ UNCHANGED <<context, rendered, detecting, handshake, call, watching, account,
                   granted, user>>

\* Not twice within one interval of the watcher.
SwitchAccount(a) ==
    /\ a # account /\ \A w \in running : last[w] = account
    /\ account' = a
    /\ UNCHANGED <<context, rendered, detecting, handshake, call, watching, extension,
                   granted, user>>

-----------------------------------------------------------------------------
(***************************************************************************)
(* Effects                                                                 *)
(***************************************************************************)
Unlock(key) == publicKey' = key /\ error' = FALSE /\ isConnecting' = FALSE

\* detect on mount.  An extension that is still starting is not found.
Detected ==
    /\ detecting /\ rendered = isInstalled
    /\ detecting' = FALSE
    /\ isInstalled' = There
    /\ isConnecting' = (isConnecting /\ There)
    /\ UNCHANGED <<publicKey, error, rendered, handshake, call, watching, wallet, user>>

Free == Watchers \ running
Fresh == CHOOSE w \in Free : TRUE

Watch ==
    /\ Free # {}
    /\ ref' = Fresh /\ running' = running \cup {Fresh} /\ last' = [last EXCEPT ![Fresh] = NoKey]

StopWatching == ref' = 0 /\ running' = running \ {ref} /\ UNCHANGED last

\* The two effects that depend on isInstalled, with their cleanups.
RunEffects ==
    /\ rendered # isInstalled
    /\ rendered' = isInstalled
    /\ IF isInstalled
       THEN /\ handshake' = [at |-> "request", retries |-> 0, cancelled |-> FALSE]
            /\ Watch
       ELSE /\ handshake' = [handshake EXCEPT !.cancelled = TRUE]
            /\ StopWatching
    /\ UNCHANGED <<context, detecting, call, wallet, user>>

\* Faulty variant: a key that is there is kept.
WatchedKeyFirst == IF publicKey = NoKey THEN account ELSE publicKey
WatchedKey == account

\* The watcher's poll finds another account than the last time.
WatcherReports(w) ==
    /\ w \in running /\ Answering /\ granted /\ last[w] # account
    /\ last' = [last EXCEPT ![w] = account]
    /\ publicKey' = WatchedKey /\ error' = FALSE
    /\ UNCHANGED <<isInstalled, isConnecting, rendered, detecting, handshake, call, ref,
                   running, wallet, user>>

WatcherFails(w) ==
    /\ w \in running /\ Answering
    /\ publicKey' = NoKey /\ error' = TRUE
    /\ UNCHANGED <<isInstalled, isConnecting, rendered, detecting, handshake, call, watching,
                   wallet, user>>

-----------------------------------------------------------------------------
(***************************************************************************)
(* The handshake                                                           *)
(***************************************************************************)
HandshakeEnds == handshake' = [handshake EXCEPT !.at = "done"]

\* requestAccess resolves with the account, or with no address when it is refused;
\* either ends the handshake.
HandshakeAnswered ==
    /\ handshake.at = "request" /\ Answering
    /\ \E key \in {account, NoKey} :
          /\ granted' = (granted \/ key # NoKey)
          /\ IF handshake.cancelled THEN UNCHANGED <<publicKey, error, isConnecting>>
                                    ELSE Unlock(key)
    /\ HandshakeEnds
    /\ UNCHANGED <<isInstalled, rendered, detecting, call, watching, extension, account, user>>

\* Faulty variant: the last failure is awaited like the others.
AfterFailureSleeps(retries) == "sleep"
AfterFailure(retries) == IF retries >= MaxRetries THEN "fallback" ELSE "sleep"

HandshakeThrows ==
    /\ handshake.at = "request" /\ Answering
    /\ handshake' = [handshake EXCEPT !.retries = @ + 1,
                                      !.at = AfterFailure(handshake.retries + 1)]
    /\ UNCHANGED <<context, rendered, detecting, call, watching, wallet, user>>

\* After the delay the loop starts over, unless it was cancelled or has used up
\* its retries.
HandshakeAwakes ==
    /\ handshake.at = "sleep"
    /\ handshake' = [handshake EXCEPT !.at =
                        IF handshake.retries < MaxRetries /\ ~handshake.cancelled
                        THEN "request" ELSE "done"]
    /\ UNCHANGED <<context, rendered, detecting, call, watching, wallet, user>>

\* getAddress: the account, no address, or an exception.
HandshakeFallsBack ==
    /\ handshake.at = "fallback" /\ Answering
    /\ IF handshake.cancelled THEN UNCHANGED <<publicKey, error, isConnecting>>
       ELSE \/ granted /\ Unlock(account)
            \/ error' = TRUE /\ isConnecting' = FALSE /\ UNCHANGED publicKey
    /\ HandshakeEnds
    /\ UNCHANGED <<isInstalled, rendered, detecting, call, watching, wallet, user>>

-----------------------------------------------------------------------------
(***************************************************************************)
(* connect and disconnect                                                  *)
(***************************************************************************)

\* The button is on the screen of a user without a key, disabled while connecting.
Connect(c) ==
    /\ call[c] = "idle" /\ ~isConnecting /\ publicKey = NoKey
    /\ isConnecting' = TRUE /\ error' = FALSE
    /\ call' = [call EXCEPT ![c] = "check"]
    /\ user' = IF user = "left" THEN "back" ELSE user
    /\ UNCHANGED <<publicKey, isInstalled, rendered, detecting, handshake, watching, wallet>>

Return(c) == call' = [call EXCEPT ![c] = "idle"] /\ isConnecting' = FALSE

ConnectChecked(c) ==
    /\ call[c] = "check" /\ rendered = isInstalled
    /\ isInstalled' = There
    /\ IF There
       THEN call' = [call EXCEPT ![c] = "request"] /\ UNCHANGED <<error, isConnecting>>
       ELSE Return(c) /\ error' = TRUE
    /\ UNCHANGED <<publicKey, rendered, detecting, handshake, watching, wallet, user>>

\* isConnected or getAddress throws.
ConnectFails(c) ==
    /\ call[c] \in {"check", "fallback"} /\ Answering
    /\ Return(c) /\ error' = TRUE
    /\ UNCHANGED <<publicKey, isInstalled, rendered, detecting, handshake, watching, wallet,
                   user>>

RequestThrows(c) ==
    /\ call[c] = "request" /\ Answering
    /\ call' = [call EXCEPT ![c] = "fallback"]
    /\ UNCHANGED <<context, rendered, detecting, handshake, watching, wallet, user>>

\* Faulty variant: every successful connect starts a watcher.
NeedsWatcherAlways == TRUE
NeedsWatcher == ref = 0

\* requestAccess, or getAddress after it threw.  Without an address nothing changes.
Connected(c) ==
    /\ call[c] \in {"request", "fallback"} /\ Answering
    /\ \E key \in {account, NoKey} :
          /\ call[c] = "fallback" /\ key # NoKey => granted
          /\ granted' = (granted \/ key # NoKey)
          /\ IF key = NoKey THEN UNCHANGED <<publicKey, error, watching>>
             ELSE /\ publicKey' = key /\ error' = FALSE
                  /\ IF NeedsWatcher THEN Watch ELSE UNCHANGED watching
    /\ Return(c)
    /\ UNCHANGED <<isInstalled, rendered, detecting, handshake, extension, account, user>>

\* The button is on the dashboard of a user with a key.
Disconnect ==
    /\ publicKey # NoKey
    /\ StopWatching
    /\ publicKey' = NoKey /\ error' = FALSE
    /\ user' = "left"
    /\ UNCHANGED <<isInstalled, isConnecting, rendered, detecting, handshake, call, wallet>>

-----------------------------------------------------------------------------
Handshake == HandshakeAnswered \/ HandshakeThrows \/ HandshakeAwakes \/ HandshakeFallsBack

Connecting(c) == ConnectChecked(c) \/ ConnectFails(c) \/ RequestThrows(c) \/ Connected(c)

\* What happens without a click on the page.
Unattended ==
    \/ ExtensionChanges
    \/ \E a \in Accounts : SwitchAccount(a)
    \/ Detected \/ RunEffects
    \/ \E w \in Watchers : WatcherReports(w) \/ WatcherFails(w)
    \/ Handshake
    \/ \E c \in Calls : Connecting(c)

Next == Unattended \/ (\E c \in Calls : Connect(c)) \/ Disconnect

\* React runs effects, timers fire and the extension answers while it is there;
\* the user need not do anything.
Fairness ==
    /\ WF_vars(Detected) /\ WF_vars(RunEffects) /\ WF_vars(Handshake)
    /\ \A c \in Calls : WF_vars(Connecting(c))
    /\ \A w \in Watchers : WF_vars(WatcherReports(w))

-----------------------------------------------------------------------------
(***************************************************************************)
(* Properties                                                              *)
(***************************************************************************)
Keys == Accounts \cup {NoKey}

\* The handshake never fails more often than its retries allow.
TypeOK ==
    /\ publicKey \in Keys /\ isInstalled \in BOOLEAN /\ isConnecting \in BOOLEAN
    /\ error \in BOOLEAN /\ rendered \in BOOLEAN /\ detecting \in BOOLEAN
    /\ handshake \in [at : {"none", "request", "sleep", "fallback", "done"},
                      retries : 0 .. MaxRetries, cancelled : BOOLEAN]
    /\ call \in [Calls -> {"idle", "check", "request", "fallback"}]
    /\ ref \in Watchers \cup {0} /\ running \subseteq Watchers /\ last \in [Watchers -> Keys]
    /\ extension \in {"starting", "there", "gone"} /\ account \in Accounts
    /\ granted \in BOOLEAN /\ user \in {"new", "left", "back"}

\* A watcher that runs is the one the reference holds, so that disconnect and the
\* cleanup can stop it: the effect, two calls of connect and a disconnect between
\* them never leave a second one running, to overwrite the key of a user who left.
RunningWatcherIsHeld == \A w \in running : w = ref

\* The connect button comes back: whatever the handshake, its retries and the
\* calls of connect do to the one flag they share, it does not stay set, unless
\* the extension disappeared with a request unanswered.
ConnectingEnds == isConnecting ~> (~isConnecting \/ extension = "gone")

\* The key shown becomes the account selected in the wallet, whichever of the
\* handshake, connect and the watcher had set it, for a user who has not disconnected.
KeyFollowsWallet ==
    publicKey # NoKey ~> (publicKey \in {account, NoKey} \/ extension = "gone" \/ user # "new")

\* FreighterWalletContext.tsx:31: publicKey is "The connected user's Stellar public
\* key (G…), or null if not connected".  A handshake or a connect still waiting
\* when the user disconnects sets it again.
NullWhenDisconnected == user = "left" => publicKey = NoKey

=============================================================================
