------------------------------- MODULE Fhevm -------------------------------
(***************************************************************************)
(* The browser's FHE session: the hook useFhevm and what it calls           *)
(* (fhevm-react: createFhevmInstance, the loader of the relayer SDK, the    *)
(* store of public keys).                                                   *)
(*                                                                          *)
(* The wallet changes; React renders the change and later runs the effects  *)
(* that depend on it; an effect starts the creation of an instance, whose   *)
(* awaits are answered in any order with renders, effects and the awaits of *)
(* other creations.  The page's globals (the SDK's script, its state of     *)
(* initialization, the opened database) outlive every creation.             *)
(***************************************************************************)
EXTENDS Integers, FiniteSets

CONSTANTS
  Wallet,       \* what the wallet can offer: records of provider and chain
  NoProvider, NoChain,
  Chain,        \* the chains a provider can answer with
  MockChain,    \* those of mockChains
  Faults,       \* whether chains, scripts and the database may fail
  MaxCreations, \* creations in flight: more than there can be
  MaxChanges    \* of the wallet

ASSUME FhevmAssumption ==
  /\ MockChain \subseteq Chain
  /\ NoChain \notin Chain
  /\ Faults \in BOOLEAN
  /\ MaxCreations \in Nat \ {0} /\ MaxChanges \in Nat

VARIABLES
  wallet,    \* what the wallet offers now, and how often it changed
  render,    \* the last render: its props, _isRunning, the effects not yet run
  queued,    \* state updates for the next render: _isRunning, _providerChanged
  hook,      \* refs and state of useFhevm
  creations, \* creations[i]: a call of createFhevmInstance
  page       \* globals: the SDK's script, its __initialized__, the database

fhevmVars == <<wallet, render, queued, hook, creations, page>>
-----------------------------------------------------------------------------
Slot == 1..MaxCreations
NoInstance == [provider |-> NoProvider, chain |-> NoChain]
\* The await a creation is in.
Await == {"none", "resolve", "metadata", "mock", "script", "init", "get", "create"}
NoCreation ==
  [at |-> "none", provider |-> NoProvider, chain |-> NoChain, aborted |-> FALSE]
Enabled(props) == props.provider # NoProvider /\ props.chain # NoChain

\* At the first render every effect is due.
FhevmInit ==
  /\ \E w \in Wallet :
       /\ wallet = [now |-> w, changes |-> 0]
       /\ render = [props |-> w, running |-> Enabled(w),
                    due |-> {"refresh", "enabled", "main"}]
       /\ queued = [running |-> Enabled(w), kick |-> FALSE]
       /\ hook = [provider |-> w.provider, controller |-> FALSE,
                  instance |-> NoInstance, status |-> "idle"]
  /\ creations = [i \in Slot |-> NoCreation]
  /\ page = [sdk |-> "absent", initialized |-> FALSE, db |-> "closed"]

-----------------------------------------------------------------------------
(* React *)

\* People change wallets: the last change has been rendered, its effects may not
\* have run.
WalletChanges ==
  /\ wallet.changes < MaxChanges /\ render.props = wallet.now
  /\ \E w \in Wallet \ {wallet.now} :
       wallet' = [now |-> w, changes |-> wallet.changes + 1]
  /\ UNCHANGED <<render, queued, hook, creations, page>>

\* Effects run before the next render; an effect is due when what it depends on
\* changed.
Render ==
  /\ render.due = {}
  /\ \E p \in {render.props, wallet.now} :
       /\ p # render.props \/ queued.running # render.running \/ queued.kick
       /\ render' =
            [props |-> p, running |-> queued.running,
             due |-> (IF p # render.props THEN {"refresh"} ELSE {})
               \cup (IF Enabled(p) # Enabled(render.props) THEN {"enabled"} ELSE {})
               \cup (IF queued.running # render.running \/ queued.kick
                     THEN {"main"} ELSE {})]
  /\ queued' = [queued EXCEPT !.kick = FALSE]
  /\ UNCHANGED <<wallet, hook, creations, page>>

\* The state the effects work on: `start` is the provider of a creation to start.
EffectState == [hook |-> hook, aborting |-> FALSE, start |-> NoProvider]

Abort(s) == [s EXCEPT !.aborting = @ \/ s.hook.controller,
                      !.hook.controller = FALSE]

\* Mutant: the instance of the last wallet stays.
ResetStatus(s) == [s EXCEPT !.hook.status = "idle"]

Reset(s) == [s EXCEPT !.hook.instance = NoInstance, !.hook.status = "idle"]

\* Mutant: the creation in flight is not aborted.
RefreshNoAbort(s) == Reset([s EXCEPT !.hook.provider = render.props.provider])

\* The provider or the chain changed.
Refresh(s) == Reset([Abort(s) EXCEPT !.hook.provider = render.props.provider])

\* The effect that starts a creation, for the provider in the ref.  It keeps the
\* controller there is, and the old instance.
MainEffect(s) ==
  CASE ~render.running -> Reset(Abort(s))
    [] render.running /\ s.hook.provider = NoProvider -> Reset(s)
    [] OTHER -> [s EXCEPT !.hook.controller = TRUE, !.hook.status = "loading",
                          !.start = s.hook.provider]

\* The effects of a render run in their order, in one go.
RunEffects ==
  LET due == render.due
      refreshed == IF "refresh" \in due THEN Refresh(EffectState) ELSE EffectState
      done == IF "main" \in due THEN MainEffect(refreshed) ELSE refreshed
      aborted == [i \in Slot |-> [creations[i] EXCEPT
                    !.aborted = @ \/ (done.aborting /\ creations[i].at # "none")]]
      free == CHOOSE i \in Slot : creations[i].at = "none"
  IN /\ due # {}
     /\ render' = [render EXCEPT !.due = {}]
     /\ queued' = [running |-> IF "enabled" \in due THEN Enabled(render.props)
                               ELSE queued.running,
                   kick |-> "refresh" \in due /\ render.props.provider # NoProvider]
     /\ hook' = done.hook
     /\ creations' = IF done.start = NoProvider THEN aborted
                     ELSE [aborted EXCEPT ![free] =
                            [NoCreation EXCEPT !.at = "resolve", !.provider = done.start]]
     /\ UNCHANGED <<wallet, page>>
-----------------------------------------------------------------------------
(* createFhevmInstance: what runs between two awaits.  `c` is the creation of   *)
(* slot i with what the await has told it.                                     *)

GoOn(i, c, point) ==
  /\ creations' = [creations EXCEPT ![i] = [c EXCEPT !.at = point]]
  /\ UNCHANGED hook

\* Mutant: an error is not shown.
RejectedSilently(i) ==
  creations' = [creations EXCEPT ![i] = NoCreation] /\ UNCHANGED hook

\* The promise is rejected; the hook shows the error unless it has aborted.
Rejected(i) ==
  /\ creations' = [creations EXCEPT ![i] = NoCreation]
  /\ hook' = IF creations[i].aborted THEN hook
             ELSE [hook EXCEPT !.instance = NoInstance, !.status = "error"]

\* Mutant: the callback does not look at its signal.
FulfilledUnchecked(i, c) ==
  /\ creations' = [creations EXCEPT ![i] = NoCreation]
  /\ hook' = [hook EXCEPT !.status = "ready",
                !.instance = [provider |-> c.provider, chain |-> c.chain]]

\* The promise is fulfilled, unless it has been aborted.
Fulfilled(i, c) ==
  /\ creations' = [creations EXCEPT ![i] = NoCreation]
  /\ hook' = IF c.aborted THEN hook
             ELSE [hook EXCEPT !.status = "ready",
                     !.instance = [provider |-> c.provider, chain |-> c.chain]]

\* fhevmLoadSDK adds the script, once.  A script that is there without its SDK,
\* because it is still loading or has failed, is an error.
LoadSDK(i, c) ==
  CASE page.sdk = "loaded" ->
         GoOn(i, c, IF page.initialized THEN "get" ELSE "init") /\ UNCHANGED page
    [] page.sdk = "absent" ->
         GoOn(i, c, "script") /\ page' = [page EXCEPT !.sdk = "loading"]
    [] OTHER -> Rejected(i) /\ UNCHANGED page

ThrowIfAborted(i, next) ==
  IF creations[i].aborted THEN Rejected(i) /\ UNCHANGED page ELSE next

\* eth_chainId; a provider the wallet no longer offers answers with any chain.
Resolved(i) ==
  /\ creations[i].at = "resolve"
  /\ \E chain \in Chain :
       /\ creations[i].provider = wallet.now.provider /\ wallet.now.chain # NoChain
            => chain = wallet.now.chain
       /\ LET c == [creations[i] EXCEPT !.chain = chain]
          IN IF chain \in MockChain
             THEN GoOn(i, c, "metadata") /\ UNCHANGED page
             ELSE ThrowIfAborted(i, LoadSDK(i, c))

\* The node of a mock chain is an FHEVM Hardhat node, or it is not.
MetadataFetched(i) ==
  /\ creations[i].at = "metadata"
  /\ \/ GoOn(i, creations[i], "mock") /\ UNCHANGED page
     \/ ThrowIfAborted(i, LoadSDK(i, creations[i]))

\* The script's load or error event: the SDK it brings may be invalid.
ScriptSettled(i) ==
  /\ creations[i].at = "script"
  /\ \/ /\ page' = [page EXCEPT !.sdk = "loaded"]
        /\ IF creations[i].aborted THEN Rejected(i)
           ELSE GoOn(i, creations[i], "init")
     \/ Faults /\ page' = [page EXCEPT !.sdk = "broken"] /\ Rejected(i)

\* initSDK answers, and its answer is kept; false is thrown as an error.
SDKInitialized(i) ==
  /\ creations[i].at = "init"
  /\ \E result \in {TRUE, ~Faults} :
       /\ page' = [page EXCEPT !.initialized = result]
       /\ IF ~result \/ creations[i].aborted THEN Rejected(i)
          ELSE GoOn(i, creations[i], "get")

\* The database is opened once, and a failure to open it is kept as well.
KeysRead(i) ==
  /\ creations[i].at = "get"
  /\ \E db \in IF page.db # "closed" THEN {page.db}
               ELSE IF Faults THEN {"open", "failed"} ELSE {"open"} :
       /\ page' = [page EXCEPT !.db = db]
       /\ IF db = "failed" \/ creations[i].aborted THEN Rejected(i)
          ELSE GoOn(i, creations[i], "create")

\* The SDK's instance is created and its keys are saved, even if aborted; or the
\* mock's.
InstanceCreated(i) ==
  /\ creations[i].at \in {"create", "mock"}
  /\ Fulfilled(i, creations[i])
  /\ UNCHANGED page

\* The awaited call throws.
AwaitThrows(i) ==
  /\ Faults
  /\ creations[i].at \notin {"none", "script", "get"}
  /\ Rejected(i) /\ UNCHANGED page

CreationStep(i) ==
  /\ \/ Resolved(i) \/ MetadataFetched(i) \/ ScriptSettled(i) \/ SDKInitialized(i)
     \/ KeysRead(i) \/ InstanceCreated(i) \/ AwaitThrows(i)
  /\ UNCHANGED <<wallet, render, queued>>

React == Render \/ RunEffects
FhevmNext == WalletChanges \/ React \/ \E i \in Slot : CreationStep(i)

\* React's scheduler runs; chains, scripts and the database answer or fail.
FhevmSpec ==
  /\ FhevmInit /\ [][FhevmNext]_fhevmVars
  /\ WF_fhevmVars(React)
  /\ \A i \in Slot : WF_fhevmVars(CreationStep(i))
-----------------------------------------------------------------------------
(* Properties *)

\* Every variable has its type; without a session there is no instance.
FhevmTypeOK ==
  /\ wallet \in [now : Wallet, changes : 0..MaxChanges]
  /\ render \in [props : Wallet, running : BOOLEAN,
                 due : SUBSET {"refresh", "enabled", "main"}]
  /\ queued \in [running : BOOLEAN, kick : BOOLEAN]
  /\ hook.provider \in {w.provider : w \in Wallet} \cup {NoProvider}
  /\ hook.status \in {"idle", "loading", "ready", "error"}
  /\ hook.status \in {"idle", "error"} => hook.instance = NoInstance
  /\ hook.status = "ready" => hook.instance # NoInstance
  /\ \A i \in Slot : creations[i].at \in Await

\* No creation outlives its session: what a creation that was not aborted finds
\* is for the provider in the ref, the one thing useFhevm asserts in its
\* callbacks ("it's not possible to have a _providerRef modified without a prior
\* abort").
LiveCreationsAreCurrent ==
  \A i \in Slot :
    creations[i].at # "none" /\ ~creations[i].aborted
      => creations[i].provider = hook.provider /\ hook.controller

\* Once what the wallet offers has been rendered and the effects have run, the
\* session is one for the wallet's provider and chain, however many creations of
\* earlier wallets were answered late.
Quiet == /\ render.props = wallet.now /\ render.due = {}
         /\ ~queued.kick /\ queued.running = render.running
SessionFitsWallet ==
  Quiet /\ hook.status = "ready" =>
    hook.instance = [provider |-> wallet.now.provider, chain |-> wallet.now.chain]

\* A wallet that stays connected gets an answer: the session becomes ready, or
\* shows an error; it does not load for ever.
SessionSettles ==
  <>[](Enabled(wallet.now) => hook.status \in {"ready", "error"})
=============================================================================
