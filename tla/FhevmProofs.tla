---------------------------- MODULE FhevmProofs ----------------------------
(***************************************************************************)
(* Of Fhevm, for every set of wallets and chains and every number of        *)
(* creations: its types, that no creation outlives its session, and that    *)
(* the session is for the wallet that the page shows.                       *)
(***************************************************************************)
EXTENDS Fhevm, TLAPS

Providers == {w.provider : w \in Wallet} \cup {NoProvider}
Instances == [provider : Providers, chain : Chain \cup {NoChain}]
Status == {"idle", "loading", "ready", "error"}
Effects == {"refresh", "enabled", "main"}
HookStates == [provider : Providers, controller : BOOLEAN, instance : Instances,
               status : Status]
EffectStates == [hook : HookStates, aborting : BOOLEAN, start : Providers]
Creation == [at : Await, provider : Providers, chain : Chain \cup {NoChain},
             aborted : BOOLEAN]

FhevmTypes ==
  /\ wallet \in [now : Wallet, changes : 0..MaxChanges]
  /\ render \in [props : Wallet, running : BOOLEAN, due : SUBSET Effects]
  /\ queued \in [running : BOOLEAN, kick : BOOLEAN]
  /\ hook \in HookStates
  /\ creations \in [Slot -> Creation]

Live(i) == creations[i].at # "none" /\ ~creations[i].aborted

\* A creation knows its chain once its provider has answered.
ChainKnown ==
  \A i \in Slot : creations[i].at \notin {"none", "resolve"} => creations[i].chain \in Chain

InstanceShown ==
  /\ hook.status \in {"idle", "error"} => hook.instance = NoInstance
  /\ hook.status = "ready" => hook.instance # NoInstance

\* Where the refs and the state lag behind what was rendered, the effect that
\* brings them up to date is due.
ProviderRefreshed == "refresh" \notin render.due => hook.provider = render.props.provider
RunningUpToDate   == "enabled" \notin render.due => queued.running = Enabled(render.props)
SessionRuns ==
  "main" \notin render.due /\ (hook.status = "ready" \/ \E i \in Slot : Live(i))
    => render.running

\* Between a render's effects and the next change of the wallet, the session and
\* the creations that may become it are for the wallet there is.
Rendered == /\ render.props = wallet.now /\ "refresh" \notin render.due
            /\ Enabled(wallet.now)
SessionIsForWallet ==
  Rendered /\ hook.status = "ready" =>
    hook.instance = [provider |-> wallet.now.provider, chain |-> wallet.now.chain]
CreationsAreForWallet ==
  Rendered => \A i \in Slot : Live(i) /\ creations[i].at # "resolve" =>
                creations[i].chain = wallet.now.chain

FhevmInv ==
  /\ FhevmTypes /\ ChainKnown /\ InstanceShown /\ LiveCreationsAreCurrent
  /\ ProviderRefreshed /\ RunningUpToDate /\ SessionRuns
  /\ SessionIsForWallet /\ CreationsAreForWallet
-----------------------------------------------------------------------------
(***************************************************************************)
(* The effects: what each makes of the state it works on.                   *)
(***************************************************************************)
LEMMA AbortFields ==
  ASSUME NEW s \in EffectStates
  PROVE  /\ Abort(s) \in EffectStates
         /\ Abort(s).hook.provider = s.hook.provider
         /\ Abort(s).hook.controller = FALSE
         /\ Abort(s).hook.instance = s.hook.instance
         /\ Abort(s).hook.status = s.hook.status
         /\ Abort(s).aborting = (s.aborting \/ s.hook.controller)
         /\ Abort(s).start = s.start
  BY DEF Abort, EffectStates, HookStates

LEMMA ResetFields ==
  ASSUME NEW s \in EffectStates
  PROVE  /\ Reset(s) \in EffectStates
         /\ Reset(s).hook.provider = s.hook.provider
         /\ Reset(s).hook.controller = s.hook.controller
         /\ Reset(s).hook.instance = NoInstance
         /\ Reset(s).hook.status = "idle"
         /\ Reset(s).aborting = s.aborting
         /\ Reset(s).start = s.start
  BY DEF Reset, EffectStates, HookStates, Instances, NoInstance, Status, Providers

LEMMA EffectStateFields ==
  ASSUME FhevmTypes
  PROVE  /\ EffectState \in EffectStates
         /\ EffectState.hook = hook /\ EffectState.aborting = FALSE
         /\ EffectState.start = NoProvider
  BY DEF EffectState, EffectStates, FhevmTypes, Providers

LEMMA RefreshFields ==
  ASSUME NEW s \in EffectStates, render.props \in Wallet
  PROVE  /\ Refresh(s) \in EffectStates
         /\ Refresh(s).hook.provider = render.props.provider
         /\ Refresh(s).hook.controller = FALSE
         /\ Refresh(s).hook.instance = NoInstance
         /\ Refresh(s).hook.status = "idle"
         /\ Refresh(s).aborting = (s.aborting \/ s.hook.controller)
         /\ Refresh(s).start = s.start
  <1>. DEFINE a == Abort(s)
              b == [a EXCEPT !.hook.provider = render.props.provider]
  <1>1. /\ a \in EffectStates
        /\ a.hook.controller = FALSE
        /\ a.aborting = (s.aborting \/ s.hook.controller)
        /\ a.start = s.start
    BY AbortFields
  <1>. HIDE DEF a
  <1>2. /\ b \in EffectStates
        /\ b.hook.provider = render.props.provider
        /\ b.hook.controller = FALSE
        /\ b.aborting = a.aborting
        /\ b.start = a.start
    BY <1>1 DEF EffectStates, HookStates, Providers
  <1>3. Refresh(s) = Reset(b)
    BY DEF Refresh, a
  <1>. HIDE DEF b
  <1>. QED BY <1>1, <1>2, <1>3, ResetFields

LEMMA MainFields ==
  ASSUME NEW s \in EffectStates, s.start = NoProvider, render.running \in BOOLEAN
  PROVE  /\ MainEffect(s) \in EffectStates
         /\ MainEffect(s).hook.provider = s.hook.provider
         /\ MainEffect(s).hook.status \in {"idle", "loading"}
         /\ MainEffect(s).hook.status = "idle" => MainEffect(s).hook.instance = NoInstance
         /\ MainEffect(s).aborting =
              (s.aborting \/ (s.hook.controller /\ ~render.running))
         /\ s.hook.controller /\ ~MainEffect(s).aborting => MainEffect(s).hook.controller
         /\ MainEffect(s).start # NoProvider =>
              /\ render.running /\ MainEffect(s).hook.controller
              /\ MainEffect(s).start = s.hook.provider
  <1>1. CASE ~render.running
    <2>. DEFINE a == Abort(s)
    <2>1. MainEffect(s) = Reset(a)
      BY <1>1 DEF MainEffect
    <2>2. /\ a \in EffectStates /\ a.start = NoProvider
          /\ a.hook.provider = s.hook.provider
          /\ a.aborting = (s.aborting \/ s.hook.controller)
      BY AbortFields
    <2>3. s.aborting \in BOOLEAN /\ s.hook.controller \in BOOLEAN
      BY DEF EffectStates, HookStates
    <2>. HIDE DEF a
    <2>4. /\ Reset(a) \in EffectStates
          /\ Reset(a).hook.provider = a.hook.provider
          /\ Reset(a).hook.instance = NoInstance
          /\ Reset(a).hook.status = "idle"
          /\ Reset(a).aborting = a.aborting
          /\ Reset(a).start = a.start
      BY <2>2, ResetFields
    <2>. QED BY <1>1, <2>1, <2>2, <2>3, <2>4
  <1>2. CASE render.running /\ s.hook.provider = NoProvider
    <2>1. MainEffect(s) = Reset(s)
      BY <1>2 DEF MainEffect
    <2>2. s.aborting \in BOOLEAN /\ s.hook.controller \in BOOLEAN
      BY DEF EffectStates, HookStates
    <2>. QED BY <1>2, <2>1, <2>2, ResetFields
  <1>3. CASE render.running /\ s.hook.provider # NoProvider
    <2>. DEFINE m == [s EXCEPT !.hook.controller = TRUE, !.hook.status = "loading",
                               !.start = s.hook.provider]
    <2>1. MainEffect(s) = m
      BY <1>3 DEF MainEffect
    <2>2. /\ m \in EffectStates
          /\ m.hook.provider = s.hook.provider
          /\ m.hook.status = "loading" /\ m.hook.controller = TRUE
          /\ m.aborting = s.aborting
          /\ m.start = s.hook.provider
      BY DEF EffectStates, HookStates, Status
    <2>3. s.aborting \in BOOLEAN
      BY DEF EffectStates
    <2>. HIDE DEF m
    <2>. QED BY <1>3, <2>1, <2>2, <2>3
  <1>. QED BY <1>1, <1>2, <1>3

\* The effects of a render, run in one go: whatever they leave in flight is for the
\* provider in the ref, and what they start they start while running.
Done == LET refreshed == IF "refresh" \in render.due THEN Refresh(EffectState)
                         ELSE EffectState
        IN IF "main" \in render.due THEN MainEffect(refreshed) ELSE refreshed

LEMMA DoneFields ==
  ASSUME FhevmTypes, InstanceShown
  PROVE  /\ Done \in EffectStates
         /\ Done.hook.provider = IF "refresh" \in render.due THEN render.props.provider
                                 ELSE hook.provider
         /\ Done.hook.status \in {"idle", "error"} => Done.hook.instance = NoInstance
         /\ Done.hook.status = "ready" =>
              /\ hook.status = "ready" /\ Done.hook.instance = hook.instance
              /\ "refresh" \notin render.due /\ "main" \notin render.due
         /\ Done.aborting =
              (hook.controller /\ \/ "refresh" \in render.due
                                  \/ "main" \in render.due /\ ~render.running)
         /\ hook.controller /\ ~Done.aborting => Done.hook.controller
         /\ Done.start # NoProvider =>
              /\ "main" \in render.due /\ render.running /\ Done.hook.controller
              /\ Done.start = Done.hook.provider
  <1>. DEFINE refreshed == IF "refresh" \in render.due THEN Refresh(EffectState)
                           ELSE EffectState
  <1>1. /\ refreshed \in EffectStates /\ refreshed.start = NoProvider
        /\ refreshed.hook.provider = IF "refresh" \in render.due
                                     THEN render.props.provider ELSE hook.provider
        /\ refreshed.aborting = (hook.controller /\ "refresh" \in render.due)
        /\ hook.controller /\ ~refreshed.aborting => refreshed.hook.controller
        /\ refreshed.hook.controller => hook.controller /\ "refresh" \notin render.due
        /\ IF "refresh" \in render.due
           THEN refreshed.hook.status = "idle" /\ refreshed.hook.instance = NoInstance
           ELSE refreshed.hook = hook
    <2>1. hook.controller \in BOOLEAN /\ render.props \in Wallet
      BY DEF FhevmTypes, HookStates
    <2>2. CASE "refresh" \in render.due
      BY <2>1, <2>2, EffectStateFields, RefreshFields
    <2>3. CASE "refresh" \notin render.due
      BY <2>1, <2>3, EffectStateFields
    <2>. QED BY <2>2, <2>3
  <1>2. Done = IF "main" \in render.due THEN MainEffect(refreshed) ELSE refreshed
    BY DEF Done
  <1>3. hook.controller \in BOOLEAN /\ render.running \in BOOLEAN
    BY DEF FhevmTypes, HookStates
  <1>. HIDE DEF refreshed
  <1>4. CASE "main" \in render.due
    <2>1. Done = MainEffect(refreshed)
      BY <1>2, <1>4
    <2>. QED BY <1>1, <1>3, <1>4, <2>1, MainFields
  <1>5. CASE "main" \notin render.due
    <2>1. Done = refreshed
      BY <1>2, <1>5
    <2>. QED BY <1>1, <1>3, <1>5, <2>1 DEF InstanceShown
  <1>. QED BY <1>4, <1>5

\* A slot either keeps its creation, aborted if the effects abort, or takes the
\* creation they start.
LEMMA EffectsOnCreations ==
  ASSUME FhevmTypes, InstanceShown, RunEffects
  PROVE  /\ hook' = Done.hook
         /\ creations' \in [Slot -> Creation]
         /\ \A i \in Slot :
              \/ /\ creations'[i].at = creations[i].at
                 /\ creations'[i].provider = creations[i].provider
                 /\ creations'[i].chain = creations[i].chain
                 /\ creations[i].at # "none" =>
                      creations'[i].aborted = (creations[i].aborted \/ Done.aborting)
              \/ /\ Done.start # NoProvider
                 /\ creations'[i].at = "resolve"
                 /\ creations'[i].provider = Done.start
  <1>. DEFINE aborted == [i \in Slot |-> [creations[i] EXCEPT
                           !.aborted = @ \/ (Done.aborting /\ creations[i].at # "none")]]
              free == CHOOSE i \in Slot : creations[i].at = "none"
              new == [NoCreation EXCEPT !.at = "resolve", !.provider = Done.start]
  <1>1. /\ hook' = Done.hook
        /\ creations' = IF Done.start = NoProvider THEN aborted
                        ELSE [aborted EXCEPT ![free] = new]
    BY DEF RunEffects, Done
  <1>2. Done.start \in Providers /\ Done.aborting \in BOOLEAN
    BY DoneFields DEF EffectStates
  <1>3. \A i \in Slot : /\ aborted[i] \in Creation
                        /\ aborted[i].at = creations[i].at
                        /\ aborted[i].provider = creations[i].provider
                        /\ aborted[i].chain = creations[i].chain
                        /\ creations[i].at # "none" =>
                             aborted[i].aborted = (creations[i].aborted \/ Done.aborting)
    BY <1>2 DEF FhevmTypes, Creation
  <1>4. new \in Creation /\ new.at = "resolve" /\ new.provider = Done.start
    BY <1>2 DEF NoCreation, Creation, Await
  <1>5. aborted \in [Slot -> Creation]
    BY <1>3
  <1>. HIDE DEF aborted, new, free
  <1>. QED BY <1>1, <1>3, <1>4, <1>5
-----------------------------------------------------------------------------
(***************************************************************************)
(* The steps.                                                               *)
(***************************************************************************)
LEMMA FhevmInitInv == FhevmInit => FhevmInv
  <1>. SUFFICES ASSUME FhevmInit PROVE FhevmInv
    OBVIOUS
  <1>1. PICK w \in Wallet :
          /\ wallet = [now |-> w, changes |-> 0]
          /\ render = [props |-> w, running |-> Enabled(w),
                       due |-> {"refresh", "enabled", "main"}]
          /\ queued = [running |-> Enabled(w), kick |-> FALSE]
          /\ hook = [provider |-> w.provider, controller |-> FALSE,
                     instance |-> NoInstance, status |-> "idle"]
    BY DEF FhevmInit
  <1>2. creations = [i \in Slot |-> NoCreation]
    BY DEF FhevmInit
  <1>3. Enabled(w) \in BOOLEAN
    BY DEF Enabled
  <1>4. FhevmTypes
    BY <1>1, <1>2, <1>3, FhevmAssumption
    DEF FhevmTypes, HookStates, Providers, Instances, NoInstance, Status, Effects,
        Creation, NoCreation, Await
  <1>5. \A i \in Slot : creations[i].at = "none"
    BY <1>2 DEF NoCreation
  <1>. QED BY <1>1, <1>4, <1>5
           DEF FhevmInv, ChainKnown, InstanceShown, LiveCreationsAreCurrent,
               ProviderRefreshed, RunningUpToDate, SessionRuns, Rendered,
               SessionIsForWallet, CreationsAreForWallet, Live

\* The wallet changes only after its last change has been rendered.
LEMMA WalletKeeps == FhevmInv /\ WalletChanges => FhevmInv'
  <1>. SUFFICES ASSUME FhevmInv, WalletChanges PROVE FhevmInv'
    OBVIOUS
  <1>1. /\ wallet' \in [now : Wallet, changes : 0..MaxChanges]
        /\ render.props # wallet'.now
        /\ UNCHANGED <<render, queued, hook, creations>>
    BY FhevmAssumption DEF WalletChanges, FhevmInv, FhevmTypes
  <1>2. FhevmTypes'
    BY <1>1 DEF FhevmInv, FhevmTypes
  <1>3. ~Rendered'
    BY <1>1 DEF Rendered
  <1>. QED BY <1>1, <1>2, <1>3
           DEF FhevmInv, ChainKnown, InstanceShown, LiveCreationsAreCurrent,
               ProviderRefreshed, RunningUpToDate, SessionRuns,
               SessionIsForWallet, CreationsAreForWallet, Live

\* A render makes due the effects of everything it changes.
LEMMA RenderKeeps == FhevmInv /\ Render => FhevmInv'
  <1>. SUFFICES ASSUME FhevmInv, Render PROVE FhevmInv'
    OBVIOUS
  <1>1. PICK p \in {render.props, wallet.now} :
          render' =
            [props |-> p, running |-> queued.running,
             due |-> (IF p # render.props THEN {"refresh"} ELSE {})
               \cup (IF Enabled(p) # Enabled(render.props) THEN {"enabled"} ELSE {})
               \cup (IF queued.running # render.running \/ queued.kick
                     THEN {"main"} ELSE {})]
    BY DEF Render
  <1>2. /\ render.due = {} /\ UNCHANGED <<wallet, hook, creations>>
        /\ queued' = [queued EXCEPT !.kick = FALSE]
    BY DEF Render
  <1>3. /\ render'.props = p /\ render'.running = queued.running
        /\ render'.due \subseteq Effects
        /\ "refresh" \in render'.due <=> p # render.props
        /\ "enabled" \in render'.due <=> Enabled(p) # Enabled(render.props)
        /\ "main" \notin render'.due => queued.running = render.running
    BY <1>1 DEF Effects
  <1>4. FhevmTypes'
    <2>1. p \in Wallet /\ queued.running \in BOOLEAN
      BY DEF FhevmInv, FhevmTypes
    <2>2. render' \in [props : Wallet, running : BOOLEAN, due : SUBSET Effects]
      BY <1>1, <1>3, <2>1
    <2>3. queued' \in [running : BOOLEAN, kick : BOOLEAN]
      BY <1>2 DEF FhevmInv, FhevmTypes
    <2>. QED BY <1>2, <2>2, <2>3 DEF FhevmInv, FhevmTypes
  <1>5. queued'.running = queued.running
    BY <1>2 DEF FhevmInv, FhevmTypes
  <1>6. RunningUpToDate'
    <2>1. queued.running = Enabled(render.props)
      BY <1>2 DEF FhevmInv, RunningUpToDate
    <2>. QED BY <1>3, <1>5, <2>1 DEF RunningUpToDate, Enabled
  <1>7. Rendered' => Rendered
    BY <1>2, <1>3 DEF Rendered, Enabled
  <1>8. ChainKnown' /\ InstanceShown' /\ LiveCreationsAreCurrent'
    BY <1>2 DEF FhevmInv, ChainKnown, InstanceShown, LiveCreationsAreCurrent
  <1>9. ProviderRefreshed' /\ SessionRuns'
    BY <1>2, <1>3 DEF FhevmInv, ProviderRefreshed, SessionRuns, Live
  <1>10. SessionIsForWallet' /\ CreationsAreForWallet'
    BY <1>2, <1>7 DEF FhevmInv, SessionIsForWallet, CreationsAreForWallet, Live
  <1>. QED BY <1>4, <1>6, <1>8, <1>9, <1>10 DEF FhevmInv

LEMMA EffectsKeep == FhevmInv /\ RunEffects => FhevmInv'
  <1>. SUFFICES ASSUME FhevmInv, RunEffects PROVE FhevmInv'
    OBVIOUS
  <1>0. FhevmTypes /\ InstanceShown
    BY DEF FhevmInv
  <1>1. /\ render' = [render EXCEPT !.due = {}] /\ UNCHANGED wallet
        /\ queued' = [running |-> IF "enabled" \in render.due THEN Enabled(render.props)
                                  ELSE queued.running,
                      kick |-> "refresh" \in render.due
                                 /\ render.props.provider # NoProvider]
    BY DEF RunEffects
  <1>2. /\ render' \in [props : Wallet, running : BOOLEAN, due : SUBSET Effects]
        /\ render'.props = render.props /\ render'.running = render.running
        /\ render'.due = {}
    BY <1>0, <1>1 DEF FhevmTypes
  <1>. DEFINE kept(i) ==
                /\ creations'[i].at = creations[i].at
                /\ creations'[i].provider = creations[i].provider
                /\ creations'[i].chain = creations[i].chain
                /\ creations[i].at # "none" =>
                     creations'[i].aborted = (creations[i].aborted \/ Done.aborting)
              new(i) == /\ Done.start # NoProvider
                        /\ creations'[i].at = "resolve"
                        /\ creations'[i].provider = Done.start
  <1>3. /\ hook' = Done.hook /\ creations' \in [Slot -> Creation]
        /\ \A i \in Slot : kept(i) \/ new(i)
    BY <1>0, EffectsOnCreations
  <1>4. /\ Done \in EffectStates
        /\ hook'.provider = IF "refresh" \in render.due THEN render.props.provider
                            ELSE hook.provider
        /\ hook'.status \in {"idle", "error"} => hook'.instance = NoInstance
        /\ hook'.status = "ready" =>
             /\ hook.status = "ready" /\ hook'.instance = hook.instance
             /\ "refresh" \notin render.due /\ "main" \notin render.due
        /\ Done.aborting =
             (hook.controller /\ \/ "refresh" \in render.due
                                 \/ "main" \in render.due /\ ~render.running)
        /\ hook.controller /\ ~Done.aborting => hook'.controller
        /\ Done.start # NoProvider =>
             /\ "main" \in render.due /\ render.running /\ hook'.controller
             /\ Done.start = hook'.provider
    BY <1>0, <1>3, DoneFields
  \* What is live after the effects was started by them, or was live and is for
  \* the provider that did not change.
  <1>5. ASSUME NEW i \in Slot, Live(i)', ~new(i)
        PROVE  /\ kept(i) /\ Live(i) /\ ~Done.aborting /\ hook.controller
               /\ creations[i].provider = hook.provider
               /\ "refresh" \notin render.due
               /\ ~("main" \in render.due /\ ~render.running)
    BY <1>3, <1>4, <1>5 DEF Live, FhevmInv, LiveCreationsAreCurrent
  <1>6. FhevmTypes'
    <2>1. hook' \in HookStates
      BY <1>3, <1>4 DEF EffectStates
    <2>2. queued' \in [running : BOOLEAN, kick : BOOLEAN]
      BY <1>0, <1>1 DEF FhevmTypes, Enabled
    <2>. QED BY <1>0, <1>1, <1>2, <1>3, <2>1, <2>2 DEF FhevmTypes
  <1>7. ChainKnown'
    BY <1>3 DEF FhevmInv, ChainKnown
  <1>8. InstanceShown'
    BY <1>4 DEF FhevmInv, InstanceShown
  <1>9. LiveCreationsAreCurrent'
    <2>. SUFFICES ASSUME NEW i \in Slot, Live(i)'
                  PROVE  creations'[i].provider = hook'.provider /\ hook'.controller
      BY DEF LiveCreationsAreCurrent, Live
    <2>1. CASE new(i)
      BY <1>4, <2>1
    <2>2. CASE ~new(i)
      BY <1>4, <1>5, <2>2
    <2>. QED BY <2>1, <2>2
  <1>10. ProviderRefreshed' /\ RunningUpToDate'
    BY <1>0, <1>1, <1>2, <1>4
    DEF FhevmInv, FhevmTypes, ProviderRefreshed, RunningUpToDate, Enabled
  <1>11. SessionRuns'
    <2>1. hook'.status = "ready" => render.running
      BY <1>4 DEF FhevmInv, SessionRuns
    <2>2. ASSUME NEW i \in Slot, Live(i)' PROVE render.running
      BY <1>4, <1>5, <2>2 DEF FhevmInv, SessionRuns
    <2>. QED BY <1>2, <2>1, <2>2 DEF SessionRuns, Live
  <1>12. SessionIsForWallet'
    BY <1>1, <1>2, <1>4 DEF FhevmInv, SessionIsForWallet, Rendered, Enabled
  <1>13. CreationsAreForWallet'
    <2>. SUFFICES ASSUME Rendered', NEW i \in Slot, Live(i)', creations'[i].at # "resolve"
                  PROVE  creations'[i].chain = wallet'.now.chain
      BY DEF CreationsAreForWallet, Live
    <2>1. kept(i) /\ Live(i) /\ "refresh" \notin render.due
      BY <1>5
    <2>2. Rendered
      BY <1>1, <1>2, <2>1 DEF Rendered, Enabled
    <2>. QED BY <1>1, <2>1, <2>2 DEF FhevmInv, CreationsAreForWallet
  <1>. QED BY <1>6, <1>7, <1>8, <1>9, <1>10, <1>11, <1>12, <1>13 DEF FhevmInv
-----------------------------------------------------------------------------
(***************************************************************************)
(* The creations: a step goes on, is rejected or is fulfilled.              *)
(***************************************************************************)
LEMMA GoOnKeeps ==
  ASSUME FhevmInv, NEW i \in Slot, NEW c \in Creation, NEW point \in Await \ {"none", "resolve"},
         creations[i].at # "none", GoOn(i, c, point),
         UNCHANGED <<wallet, render, queued>>,
         c.provider = creations[i].provider, c.aborted = creations[i].aborted,
         c.chain \in Chain,
         \/ creations[i].at # "resolve" /\ c.chain = creations[i].chain
         \/ (c.provider = wallet.now.provider /\ wallet.now.chain # NoChain
               => c.chain = wallet.now.chain)
  PROVE  FhevmInv'
  <1>. DEFINE new == [c EXCEPT !.at = point]
  <1>1. /\ new \in Creation /\ new.at = point /\ new.provider = creations[i].provider
        /\ new.aborted = creations[i].aborted /\ new.chain = c.chain
    BY DEF Creation
  <1>2. creations' = [creations EXCEPT ![i] = new] /\ UNCHANGED hook
    BY DEF GoOn
  <1>. HIDE DEF new
  <1>3. /\ creations' \in [Slot -> Creation] /\ creations'[i] = new
        /\ \A j \in Slot \ {i} : creations'[j] = creations[j]
    BY <1>1, <1>2 DEF FhevmInv, FhevmTypes
  <1>4. \A j \in Slot : Live(j)' => Live(j)
    BY <1>1, <1>3 DEF Live
  <1>5. FhevmTypes'
    BY <1>2, <1>3 DEF FhevmInv, FhevmTypes
  <1>6. ChainKnown' /\ InstanceShown'
    BY <1>1, <1>2, <1>3 DEF FhevmInv, ChainKnown, InstanceShown
  <1>7. LiveCreationsAreCurrent'
    BY <1>1, <1>2, <1>3, <1>4 DEF FhevmInv, LiveCreationsAreCurrent, Live
  <1>8. ProviderRefreshed' /\ RunningUpToDate' /\ SessionRuns'
    BY <1>2, <1>4
    DEF FhevmInv, ProviderRefreshed, RunningUpToDate, SessionRuns, Enabled
  <1>9. SessionIsForWallet'
    BY <1>2 DEF FhevmInv, SessionIsForWallet, Rendered, Enabled
  <1>10. CreationsAreForWallet'
    <2>. SUFFICES ASSUME Rendered, NEW j \in Slot, Live(j)', creations'[j].at # "resolve"
                  PROVE  creations'[j].chain = wallet.now.chain
      BY DEF CreationsAreForWallet, Rendered, Enabled, Live
    <2>1. CASE j # i
      BY <1>3, <1>4, <2>1 DEF FhevmInv, CreationsAreForWallet
    <2>2. CASE j = i
      <3>1. c.provider = wallet.now.provider /\ wallet.now.chain # NoChain
        BY <1>4, <2>2
        DEF FhevmInv, LiveCreationsAreCurrent, ProviderRefreshed, Rendered, Enabled, Live
      <3>. QED BY <1>1, <1>3, <1>4, <2>2, <3>1 DEF FhevmInv, CreationsAreForWallet
    <2>. QED BY <2>1, <2>2
  <1>. QED BY <1>5, <1>6, <1>7, <1>8, <1>9, <1>10 DEF FhevmInv

\* What a creation that ends leaves to the others.
LEMMA EndKeeps ==
  ASSUME FhevmInv, NEW i \in Slot,
         creations' = [creations EXCEPT ![i] = NoCreation],
         UNCHANGED <<wallet, render, queued>>,
         hook' \in HookStates, hook'.provider = hook.provider,
         hook'.controller = hook.controller, InstanceShown',
         hook'.status = "ready" =>
           \/ hook' = hook
           \/ /\ Live(i)
              /\ Rendered => hook'.instance = [provider |-> wallet.now.provider,
                                               chain |-> wallet.now.chain]
  PROVE  FhevmInv'
  <1>1. NoCreation \in Creation /\ NoCreation.at = "none"
    BY DEF NoCreation, Creation, Await, Providers
  <1>2. /\ creations' \in [Slot -> Creation] /\ creations'[i] = NoCreation
        /\ \A j \in Slot \ {i} : creations'[j] = creations[j]
    BY <1>1 DEF FhevmInv, FhevmTypes
  <1>3. \A j \in Slot : Live(j)' => Live(j) /\ creations'[j] = creations[j]
    BY <1>1, <1>2 DEF Live
  <1>4. FhevmTypes'
    BY <1>2 DEF FhevmInv, FhevmTypes
  <1>5. ChainKnown' /\ LiveCreationsAreCurrent'
    BY <1>1, <1>2, <1>3 DEF FhevmInv, ChainKnown, LiveCreationsAreCurrent, Live
  <1>6. ProviderRefreshed' /\ RunningUpToDate' /\ SessionRuns'
    BY <1>3 DEF FhevmInv, ProviderRefreshed, RunningUpToDate, SessionRuns, Enabled
  <1>7. SessionIsForWallet'
    BY DEF FhevmInv, SessionIsForWallet, Rendered, Enabled
  <1>8. CreationsAreForWallet'
    BY <1>3 DEF FhevmInv, CreationsAreForWallet, Rendered, Enabled
  <1>. QED BY <1>4, <1>5, <1>6, <1>7, <1>8 DEF FhevmInv

LEMMA RejectedKeeps ==
  ASSUME FhevmInv, NEW i \in Slot, Rejected(i), UNCHANGED <<wallet, render, queued>>
  PROVE  FhevmInv'
  <1>1. /\ hook' \in HookStates /\ hook'.provider = hook.provider
        /\ hook'.controller = hook.controller
        /\ \/ hook' = hook
           \/ hook'.status = "error" /\ hook'.instance = NoInstance
    <2>1. NoInstance \in Instances /\ "error" \in Status
      BY DEF NoInstance, Instances, Providers, Status
    <2>. QED BY <2>1 DEF Rejected, FhevmInv, FhevmTypes, HookStates
  <1>2. InstanceShown'
    BY <1>1 DEF FhevmInv, InstanceShown
  <1>. QED BY <1>1, <1>2, EndKeeps DEF Rejected

LEMMA FulfilledKeeps ==
  ASSUME FhevmInv, NEW i \in Slot, Fulfilled(i, creations[i]),
         creations[i].at \in {"create", "mock"}, UNCHANGED <<wallet, render, queued>>
  PROVE  FhevmInv'
  <1>. DEFINE instance == [provider |-> creations[i].provider, chain |-> creations[i].chain]
  <1>1. creations[i] \in Creation /\ creations[i].chain \in Chain
    BY DEF FhevmInv, FhevmTypes, ChainKnown
  <1>2. instance \in Instances /\ instance # NoInstance
    BY <1>1, FhevmAssumption DEF Creation, Instances, NoInstance
  <1>3. \/ hook' = hook
        \/ ~creations[i].aborted /\ hook' = [hook EXCEPT !.status = "ready",
                                                         !.instance = instance]
    BY DEF Fulfilled
  <1>4. Live(i) /\ Rendered => instance = [provider |-> wallet.now.provider,
                                           chain |-> wallet.now.chain]
    BY DEF FhevmInv, LiveCreationsAreCurrent, CreationsAreForWallet, ProviderRefreshed,
           Rendered, Live
  <1>. HIDE DEF instance
  <1>5. /\ hook' \in HookStates /\ hook'.provider = hook.provider
        /\ hook'.controller = hook.controller
        /\ \/ hook' = hook
           \/ Live(i) /\ hook'.status = "ready" /\ hook'.instance = instance
    BY <1>2, <1>3 DEF FhevmInv, FhevmTypes, HookStates, Status, Live
  <1>6. InstanceShown'
    BY <1>2, <1>5 DEF FhevmInv, InstanceShown
  <1>. QED BY <1>4, <1>5, <1>6, EndKeeps DEF Fulfilled

\* A creation that loads the SDK, for the chain it knows by now.
LEMMA LoadKeeps ==
  ASSUME FhevmInv, NEW i \in Slot, NEW c \in Creation,
         ThrowIfAborted(i, LoadSDK(i, c)), creations[i].at # "none",
         UNCHANGED <<wallet, render, queued>>,
         c.provider = creations[i].provider, c.aborted = creations[i].aborted,
         c.chain \in Chain,
         \/ creations[i].at # "resolve" /\ c.chain = creations[i].chain
         \/ (c.provider = wallet.now.provider /\ wallet.now.chain # NoChain
               => c.chain = wallet.now.chain)
  PROVE  FhevmInv'
  <1>1. Rejected(i) \/ \E point \in Await \ {"none", "resolve"} : GoOn(i, c, point)
    BY DEF ThrowIfAborted, LoadSDK, Await
  <1>. QED BY <1>1, RejectedKeeps, GoOnKeeps

LEMMA CreationKeeps ==
  ASSUME FhevmInv, NEW i \in Slot, CreationStep(i)
  PROVE  FhevmInv'
  <1>. DEFINE c0 == creations[i]
  <1>0. /\ c0 \in Creation /\ UNCHANGED <<wallet, render, queued>>
        /\ c0.at \notin {"none", "resolve"} => c0.chain \in Chain
    BY DEF CreationStep, FhevmInv, FhevmTypes, ChainKnown
  <1>1. CASE Resolved(i)
    <2>1. PICK chain \in Chain :
            /\ c0.provider = wallet.now.provider /\ wallet.now.chain # NoChain
                 => chain = wallet.now.chain
            /\ LET c == [c0 EXCEPT !.chain = chain]
               IN IF chain \in MockChain THEN GoOn(i, c, "metadata") /\ UNCHANGED page
                  ELSE ThrowIfAborted(i, LoadSDK(i, c))
      BY <1>1 DEF Resolved
    <2>. DEFINE c == [c0 EXCEPT !.chain = chain]
    <2>2. /\ c \in Creation /\ c.provider = c0.provider /\ c.aborted = c0.aborted
          /\ c.chain = chain
      BY <1>0 DEF Creation
    <2>3. c0.at # "none"
      BY <1>1 DEF Resolved
    <2>4. GoOn(i, c, "metadata") \/ ThrowIfAborted(i, LoadSDK(i, c))
      BY <2>1
    <2>5. "metadata" \in Await \ {"none", "resolve"}
      BY DEF Await
    <2>. HIDE DEF c
    <2>. QED BY <1>0, <2>1, <2>2, <2>3, <2>4, <2>5, GoOnKeeps, LoadKeeps
  <1>2. CASE \E point \in Await \ {"none", "resolve"} :
               c0.at \notin {"none", "resolve"} /\ GoOn(i, c0, point)
    BY <1>0, <1>2, GoOnKeeps
  <1>3. CASE Rejected(i)
    BY <1>0, <1>3, RejectedKeeps
  <1>4. CASE MetadataFetched(i)
    <2>1. c0.at \notin {"none", "resolve"}
      BY <1>4 DEF MetadataFetched
    <2>2. CASE GoOn(i, c0, "mock")
      BY <1>2, <2>1, <2>2 DEF Await
    <2>3. CASE ThrowIfAborted(i, LoadSDK(i, c0))
      BY <1>0, <2>1, <2>3, LoadKeeps
    <2>. QED BY <1>4, <2>2, <2>3 DEF MetadataFetched
  <1>5. CASE ScriptSettled(i)
    BY <1>2, <1>3, <1>5 DEF ScriptSettled, Await
  <1>6. CASE SDKInitialized(i)
    BY <1>2, <1>3, <1>6 DEF SDKInitialized, Await
  <1>7. CASE KeysRead(i)
    BY <1>2, <1>3, <1>7 DEF KeysRead, Await
  <1>8. CASE InstanceCreated(i)
    BY <1>0, <1>8, FulfilledKeeps DEF InstanceCreated
  <1>9. CASE AwaitThrows(i)
    BY <1>3, <1>9 DEF AwaitThrows
  <1>. QED BY <1>1, <1>4, <1>5, <1>6, <1>7, <1>8, <1>9 DEF CreationStep

LEMMA FhevmInvHolds == FhevmSpec => []FhevmInv
  <1>1. FhevmInv /\ [FhevmNext]_fhevmVars => FhevmInv'
    <2>. SUFFICES ASSUME FhevmInv, [FhevmNext]_fhevmVars PROVE FhevmInv'
      OBVIOUS
    <2>1. CASE UNCHANGED fhevmVars
      BY <2>1
      DEF fhevmVars, FhevmInv, FhevmTypes, ChainKnown, InstanceShown,
          LiveCreationsAreCurrent, ProviderRefreshed, RunningUpToDate, SessionRuns,
          Rendered, Enabled, SessionIsForWallet, CreationsAreForWallet, Live
    <2>. QED BY <2>1, WalletKeeps, RenderKeeps, EffectsKeep, CreationKeeps
             DEF FhevmNext, React
  <1>. QED BY <1>1, FhevmInitInv, PTL DEF FhevmSpec
-----------------------------------------------------------------------------
\* Every variable keeps its type: without a session the page has no instance, and
\* a session that is ready has one (useFhevm.tsx).
THEOREM FhevmTypeCorrect == FhevmSpec => []FhevmTypeOK
  <1>1. FhevmInv => FhevmTypeOK
    BY DEF FhevmInv, FhevmTypes, InstanceShown, HookStates, Providers, Status, Effects,
           Creation, FhevmTypeOK
  <1>. QED BY <1>1, FhevmInvHolds, PTL

\* A creation that was not aborted is for the provider in the ref: the assertion
\* that useFhevm makes in its callbacks never fails (useFhevm.tsx:141-158).
THEOREM LiveCreationsAreCurrentHolds == FhevmSpec => []LiveCreationsAreCurrent
  <1>1. FhevmInv => LiveCreationsAreCurrent
    BY DEF FhevmInv
  <1>. QED BY <1>1, FhevmInvHolds, PTL

\* Once the page has caught up with the wallet, a session that is ready is for the
\* wallet's provider and chain, whatever answers came late.
THEOREM SessionFitsWalletHolds == FhevmSpec => []SessionFitsWallet
  <1>1. FhevmInv => SessionFitsWallet
    <2>. SUFFICES ASSUME FhevmInv, Quiet, hook.status = "ready"
                  PROVE  hook.instance = [provider |-> wallet.now.provider,
                                          chain |-> wallet.now.chain]
      BY DEF SessionFitsWallet
    <2>1. render.running /\ render.running = Enabled(wallet.now)
      BY DEF FhevmInv, SessionRuns, RunningUpToDate, Quiet
    <2>. QED BY <2>1 DEF FhevmInv, SessionIsForWallet, Rendered, Quiet
  <1>. QED BY <1>1, FhevmInvHolds, PTL
=============================================================================
