----------------------------- MODULE BridgePage -----------------------------
(***************************************************************************)
(* The bridge page (frontend): the wallet's account and the signer made for *)
(* it, the two hooks that bridge (useEvmBridge, useSolanaInitiateReown) and *)
(* the button that calls one of them.                                       *)
(*                                                                          *)
(* A call sees the values of the render it was clicked in, however the      *)
(* wallet changes while it waits.  Steps are the code between two awaits.   *)
(* A state update made by an effect or a call is rendered before the page   *)
(* hands out its next event; that effects run after the render which made   *)
(* them due is kept.  Only Sepolia has a token configuration, so the        *)
(* network is the right one wherever the button is enabled.                 *)
(***************************************************************************)
EXTENDS Integers, FiniteSets

CONSTANTS
  Wallet,      \* what the wallet can offer: records of account and provider
  NoAccount, NoProvider,
  MaxClicks,   \* bound on calls
  MaxChanges   \* of the wallet

Disconnected == [account |-> NoAccount, provider |-> NoProvider]
Account == {w.account : w \in Wallet \ {Disconnected}}
Provider == {w.provider : w \in Wallet \ {Disconnected}}

ASSUME BridgePageAssumption ==
  /\ Disconnected \in Wallet
  /\ NoAccount \notin Account /\ NoProvider \notin Provider
  /\ MaxClicks \in Nat \ {0} /\ MaxChanges \in Nat

VARIABLES
  wallet,   \* what the wallet offers now, and how often it changed
  shown,    \* what was rendered last
  due,      \* whether the effects of that render have yet to run
  signer,   \* useReownEthersSigner: ethersSignerRef, walletProviderRef
  session,  \* useFhevm: the provider its instance is ready for
  fromSol,  \* useBridgeRoute
  evm,      \* useEvmBridge: phase, loading, the timers that will reset the phase
  sol,      \* useSolanaInitiateReown: phase, loading
  calls     \* calls[i]: the i-th call

pageVars == <<wallet, shown, due, signer, session, fromSol, evm, sol, calls>>
-----------------------------------------------------------------------------
Click == 1..MaxClicks
\* The await a call is in.
EvmAwait == {"encrypt", "approve", "deposit"}
SolAwait == {"lookup", "simulate", "send"}
NoCall == [at |-> "none", account |-> NoAccount, signer |-> NoAccount,
           proof |-> NoAccount, payer |-> NoAccount, prompted |-> FALSE]

PageInit ==
  /\ \E w \in Wallet : wallet = [now |-> w, changes |-> 0] /\ shown = w
  /\ due = TRUE
  /\ signer = Disconnected
  /\ session = NoProvider
  /\ fromSol = TRUE
  /\ evm = [phase |-> "idle", loading |-> FALSE, timers |-> 0]
  /\ sol = [phase |-> "idle", loading |-> FALSE]
  /\ calls = [i \in Click |-> NoCall]

-----------------------------------------------------------------------------
(* The wallet, its signer and the route *)

WalletChanges ==
  /\ wallet.changes < MaxChanges
  /\ \E w \in Wallet \ {wallet.now} :
       wallet' = [now |-> w, changes |-> wallet.changes + 1]
  /\ UNCHANGED <<shown, due, signer, session, fromSol, evm, sol, calls>>

RenderWallet ==
  /\ ~due /\ shown # wallet.now
  /\ shown' = wallet.now /\ due' = TRUE
  /\ UNCHANGED <<wallet, signer, session, fromSol, evm, sol, calls>>

\* The signer is made once per provider: an account that changes behind the same
\* provider leaves it as it is.  The session goes with its provider.
RunEffects ==
  /\ due /\ due' = FALSE
  /\ signer' = IF shown.account = NoAccount \/ signer.provider # shown.provider
               THEN shown ELSE signer
  /\ session' = IF session = shown.provider THEN session ELSE NoProvider
  /\ UNCHANGED <<wallet, shown, fromSol, evm, sol, calls>>

\* What useFhevm does until it is ready is module Fhevm's.
SessionReady ==
  /\ ~due /\ session # shown.provider
  /\ session' = shown.provider
  /\ UNCHANGED <<wallet, shown, due, signer, fromSol, evm, sol, calls>>

\* The chains are swapped; the button does it whatever is going on.
Swap ==
  /\ fromSol' = ~fromSol
  /\ UNCHANGED <<wallet, shown, due, signer, session, evm, sol, calls>>
-----------------------------------------------------------------------------
(* The button; the inputs are valid.  An overlay covers it and does not disable it. *)

Unused(i) == calls[i].at = "none" /\ \A j \in 1..(i - 1) : calls[j].at # "none"
Goto(i, point) == calls' = [calls EXCEPT ![i].at = point]

\* A call of bridge(): without account or signer it asks the wallet first, and
\* shows nothing meanwhile.
ClickEvm(i) ==
  LET c == [NoCall EXCEPT !.account = shown.account, !.signer = signer.account]
      connected == shown.account # NoAccount /\ signer.account # NoAccount
  IN /\ Unused(i) /\ ~fromSol /\ ~evm.loading /\ session # NoProvider
     /\ IF connected
        THEN /\ calls' = [calls EXCEPT ![i] = [c EXCEPT !.at = "encrypt"]]
             /\ evm' = [evm EXCEPT !.phase = "encrypting", !.loading = TRUE]
        ELSE /\ calls' = [calls EXCEPT ![i] = [c EXCEPT !.at = "prompt", !.prompted = TRUE]]
             /\ UNCHANGED evm
     /\ UNCHANGED <<wallet, shown, due, signer, session, fromSol, sol>>

\* Mutant: a call of initiate is kept away by the other direction's flag.
ClickSolAnyway(i) ==
  /\ Unused(i) /\ fromSol /\ ~evm.loading
  /\ Goto(i, "lookup")
  /\ sol' = [phase |-> "locking", loading |-> TRUE]
  /\ UNCHANGED <<wallet, shown, due, signer, session, fromSol, evm>>

\* A call of initiate(), with a Solana wallet.
ClickSol(i) ==
  /\ Unused(i) /\ fromSol /\ ~sol.loading
  /\ Goto(i, "lookup")
  /\ sol' = [phase |-> "locking", loading |-> TRUE]
  /\ UNCHANGED <<wallet, shown, due, signer, session, fromSol, evm>>
-----------------------------------------------------------------------------
(* bridge(): each step goes on or throws *)

\* Mutant: the page stays in the phase it failed in.
CaughtInPhase == evm' = [evm EXCEPT !.loading = FALSE]

\* Mutant: the timer is set however the call ended.
CaughtWithTimer ==
  evm' = [phase |-> "complete", loading |-> FALSE, timers |-> evm.timers + 1]

Caught == evm' = [evm EXCEPT !.phase = "idle", !.loading = FALSE]
Throws(i) == Goto(i, "ended") /\ Caught

\* The prompt is answered, and the call goes on with what it was clicked with.
Prompted(i) ==
  /\ calls[i].at = "prompt"
  /\ \/ Goto(i, "ended") /\ UNCHANGED evm
     \/ /\ Goto(i, "encrypt")
        /\ evm' = [evm EXCEPT !.phase = "encrypting", !.loading = TRUE]

\* Mutant: the input is encrypted for the account that signs.
EncryptForSigner(i) ==
  /\ calls[i].at = "encrypt"
  /\ \/ /\ calls' = [calls EXCEPT ![i].at = "approve", ![i].proof = calls[i].signer]
        /\ UNCHANGED evm
     \/ Throws(i)

\* encryptSolanaDestination binds the input to the account.
Encrypt(i) ==
  /\ calls[i].at = "encrypt"
  /\ \/ /\ calls[i].account # NoAccount
        /\ calls' = [calls EXCEPT ![i].at = "approve", ![i].proof = calls[i].account]
        /\ UNCHANGED evm
     \/ Throws(i)

\* The allowance is read, and raised where it is too low.
Approve(i) ==
  /\ calls[i].at = "approve"
  /\ \/ calls[i].signer # NoAccount /\ Goto(i, "deposit") /\ UNCHANGED evm
     \/ Throws(i)

\* initiateBridge, signed by the signer: the contract takes an input encrypted for
\* its sender only.  The wait for a transaction that was mined can throw as well.
Deposit(i) ==
  LET mined == [calls EXCEPT ![i].at = "ended", ![i].payer = calls[i].signer]
  IN /\ calls[i].at = "deposit"
     /\ \/ /\ calls[i].proof = calls[i].signer
           /\ calls' = mined
           /\ \/ evm' = [phase |-> "complete", loading |-> FALSE, timers |-> evm.timers + 1]
              \/ Caught
        \/ Throws(i)

\* Two and a half seconds after a call was complete.
TimerFires ==
  /\ evm.timers > 0
  /\ evm' = [evm EXCEPT !.phase = "idle", !.timers = @ - 1]
  /\ UNCHANGED <<wallet, shown, due, signer, session, fromSol, sol, calls>>

AnswersEvm(i) ==
  /\ Encrypt(i) \/ Approve(i) \/ Deposit(i)
  /\ UNCHANGED <<wallet, shown, due, signer, session, fromSol, sol>>
PromptAnswered(i) ==
  /\ Prompted(i)
  /\ UNCHANGED <<wallet, shown, due, signer, session, fromSol, sol>>
-----------------------------------------------------------------------------
(* initiate(): the phase it throws in stays *)

ThrowsSol(i) == Goto(i, "ended") /\ sol' = [sol EXCEPT !.loading = FALSE]

LookUpAccounts(i) ==
  /\ calls[i].at = "lookup"
  /\ \/ Goto(i, "simulate") /\ sol' = [sol EXCEPT !.phase = "encrypting"]
     \/ ThrowsSol(i)

Simulate(i) ==
  /\ calls[i].at = "simulate"
  /\ \/ Goto(i, "send") /\ UNCHANGED sol
     \/ ThrowsSol(i)

Send(i) ==
  /\ calls[i].at = "send"
  /\ \/ Goto(i, "ended") /\ sol' = [phase |-> "bridging", loading |-> FALSE]
     \/ ThrowsSol(i)

AnswersSol(i) ==
  /\ LookUpAccounts(i) \/ Simulate(i) \/ Send(i)
  /\ UNCHANGED <<wallet, shown, due, signer, session, fromSol, evm>>
-----------------------------------------------------------------------------
PageNext ==
  \/ WalletChanges \/ RenderWallet \/ RunEffects \/ SessionReady \/ Swap \/ TimerFires
  \/ \E i \in Click :
       ClickEvm(i) \/ ClickSol(i) \/ PromptAnswered(i) \/ AnswersEvm(i) \/ AnswersSol(i)

\* Chains and the wallet's dialogs answer or fail; timers fire.
PageFairness ==
  /\ WF_pageVars(TimerFires)
  /\ \A i \in Click : WF_pageVars(AnswersEvm(i)) /\ WF_pageVars(AnswersSol(i))
PageSpec == PageInit /\ [][PageNext]_pageVars /\ PageFairness
-----------------------------------------------------------------------------
(* Properties *)

\* Every variable has its type, and a timer belongs to a call that is complete.
PageTypeOK ==
  /\ wallet \in [now : Wallet, changes : 0..MaxChanges] /\ shown \in Wallet
  /\ signer \in Wallet /\ session \in Provider \cup {NoProvider}
  /\ evm.phase \in {"idle", "encrypting", "complete"}
  /\ sol.phase \in {"idle", "locking", "encrypting", "bridging"}
  /\ evm.timers <= Cardinality({i \in Click : calls[i].payer # NoAccount})
  /\ \A i \in Click :
       calls[i].at \in {"none", "prompt", "ended"} \cup EvmAwait \cup SolAwait

\* A deposit is paid by the account the page showed when the button was clicked,
\* although the transaction is signed by a signer that may be an earlier account's.
PaidByTheClicker ==
  \A i \in Click : calls[i].payer \in {NoAccount, calls[i].account}

\* One call of a direction at a time: a second click, a swap to the other
\* direction and back, or the timer of an earlier call never let a second deposit
\* start beside the first, where no call had to prompt for a wallet.
OneInFlight ==
  /\ (\A i \in Click : ~calls[i].prompted)
       => Cardinality({i \in Click : calls[i].at \in EvmAwait}) <= 1
  /\ Cardinality({i \in Click : calls[i].at \in SolAwait}) <= 1

\* However a call ends, the overlay of bridge() is lifted and the button comes back,
\* in both directions.
PageComesBack ==
  /\ evm.phase = "encrypting" ~> evm.phase # "encrypting"
  /\ evm.loading ~> ~evm.loading
  /\ sol.loading ~> ~sol.loading
=============================================================================
