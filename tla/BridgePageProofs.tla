-------------------------- MODULE BridgePageProofs --------------------------
(***************************************************************************)
(* Of BridgePage, for every set of wallets and every number of clicks: its  *)
(* types, that the account on the page pays, and that the calls of one      *)
(* direction do not overlap.                                                *)
(***************************************************************************)
EXTENDS BridgePage, FiniteSetTheorems, TLAPS

Accounts == Account \cup {NoAccount}
Point == {"none", "prompt", "ended"} \cup EvmAwait \cup SolAwait
Call == [at : Point, account : Accounts, signer : Accounts, proof : Accounts,
         payer : Accounts, prompted : BOOLEAN]
EvmStates == [phase : {"idle", "encrypting", "complete"}, loading : BOOLEAN, timers : Nat]
SolStates == [phase : {"idle", "locking", "encrypting", "bridging"}, loading : BOOLEAN]

PageTypes ==
  /\ wallet \in [now : Wallet, changes : 0..MaxChanges] /\ shown \in Wallet
  /\ signer \in Wallet /\ session \in Provider \cup {NoProvider}
  /\ evm \in EvmStates /\ sol \in SolStates
  /\ calls \in [Click -> Call]

\* What a call has done by the await it is in: the input is encrypted for the
\* account before it is deposited, and nobody pays before that.
CallFits(c) ==
  /\ c.at = "none" => c = NoCall
  /\ c.at = "prompt" => c.prompted
  /\ c.at # "ended" => c.payer = NoAccount
  /\ c.at \in {"approve", "deposit"} => c.proof = c.account
  /\ c.at = "deposit" => c.signer # NoAccount
  /\ c.payer \in {NoAccount, c.account}
CallsFit == \A i \in Click : CallFits(calls[i])

\* The flag that disables the button is up while a call is in flight, so there is
\* one; a call that had to prompt for a wallet came by without the flag.
EvmFlag ==
  (\A i \in Click : ~calls[i].prompted) =>
    \A i \in Click : calls[i].at \in EvmAwait =>
      evm.loading /\ \A j \in Click : calls[j].at \in EvmAwait => i = j
SolFlag ==
  \A i \in Click : calls[i].at \in SolAwait =>
    sol.loading /\ \A j \in Click : calls[j].at \in SolAwait => i = j

Paid == {i \in Click : calls[i].payer # NoAccount}
TimersOfPaid == evm.timers <= Cardinality(Paid)

PageInv == PageTypes /\ CallsFit /\ EvmFlag /\ SolFlag /\ TimersOfPaid
-----------------------------------------------------------------------------
LEMMA WalletFields ==
  /\ \A w \in Wallet : w.account \in Accounts /\ w.provider \in Provider \cup {NoProvider}
  /\ Disconnected \in Wallet /\ NoAccount \in Accounts
  BY BridgePageAssumption DEF Accounts, Account, Provider, Disconnected

\* What the calls and the timers of bridge() make of its state.
LEMMA TimerFields ==
  ASSUME NEW n \in Nat, evm \in EvmStates,
         evm' = [evm EXCEPT !.phase = "idle", !.timers = n]
  PROVE  evm' \in EvmStates /\ evm'.loading = evm.loading /\ evm'.timers = n
  BY DEF EvmStates

LEMMA CaughtFields ==
  ASSUME evm \in EvmStates, Caught
  PROVE  evm' \in EvmStates /\ evm'.loading = FALSE /\ evm'.timers = evm.timers
  BY DEF EvmStates, Caught

LEMMA BeginsFields ==
  ASSUME evm \in EvmStates, evm' = [evm EXCEPT !.phase = "encrypting", !.loading = TRUE]
  PROVE  evm' \in EvmStates /\ evm'.loading = TRUE /\ evm'.timers = evm.timers
  BY DEF EvmStates

LEMMA ClickFinite == IsFiniteSet(Click)
  BY FS_Interval, BridgePageAssumption DEF Click

\* How the flags and the timers go with a call that moves.
Moves(i, c) ==
  /\ calls' = [calls EXCEPT ![i] = c]
  /\ UNCHANGED <<wallet, shown, signer, session>>
EvmGoesWith(i, c) ==
  /\ evm' \in EvmStates
  /\ c.at \in EvmAwait =>
       \/ calls[i].at \in EvmAwait /\ (evm'.loading = evm.loading)
       \/ evm'.loading /\ (~evm.loading \/ c.prompted)
  /\ c.at \notin EvmAwait => (evm'.loading = evm.loading) \/ calls[i].at \in EvmAwait
  /\ \/ evm'.timers = evm.timers
     \/ evm'.timers = evm.timers + 1 /\ c.payer # NoAccount
SolGoesWith(i, c) ==
  /\ sol' \in SolStates
  /\ c.at \in SolAwait => sol'.loading /\ (calls[i].at \in SolAwait \/ ~sol.loading)
  /\ c.at \notin SolAwait => (sol'.loading = sol.loading) \/ calls[i].at \in SolAwait

\* One call moves: the flags and the timers go with it.
LEMMA CallKeeps ==
  ASSUME PageInv, NEW i \in Click, NEW c \in Call,
         Moves(i, c), CallFits(c),
         EvmGoesWith(i, c), SolGoesWith(i, c),
         calls[i].prompted => c.prompted, calls[i].payer = NoAccount
  PROVE  PageInv'
  <1>1. /\ calls' \in [Click -> Call] /\ calls'[i] = c
        /\ \A j \in Click \ {i} : calls'[j] = calls[j]
    BY DEF PageInv, PageTypes, Moves
  <1>2. PageTypes'
    BY <1>1 DEF PageInv, PageTypes, Moves, EvmGoesWith, SolGoesWith
  <1>3. CallsFit'
    BY <1>1 DEF PageInv, CallsFit, CallFits
  <1>4. EvmFlag'
    <2>. SUFFICES ASSUME \A j \in Click : ~calls'[j].prompted,
                         NEW j \in Click, calls'[j].at \in EvmAwait
                  PROVE  /\ evm'.loading
                         /\ \A k \in Click : calls'[k].at \in EvmAwait => j = k
      BY DEF EvmFlag
    <2>1. ~c.prompted /\ \A k \in Click : ~calls[k].prompted
      BY <1>1
    <2>2. \A k \in Click : calls[k].at \in EvmAwait =>
            evm.loading /\ \A l \in Click : calls[l].at \in EvmAwait => k = l
      BY <2>1 DEF PageInv, EvmFlag
    <2>3. CASE c.at \in EvmAwait
      <3>1. \A k \in Click \ {i} : calls[k].at \notin EvmAwait
        BY <2>1, <2>2, <2>3 DEF EvmGoesWith
      <3>2. evm'.loading
        <4>1. CASE calls[i].at \in EvmAwait /\ (evm'.loading = evm.loading)
          BY <2>2, <4>1
        <4>2. CASE evm'.loading
          BY <4>2
        <4>. QED BY <2>3, <4>1, <4>2 DEF EvmGoesWith
      <3>. QED BY <1>1, <2>3, <3>1, <3>2
    <2>4. CASE c.at \notin EvmAwait
      <3>1. j # i /\ calls[j].at \in EvmAwait
        BY <1>1, <2>4
      <3>2. evm.loading /\ calls[i].at \notin EvmAwait
        BY <2>2, <3>1
      <3>. QED BY <1>1, <2>2, <2>4, <3>1, <3>2 DEF EvmGoesWith
    <2>. QED BY <2>3, <2>4
  <1>5. SolFlag'
    <2>. SUFFICES ASSUME NEW j \in Click, calls'[j].at \in SolAwait
                  PROVE  /\ sol'.loading
                         /\ \A k \in Click : calls'[k].at \in SolAwait => j = k
      BY DEF SolFlag
    <2>2. \A k \in Click : calls[k].at \in SolAwait =>
            sol.loading /\ \A l \in Click : calls[l].at \in SolAwait => k = l
      BY DEF PageInv, SolFlag
    <2>3. CASE c.at \in SolAwait
      <3>1. \A k \in Click \ {i} : calls[k].at \notin SolAwait
        BY <2>2, <2>3 DEF SolGoesWith
      <3>. QED BY <1>1, <2>3, <3>1 DEF SolGoesWith
    <2>4. CASE c.at \notin SolAwait
      <3>1. j # i /\ calls[j].at \in SolAwait
        BY <1>1, <2>4
      <3>2. sol.loading /\ calls[i].at \notin SolAwait
        BY <2>2, <3>1
      <3>. QED BY <1>1, <2>2, <2>4, <3>1, <3>2 DEF SolGoesWith
    <2>. QED BY <2>3, <2>4
  <1>6. TimersOfPaid'
    <2>1. i \notin Paid /\ IsFiniteSet(Paid)
      BY ClickFinite, FS_Subset DEF Paid
    <2>2. Paid' = IF c.payer # NoAccount THEN Paid \cup {i} ELSE Paid
      BY <1>1, <2>1 DEF Paid
    <2>3. /\ Cardinality(Paid) \in Nat
          /\ Cardinality(Paid \cup {i}) = Cardinality(Paid) + 1
      BY <2>1, FS_CardinalityType, FS_AddElement
    <2>4. evm.timers \in Nat /\ evm.timers <= Cardinality(Paid)
      BY DEF PageInv, PageTypes, EvmStates, TimersOfPaid
    <2>. QED BY <2>2, <2>3, <2>4 DEF TimersOfPaid, EvmGoesWith
  <1>. QED BY <1>2, <1>3, <1>4, <1>5, <1>6 DEF PageInv

\* Where no call moves and no flag is lowered, the invariant stays.
LEMMA NoCallMoves ==
  ASSUME PageInv, UNCHANGED <<calls, sol>>,
         wallet' \in [now : Wallet, changes : 0..MaxChanges], shown' \in Wallet,
         signer' \in Wallet, session' \in Provider \cup {NoProvider},
         evm' \in EvmStates, evm'.loading = evm.loading, evm'.timers <= evm.timers
  PROVE  PageInv'
  <1>1. PageTypes'
    BY DEF PageInv, PageTypes
  <1>2. CallsFit' /\ EvmFlag' /\ SolFlag'
    BY DEF PageInv, CallsFit, CallFits, EvmFlag, SolFlag
  <1>3. TimersOfPaid'
    <2>1. Paid' = Paid
      BY DEF Paid
    <2>2. Cardinality(Paid) \in Nat
      BY ClickFinite, FS_Subset, FS_CardinalityType DEF Paid
    <2>. QED BY <2>1, <2>2 DEF PageInv, PageTypes, EvmStates, TimersOfPaid
  <1>. QED BY <1>1, <1>2, <1>3 DEF PageInv
-----------------------------------------------------------------------------
LEMMA PageInitInv == PageInit => PageInv
  <1>. SUFFICES ASSUME PageInit PROVE PageInv
    OBVIOUS
  <1>1. NoCall \in Call /\ CallFits(NoCall) /\ NoCall.at = "none"
        /\ NoCall.payer = NoAccount
    BY DEF NoCall, Call, CallFits, Point, Accounts
  <1>2. \A i \in Click : calls[i] = NoCall
    BY DEF PageInit
  <1>3. PageTypes
    <2>1. calls \in [Click -> Call]
      BY <1>1 DEF PageInit
    <2>2. wallet \in [now : Wallet, changes : 0..MaxChanges] /\ shown \in Wallet
      BY BridgePageAssumption DEF PageInit
    <2>3. signer \in Wallet /\ session \in Provider \cup {NoProvider}
      BY WalletFields DEF PageInit
    <2>4. evm \in EvmStates /\ sol \in SolStates
      BY DEF PageInit, EvmStates, SolStates
    <2>. QED BY <2>1, <2>2, <2>3, <2>4 DEF PageTypes
  <1>4. CallsFit /\ EvmFlag /\ SolFlag
    BY <1>1, <1>2 DEF CallsFit, EvmFlag, SolFlag, EvmAwait, SolAwait
  <1>5. TimersOfPaid
    <2>1. Paid = {}
      BY <1>1, <1>2 DEF Paid
    <2>. QED BY <2>1, FS_EmptySet DEF TimersOfPaid, PageInit
  <1>. QED BY <1>3, <1>4, <1>5 DEF PageInv

LEMMA SurroundingsKeep ==
  ASSUME PageInv,
         WalletChanges \/ RenderWallet \/ RunEffects \/ SessionReady \/ Swap \/ TimerFires
  PROVE  PageInv'
  <1>0. PageTypes /\ evm.timers \in Nat
    BY DEF PageInv, PageTypes, EvmStates
  <1>. USE WalletFields
  <1>1. CASE WalletChanges
    <2>1. wallet' \in [now : Wallet, changes : 0..MaxChanges]
      BY <1>0, <1>1, BridgePageAssumption DEF WalletChanges, PageTypes
    <2>. QED BY <1>0, <1>1, <2>1, NoCallMoves DEF WalletChanges, PageTypes
  <1>2. CASE RenderWallet
    <2>1. shown' \in Wallet
      BY <1>0, <1>2 DEF RenderWallet, PageTypes
    <2>. QED BY <1>0, <1>2, <2>1, NoCallMoves DEF RenderWallet, PageTypes
  <1>3. CASE RunEffects
    <2>1. signer' \in Wallet /\ session' \in Provider \cup {NoProvider}
      BY <1>0, <1>3 DEF RunEffects, PageTypes
    <2>. QED BY <1>0, <1>3, <2>1, NoCallMoves DEF RunEffects, PageTypes
  <1>4. CASE SessionReady
    <2>1. session' \in Provider \cup {NoProvider}
      BY <1>0, <1>4 DEF SessionReady, PageTypes
    <2>. QED BY <1>0, <1>4, <2>1, NoCallMoves DEF SessionReady, PageTypes
  <1>5. CASE Swap
    BY <1>0, <1>5, NoCallMoves DEF Swap, PageTypes
  <1>6. CASE TimerFires
    <2>. DEFINE n == evm.timers - 1
    <2>2. n \in Nat /\ n <= evm.timers /\ evm \in EvmStates
      BY <1>0, <1>6 DEF TimerFires, PageTypes
    <2>3. evm' = [evm EXCEPT !.phase = "idle", !.timers = n]
      BY <1>6 DEF TimerFires
    <2>. HIDE DEF n
    <2>1. /\ evm' \in EvmStates /\ evm'.loading = evm.loading
          /\ evm'.timers <= evm.timers
      BY <2>2, <2>3, TimerFields
    <2>. QED BY <1>0, <1>6, <2>1, NoCallMoves DEF TimerFires, PageTypes
  <1>. QED BY <1>1, <1>2, <1>3, <1>4, <1>5, <1>6
-----------------------------------------------------------------------------
(***************************************************************************)
(* The calls.                                                               *)
(***************************************************************************)
LEMMA CallFields ==
  ASSUME PageInv, NEW i \in Click
  PROVE  /\ calls[i] \in Call /\ CallFits(calls[i])
         /\ evm \in EvmStates /\ sol \in SolStates
  BY DEF PageInv, PageTypes, CallsFit

\* A call goes on to another await, with what it has.
LEMMA Goes ==
  ASSUME NEW c \in Call, NEW point \in Point
  PROVE  LET d == [c EXCEPT !.at = point]
         IN /\ d \in Call /\ d.at = point /\ d.account = c.account
            /\ d.signer = c.signer /\ d.proof = c.proof /\ d.payer = c.payer
            /\ d.prompted = c.prompted
  BY DEF Call

LEMMA ThrowsKeeps ==
  ASSUME PageInv, NEW i \in Click, calls[i].at \in EvmAwait, Throws(i),
         UNCHANGED <<wallet, shown, due, signer, session, fromSol, sol>>
  PROVE  PageInv'
  <1>. DEFINE c == [calls[i] EXCEPT !.at = "ended"]
  <1>1. Moves(i, c)
    BY CallFields DEF Throws, Goto, Moves
  <1>2. /\ c \in Call /\ c.at = "ended" /\ c.payer = calls[i].payer
        /\ c.account = calls[i].account /\ c.prompted = calls[i].prompted
    BY Goes, CallFields DEF Point
  <1>3. evm' \in EvmStates /\ evm'.loading = FALSE /\ evm'.timers = evm.timers
    BY CaughtFields, CallFields DEF Throws
  <1>. HIDE DEF c
  <1>4. CallFits(c) /\ calls[i].payer = NoAccount
    BY <1>2, CallFields DEF CallFits, EvmAwait
  <1>5. EvmGoesWith(i, c) /\ SolGoesWith(i, c)
    BY <1>2, <1>3, CallFields DEF EvmGoesWith, SolGoesWith, EvmAwait, SolAwait
  <1>. QED BY <1>1, <1>2, <1>4, <1>5, CallKeeps

LEMMA ClickEvmKeeps ==
  ASSUME PageInv, NEW i \in Click, ClickEvm(i)
  PROVE  PageInv'
  <1>. DEFINE c == [NoCall EXCEPT !.account = shown.account, !.signer = signer.account]
              e == [c EXCEPT !.at = "encrypt"]
              p == [c EXCEPT !.at = "prompt", !.prompted = TRUE]
  <1>1. calls[i].payer = NoAccount /\ ~calls[i].prompted /\ ~evm.loading
        /\ calls[i].at = "none"
    BY CallFields DEF ClickEvm, Unused, CallFits, NoCall
  <1>2. shown.account \in Accounts /\ signer.account \in Accounts
    BY WalletFields DEF PageInv, PageTypes
  <1>3. /\ e \in Call /\ e.at = "encrypt" /\ CallFits(e)
        /\ p \in Call /\ p.at = "prompt" /\ CallFits(p) /\ p.prompted
    BY <1>2 DEF NoCall, Call, CallFits, Point, EvmAwait, Accounts
  <1>4. \/ /\ Moves(i, e)
           /\ evm' = [evm EXCEPT !.phase = "encrypting", !.loading = TRUE]
        \/ Moves(i, p) /\ UNCHANGED evm
    BY DEF ClickEvm, Moves
  <1>5. UNCHANGED <<wallet, shown, signer, session, sol>>
    BY DEF ClickEvm
  <1>. HIDE DEF c, e, p
  <1>6. CASE /\ Moves(i, e)
             /\ evm' = [evm EXCEPT !.phase = "encrypting", !.loading = TRUE]
    <2>1. evm' \in EvmStates /\ evm'.loading /\ evm'.timers = evm.timers
      BY <1>6, BeginsFields, CallFields
    <2>2. EvmGoesWith(i, e) /\ SolGoesWith(i, e)
      BY <1>1, <1>3, <1>5, <2>1, CallFields
      DEF EvmGoesWith, SolGoesWith, EvmAwait, SolAwait
    <2>. QED BY <1>1, <1>3, <1>6, <2>2, CallKeeps
  <1>7. CASE Moves(i, p) /\ UNCHANGED evm
    <2>1. EvmGoesWith(i, p) /\ SolGoesWith(i, p)
      BY <1>1, <1>3, <1>5, <1>7, CallFields
      DEF EvmGoesWith, SolGoesWith, EvmAwait, SolAwait
    <2>. QED BY <1>1, <1>3, <1>7, <2>1, CallKeeps
  <1>. QED BY <1>4, <1>6, <1>7

LEMMA PromptedKeeps ==
  ASSUME PageInv, NEW i \in Click, PromptAnswered(i)
  PROVE  PageInv'
  <1>1. PICK point \in {"ended", "encrypt"} :
          /\ Moves(i, [calls[i] EXCEPT !.at = point])
          /\ IF point = "encrypt"
             THEN evm' = [evm EXCEPT !.phase = "encrypting", !.loading = TRUE]
             ELSE UNCHANGED evm
    BY CallFields DEF PromptAnswered, Prompted, Goto, Moves
  <1>. DEFINE c == [calls[i] EXCEPT !.at = point]
  <1>2. /\ c \in Call /\ c.at = point /\ c.payer = calls[i].payer
        /\ c.account = calls[i].account /\ c.prompted = calls[i].prompted
    BY Goes, CallFields DEF Point, EvmAwait
  <1>. HIDE DEF c
  <1>3. /\ calls[i].at = "prompt" /\ calls[i].prompted /\ calls[i].payer = NoAccount
        /\ UNCHANGED <<wallet, shown, signer, session, sol>>
    BY CallFields DEF PromptAnswered, Prompted, CallFits
  <1>4. CallFits(c)
    BY <1>2, <1>3 DEF CallFits
  <1>5. /\ evm' \in EvmStates /\ evm'.timers = evm.timers
        /\ IF point = "encrypt" THEN evm'.loading ELSE evm' = evm
    BY <1>1, BeginsFields, CallFields
  <1>6. EvmGoesWith(i, c) /\ SolGoesWith(i, c)
    BY <1>2, <1>3, <1>5, CallFields
    DEF EvmGoesWith, SolGoesWith, EvmAwait, SolAwait
  <1>7. Moves(i, c)
    BY <1>1 DEF c
  <1>. QED BY <1>2, <1>3, <1>4, <1>6, <1>7, CallKeeps

\* An answer to a call of bridge() leaves the other direction alone.
LEMMA EvmCallGoes ==
  ASSUME PageInv, NEW i \in Click, calls[i].at \in EvmAwait, UNCHANGED sol,
         NEW c \in Call, Moves(i, c), EvmGoesWith(i, c), CallFits(c),
         c.prompted = calls[i].prompted, c.at \notin SolAwait
  PROVE  PageInv'
  <1>1. calls[i].payer = NoAccount
    BY CallFields DEF CallFits, EvmAwait
  <1>2. SolGoesWith(i, c)
    BY CallFields DEF SolGoesWith
  <1>. QED BY <1>1, <1>2, CallKeeps

LEMMA AnswersEvmKeeps ==
  ASSUME PageInv, NEW i \in Click, AnswersEvm(i)
  PROVE  PageInv'
  <1>0. /\ calls[i].at \in EvmAwait /\ calls[i].payer = NoAccount
        /\ UNCHANGED <<wallet, shown, due, signer, session, fromSol, sol>>
    BY CallFields DEF AnswersEvm, Encrypt, Approve, Deposit, EvmAwait, CallFits
  <1>1. CASE Throws(i)
    BY <1>0, <1>1, ThrowsKeeps
  <1>2. CASE Encrypt(i) /\ ~Throws(i)
    <2>. DEFINE c == [calls[i] EXCEPT !.at = "approve", !.proof = calls[i].account]
    <2>1. Moves(i, c) /\ UNCHANGED evm
      BY <1>0, <1>2, CallFields DEF Encrypt, Moves
    <2>2. /\ c \in Call /\ c.at = "approve" /\ c.proof = calls[i].account
          /\ c.account = calls[i].account /\ c.payer = calls[i].payer
          /\ c.prompted = calls[i].prompted
      BY CallFields DEF Call, Point, EvmAwait
    <2>. HIDE DEF c
    <2>3. CallFits(c) /\ c.at \notin SolAwait
      BY <1>0, <2>2 DEF CallFits, SolAwait
    <2>4. EvmGoesWith(i, c)
      BY <1>0, <2>1, <2>2, CallFields DEF EvmGoesWith
    <2>. QED BY <1>0, <2>1, <2>2, <2>3, <2>4, EvmCallGoes
  <1>3. CASE Approve(i) /\ ~Throws(i)
    <2>. DEFINE c == [calls[i] EXCEPT !.at = "deposit"]
    <2>1. /\ Moves(i, c) /\ UNCHANGED evm
          /\ calls[i].at = "approve" /\ calls[i].signer # NoAccount
      BY <1>0, <1>3, CallFields DEF Approve, Goto, Moves
    <2>2. /\ c \in Call /\ c.at = "deposit" /\ c.proof = calls[i].proof
          /\ c.account = calls[i].account /\ c.payer = calls[i].payer
          /\ c.prompted = calls[i].prompted /\ c.signer = calls[i].signer
      BY Goes, CallFields DEF Point, EvmAwait
    <2>. HIDE DEF c
    <2>3. CallFits(c) /\ c.at \notin SolAwait
      BY <1>0, <2>1, <2>2, CallFields DEF CallFits, SolAwait
    <2>4. EvmGoesWith(i, c)
      BY <1>0, <2>1, <2>2, CallFields DEF EvmGoesWith
    <2>. QED BY <1>0, <2>1, <2>2, <2>3, <2>4, EvmCallGoes
  <1>4. CASE Deposit(i) /\ ~Throws(i)
    <2>. DEFINE c == [calls[i] EXCEPT !.at = "ended", !.payer = calls[i].signer]
    <2>1. /\ Moves(i, c)
          /\ \/ evm' = [phase |-> "complete", loading |-> FALSE, timers |-> evm.timers + 1]
             \/ Caught
          /\ calls[i].at = "deposit" /\ calls[i].proof = calls[i].signer
      BY <1>0, <1>4, CallFields DEF Deposit, Moves
    <2>2. /\ c \in Call /\ c.at = "ended" /\ c.account = calls[i].account
          /\ c.payer = calls[i].signer /\ c.prompted = calls[i].prompted
      BY CallFields DEF Call, Point
    <2>. HIDE DEF c
    <2>3. /\ CallFits(c) /\ c.payer # NoAccount
          /\ c.at \notin SolAwait /\ c.at \notin EvmAwait
      BY <2>1, <2>2, CallFields DEF CallFits, SolAwait, EvmAwait
    <2>4. EvmGoesWith(i, c)
      <3>0. evm.timers \in Nat
        BY CallFields DEF EvmStates
      <3>. DEFINE n == evm.timers + 1
      <3>2. n \in Nat
        BY <3>0
      <3>. HIDE DEF n
      <3>1. evm' \in EvmStates /\ evm'.timers \in {evm.timers, n}
        <4>1. CASE evm' = [phase |-> "complete", loading |-> FALSE, timers |-> n]
          BY <3>2, <4>1 DEF EvmStates
        <4>2. CASE Caught
          BY <4>2, CallFields, CaughtFields
        <4>. QED BY <2>1, <4>1, <4>2 DEF n
      <3>. QED BY <1>0, <2>3, <3>1 DEF EvmGoesWith, n
    <2>. QED BY <1>0, <2>1, <2>2, <2>3, <2>4, EvmCallGoes
  <1>. QED BY <1>1, <1>2, <1>3, <1>4 DEF AnswersEvm

\* initiate(): its steps leave the other direction alone.
LEMMA SolCallGoes ==
  ASSUME PageInv, NEW i \in Click, calls[i].at \in SolAwait \cup {"none"}, UNCHANGED evm,
         NEW point \in SolAwait \cup {"ended"}, Goto(i, point),
         UNCHANGED <<wallet, shown, signer, session>>, sol' \in SolStates,
         point \in SolAwait =>
           sol'.loading /\ (calls[i].at \in SolAwait \/ ~sol.loading),
         point = "ended" => calls[i].at \in SolAwait
  PROVE  PageInv'
  <1>. DEFINE c == [calls[i] EXCEPT !.at = point]
  <1>1. Moves(i, c)
    BY CallFields DEF Goto, Moves
  <1>2. /\ c \in Call /\ c.at = point /\ c.payer = calls[i].payer
        /\ c.account = calls[i].account /\ c.prompted = calls[i].prompted
    BY Goes, CallFields DEF Point
  <1>. HIDE DEF c
  <1>3. calls[i].payer = NoAccount
    BY CallFields DEF CallFits, SolAwait
  <1>4. CallFits(c)
    BY <1>2, <1>3 DEF CallFits, SolAwait
  <1>5. EvmGoesWith(i, c) /\ SolGoesWith(i, c)
    BY <1>2, CallFields DEF EvmGoesWith, SolGoesWith, EvmAwait, SolAwait
  <1>. QED BY <1>1, <1>2, <1>3, <1>4, <1>5, CallKeeps

LEMMA SolKeeps ==
  ASSUME PageInv, NEW i \in Click, ClickSol(i) \/ AnswersSol(i)
  PROVE  PageInv'
  <1>0. sol \in SolStates
    BY CallFields
  <1>1. CASE ClickSol(i)
    <2>1. sol' \in SolStates /\ sol'.loading
      BY <1>1 DEF ClickSol, SolStates
    <2>2. calls[i].at = "none"
      BY <1>1 DEF ClickSol, Unused
    <2>. QED BY <1>1, <2>1, <2>2, SolCallGoes DEF ClickSol, SolAwait
  <1>2. ASSUME ThrowsSol(i), calls[i].at \in SolAwait,
               UNCHANGED <<wallet, shown, due, signer, session, fromSol, evm>>
        PROVE  PageInv'
    <2>1. sol' \in SolStates
      BY <1>0, <1>2 DEF ThrowsSol, SolStates
    <2>. QED BY <1>2, <2>1, SolCallGoes DEF ThrowsSol, SolAwait
  <1>3. CASE AnswersSol(i)
    <2>1. /\ calls[i].at \in SolAwait
          /\ UNCHANGED <<wallet, shown, due, signer, session, fromSol, evm>>
      BY <1>3 DEF AnswersSol, LookUpAccounts, Simulate, Send, SolAwait
    <2>2. sol.loading
      BY <2>1 DEF PageInv, SolFlag
    <2>3. CASE LookUpAccounts(i) /\ ~ThrowsSol(i)
      <3>1. sol' \in SolStates /\ sol'.loading
        BY <1>0, <2>2, <2>3 DEF LookUpAccounts, SolStates
      <3>. QED BY <2>1, <2>3, <3>1, SolCallGoes DEF LookUpAccounts, SolAwait
    <2>4. CASE Simulate(i) /\ ~ThrowsSol(i)
      BY <1>0, <2>1, <2>2, <2>4, SolCallGoes DEF Simulate, SolAwait
    <2>5. CASE Send(i) /\ ~ThrowsSol(i)
      <3>0. sol' = [phase |-> "bridging", loading |-> FALSE]
        BY <2>5 DEF Send
      <3>1. sol' \in SolStates
        BY <3>0 DEF SolStates
      <3>. QED BY <2>1, <2>5, <3>1, SolCallGoes DEF Send, SolAwait
    <2>. QED BY <1>2, <1>3, <2>1, <2>3, <2>4, <2>5 DEF AnswersSol
  <1>. QED BY <1>1, <1>3

LEMMA PageInvHolds == PageSpec => []PageInv
  <1>1. PageInv /\ [PageNext]_pageVars => PageInv'
    <2>. SUFFICES ASSUME PageInv, [PageNext]_pageVars PROVE PageInv'
      OBVIOUS
    <2>1. CASE UNCHANGED pageVars
      BY <2>1
      DEF pageVars, PageInv, PageTypes, CallsFit, EvmFlag, SolFlag, TimersOfPaid, Paid
    <2>. QED BY <2>1, SurroundingsKeep, ClickEvmKeeps, PromptedKeeps, AnswersEvmKeeps,
                SolKeeps DEF PageNext
  <1>. QED BY <1>1, PageInitInv, PTL DEF PageSpec
-----------------------------------------------------------------------------
\* Every variable keeps its type, and there are never more timers running than
\* calls that were paid (useEvmBridge).
THEOREM PageTypeCorrect == PageSpec => []PageTypeOK
  <1>1. PageInv => PageTypeOK
    BY DEF PageInv, PageTypes, EvmStates, SolStates, TimersOfPaid, Paid, Call, Point,
           PageTypeOK
  <1>. QED BY <1>1, PageInvHolds, PTL

\* Who pays a deposit is the account the page showed when it was clicked, whatever
\* the wallet changed to since and whoever's signer is still kept.
THEOREM PaidByTheClickerHolds == PageSpec => []PaidByTheClicker
  <1>1. PageInv => PaidByTheClicker
    BY DEF PageInv, CallsFit, CallFits, PaidByTheClicker
  <1>. QED BY <1>1, PageInvHolds, PTL

\* No clicks, swaps, late answers or timers bring two calls of one direction about,
\* unless one of them had to ask for a wallet first.
THEOREM OneInFlightHolds == PageSpec => []OneInFlight
  <1>1. ASSUME NEW S \in SUBSET Click, \A i, j \in S : i = j
        PROVE  Cardinality(S) <= 1
    <2>1. CASE S = {}
      BY <2>1, FS_EmptySet
    <2>2. CASE S # {}
      <3>1. PICK i \in S : S = {i}
        BY <1>1, <2>2
      <3>. QED BY <3>1, FS_Singleton
    <2>. QED BY <2>1, <2>2
  <1>2. PageInv => OneInFlight
    <2>. SUFFICES ASSUME PageInv PROVE OneInFlight
      OBVIOUS
    <2>. DEFINE Evm == {i \in Click : calls[i].at \in EvmAwait}
                Sol == {i \in Click : calls[i].at \in SolAwait}
    <2>1. ASSUME \A i \in Click : ~calls[i].prompted PROVE \A i, j \in Evm : i = j
      BY <2>1 DEF PageInv, EvmFlag
    <2>2. \A i, j \in Sol : i = j
      BY DEF PageInv, SolFlag
    <2>3. Evm \in SUBSET Click /\ Sol \in SUBSET Click
      OBVIOUS
    <2>. HIDE DEF Evm, Sol
    <2>4. (\A i \in Click : ~calls[i].prompted) => Cardinality(Evm) <= 1
      BY <1>1, <2>1, <2>3
    <2>5. Cardinality(Sol) <= 1
      BY <1>1, <2>2, <2>3
    <2>. QED BY <2>4, <2>5 DEF OneInFlight, Evm, Sol
  <1>. QED BY <1>2, PageInvHolds, PTL
=============================================================================
