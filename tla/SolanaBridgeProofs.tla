------------------------- MODULE SolanaBridgeProofs -------------------------
(***************************************************************************)
(* Theorems about the Solana program, for every set of accounts, mints and  *)
(* ids, every configuration (none of whose values the program checks) and   *)
(* every bound.                                                             *)
(*                                                                          *)
(* The invariants are proved from one inductive invariant: bonds add up     *)
(* only because an unclaimed request holds none, the payout is made once    *)
(* only because a paid request is unclaimed (RequestTableOK), and no part   *)
(* makes sense before the arithmetic does (TypeOK).                         *)
(***************************************************************************)
EXTENDS SolanaBridge, BridgeLemmas

SafetyInv == RequestTableOK /\ PayoutExact /\ BondAccounted

IInv == TypeOK /\ SafetyInv /\ ClosedIsEmpty

requestVars == <<requests, ledger>>
-----------------------------------------------------------------------------
(***************************************************************************)
(* The values a step computes.                                              *)
(***************************************************************************)

\* Whatever the configuration, fee and remainder of a deposit make up the deposit:
\* the subtraction never saturates, also where the deposit is 0.
LEMMA FeeParts ==
  ASSUME TypeOK, NEW amount \in Nat
  PROVE  /\ Fee(amount) \in Nat
         /\ SaturatingSub(amount, Fee(amount)) \in Nat
         /\ SaturatingSub(amount, Fee(amount)) + Fee(amount) = amount
  <1>. DEFINE cfg == [feePercentage |-> config.fee_bps, minFee |-> config.min_fee,
                      maxFee |-> config.max_fee]
  <1>1. FeeConfig(cfg)
    BY DEF TypeOK, BridgeConfig, FeeConfig
  <1>2. CalculateFee(cfg, amount) \in Nat /\ CalculateFee(cfg, amount) <= amount
    <2>1. CASE amount = 0
      <3>1. ClampedFee(cfg, amount) \in Nat
        BY <1>1, ClampedFeeBounds
      <3>2. CalculateFee(cfg, amount) = 0
        BY <2>1, <3>1 DEF CalculateFee
      <3>3. QED
        BY <2>1, <3>2
    <2>2. CASE amount # 0
      BY <1>1, <2>2, FeeLeavesRemainder
    <2>3. QED
      BY <2>1, <2>2
  <1>3. Fee(amount) = CalculateFee(cfg, amount)
    BY DEF Fee
  <1>4. QED
    BY <1>2, <1>3 DEF SaturatingSub

\* What a release forfeits and what it returns make up the bond: the checked
\* subtraction stands in for a check of slash_bps.
LEMMA SlashParts ==
  ASSUME TypeOK, NEW k \in RequestKey, SlashFits(k)
  PROVE  /\ requests[k].bond_lamports \in Nat
         /\ Slashed(k) \in Nat
         /\ requests[k].bond_lamports - Slashed(k) \in Nat
  <1>1. requests[k].bond_lamports \in Nat /\ config.slash_bps \in Nat
    BY DEF TypeOK, BridgeRequest, BridgeConfig
  <1>2. Slashed(k) \in Nat
    BY <1>1, ProductType, BpsDivision DEF Slashed, SlashAmount
  <1>3. QED
    BY <1>1, <1>2 DEF SlashFits

\* A request account's address names an id.
LEMMA KeyParts == \A k \in RequestKey : k[1] \in Payer /\ k[2] \in Id
  BY DEF RequestKey
-----------------------------------------------------------------------------
(***************************************************************************)
(* Type correctness.                                                        *)
(***************************************************************************)

LEMMA TypeInit == Init => TypeOK
  <1>. SUFFICES ASSUME Init PROVE TypeOK
    OBVIOUS
  <1>1. NoConfig \in BridgeConfig /\ NoRequest \in BridgeRequest /\ NoLedger \in Ledger
    BY KeyAssumption
    DEF NoConfig, BridgeConfig, NoRequest, BridgeRequest, NoLedger, Ledger
  <1>2. QED
    BY <1>1 DEF Init, TypeOK

LEMMA TypeConfig == TypeOK /\ ConfigNext => TypeOK'
  <1>. SUFFICES ASSUME TypeOK, NEW s \in Settings,
                       NEW o \in Owner, InitConfig(o, s) \/ SetConfig(s)
                PROVE  TypeOK'
    <2>1. ASSUME TypeOK, NEW s \in Settings, SetConfig(s)
          PROVE  config.owner \in Owner
      BY <2>1 DEF SetConfig, Initialized, TypeOK, BridgeConfig
    <2>2. QED
      BY <2>1 DEF ConfigNext
  <1>1. s \in Setting /\ o \in Owner
    BY ChoiceAssumption
  <1>2. config' \in BridgeConfig
    BY <1>1 DEF InitConfig, SetConfig, Configured, Setting, BridgeConfig, TypeOK
  <1>3. QED
    BY <1>2 DEF InitConfig, SetConfig, TypeOK, tokenVars

LEMMA TypeLock ==
  ASSUME TypeOK, NEW p \in Payer, NEW id \in Id, NEW t \in Mint, NEW a \in Amounts,
         NEW e \in BOOLEAN, Lock(p, id, t, a, e)
  PROVE  TypeOK'
  <1>. DEFINE k == <<p, id>>
  <1>1. a \in Nat /\ k \in RequestKey
    BY ChoiceAssumption DEF RequestKey
  <1>2. Fee(a) \in Nat /\ SaturatingSub(a, Fee(a)) \in Nat
    BY <1>1, FeeParts
  <1>3. requests' \in [RequestKey -> BridgeRequest]
    <2>1. [payer |-> p, token_mint |-> t,
           amount_locked |-> SaturatingSub(a, Fee(a)), fee_locked |-> Fee(a),
           claimed |-> FALSE, solver |-> DefaultKey, claim_deadline |-> 0,
           bond_lamports |-> 0, finalized |-> FALSE] \in BridgeRequest
      BY <1>2 DEF BridgeRequest
    <2>2. QED
      BY <2>1 DEF Lock, TypeOK
  <1>4. escrow' \in [Mint -> Nat]
    BY <1>1 DEF Lock, TypeOK
  <1>5. ledger' \in [RequestKey -> Ledger]
    BY <1>1 DEF Lock, TypeOK, Ledger
  <1>6. QED
    BY <1>3, <1>4, <1>5 DEF Lock, TypeOK

LEMMA TypeClaim ==
  ASSUME TypeOK, NEW s \in SolverKey, NEW k \in RequestKey, ClaimBridge(s, k)
  PROVE  TypeOK'
  <1>. DEFINE bond == config.min_solver_bond
  <1>1. /\ bond \in Nat /\ config.claim_window_secs \in Nat
        /\ now + config.claim_window_secs \in Nat
    BY DEF TypeOK, BridgeConfig
  <1>2. requests[k] \in BridgeRequest /\ ledger[k] \in Ledger
    BY DEF TypeOK
  <1>3. requests' \in [RequestKey -> BridgeRequest]
    <2>1. [requests[k] EXCEPT !.claimed = TRUE, !.solver = s,
             !.claim_deadline = now + config.claim_window_secs,
             !.bond_lamports = bond] \in BridgeRequest
      BY <1>1, <1>2 DEF BridgeRequest
    <2>2. requests' =
            [requests EXCEPT ![k] =
               [requests[k] EXCEPT !.claimed = TRUE, !.solver = s,
                  !.claim_deadline = now + config.claim_window_secs,
                  !.bond_lamports = bond]]
      BY DEF ClaimBridge, TypeOK
    <2>3. QED
      BY <2>1, <2>2 DEF TypeOK
  <1>4. ledger' \in [RequestKey -> Ledger]
    <2>1. /\ ledger[k].bondPosted + bond \in Nat
          /\ ledger[k].bondStranded + requests[k].bond_lamports \in Nat
      BY <1>1, <1>2 DEF Ledger, BridgeRequest
    <2>2. [ledger[k] EXCEPT
             !.bondPosted = ledger[k].bondPosted + bond,
             !.bondStranded = ledger[k].bondStranded + requests[k].bond_lamports]
            \in Ledger
      BY <1>2, <2>1 DEF Ledger
    <2>3. QED
      BY <2>2 DEF ClaimBridge, TypeOK
  <1>5. bondVault' \in [Id -> Nat]
    BY <1>1, KeyParts DEF ClaimBridge, TypeOK
  <1>6. resealed' \in [RequestKey -> SUBSET SolverKey]
    BY DEF ClaimBridge, TypeOK
  <1>7. QED
    BY <1>3, <1>4, <1>5, <1>6 DEF ClaimBridge, TypeOK, tokenVars

\* Taking a bond out of its vault leaves a natural number.
LEMMA VaultType ==
  ASSUME TypeOK, NEW k \in RequestKey, bondVault[k[2]] >= requests[k].bond_lamports
  PROVE  VaultWithout(k) \in [Id -> Nat]
  <1>1. k[2] \in Id /\ requests[k].bond_lamports \in Nat
    BY KeyParts DEF TypeOK, BridgeRequest
  <1>2. QED
    BY <1>1 DEF VaultWithout, TypeOK

LEMMA UnclaimedFacts ==
  ASSUME NEW request \in BridgeRequest
  PROVE  /\ Unclaimed(request) \in BridgeRequest
         /\ [Unclaimed(request) EXCEPT !.finalized = TRUE] \in BridgeRequest
         /\ Unclaimed(request).finalized = request.finalized
         /\ [Unclaimed(request) EXCEPT !.finalized = TRUE].finalized
         /\ \A new \in {Unclaimed(request),
                        [Unclaimed(request) EXCEPT !.finalized = TRUE]} :
              /\ ~new.claimed /\ new.solver = DefaultKey /\ new.bond_lamports = 0
              /\ new.claim_deadline = 0
              /\ new.payer = request.payer /\ new.token_mint = request.token_mint
              /\ new.amount_locked = request.amount_locked
              /\ new.fee_locked = request.fee_locked
  BY DEF BridgeRequest, Unclaimed

LEMMA TypeRelease ==
  ASSUME TypeOK, NEW k \in RequestKey, ReleaseExpiredClaim(k)
  PROVE  TypeOK'
  <1>1. bondVault' \in [Id -> Nat]
    BY VaultType DEF ReleaseExpiredClaim
  <1>2. requests' \in [RequestKey -> BridgeRequest]
    BY UnclaimedFacts DEF ReleaseExpiredClaim, TypeOK
  <1>3. ledger' \in [RequestKey -> Ledger]
    <2>1. /\ ledger[k] \in Ledger
          /\ Slashed(k) \in Nat
          /\ requests[k].bond_lamports - Slashed(k) \in Nat
      BY SlashParts DEF ReleaseExpiredClaim, TypeOK
    <2>2. /\ ledger[k].bondReturned + (requests[k].bond_lamports - Slashed(k)) \in Nat
          /\ ledger[k].bondSlashed + Slashed(k) \in Nat
      BY <2>1 DEF Ledger
    <2>3. \A x, y \in Nat :
            [ledger[k] EXCEPT !.bondReturned = x, !.bondSlashed = y] \in Ledger
      BY <2>1 DEF Ledger
    <2>4. QED
      BY <2>2, <2>3 DEF ReleaseExpiredClaim, TypeOK
  <1>4. QED
    BY <1>1, <1>2, <1>3 DEF ReleaseExpiredClaim, TypeOK, tokenVars

\* What a settlement pays, and to whom.
LEMMA SettleFacts ==
  ASSUME TypeOK, NEW k \in RequestKey, NEW t \in Mint, VerifyAndSettleSpl(k, t)
  PROVE  /\ requests[k] \in BridgeRequest /\ ledger[k] \in Ledger
         /\ Payout(k) \in Nat
         /\ ledger' = [ledger EXCEPT ![k] =
              [ledger[k] EXCEPT
                 !.paidOut = ledger[k].paidOut + Payout(k), !.paidIn = t,
                 !.payee = requests[k].solver,
                 !.bondReturned = ledger[k].bondReturned
                                    + requests[k].bond_lamports]]
  <1>1. requests[k] \in BridgeRequest /\ ledger[k] \in Ledger
    BY DEF TypeOK
  <1>2. Payout(k) \in Nat
    BY <1>1 DEF Payout, BridgeRequest
  <1>3. QED
    BY <1>1, <1>2 DEF VerifyAndSettleSpl, TypeOK

LEMMA TypeSettle ==
  ASSUME TypeOK, NEW k \in RequestKey, NEW t \in Mint, VerifyAndSettleSpl(k, t)
  PROVE  TypeOK'
  <1>0. /\ requests[k] \in BridgeRequest /\ ledger[k] \in Ledger
        /\ Payout(k) \in Nat
    BY SettleFacts
  <1>1. bondVault' \in [Id -> Nat]
    BY VaultType DEF VerifyAndSettleSpl
  <1>2. requests' \in [RequestKey -> BridgeRequest]
    BY UnclaimedFacts DEF VerifyAndSettleSpl, TypeOK
  <1>3. ledger' \in [RequestKey -> Ledger]
    <2>1. /\ requests[k].solver \in SolverKey \cup {DefaultKey}
          /\ ledger[k].paidOut + Payout(k) \in Nat
          /\ ledger[k].bondReturned + requests[k].bond_lamports \in Nat
      BY <1>0 DEF BridgeRequest, Ledger
    <2>2. [ledger[k] EXCEPT
             !.paidOut = ledger[k].paidOut + Payout(k), !.paidIn = t,
             !.payee = requests[k].solver,
             !.bondReturned = ledger[k].bondReturned + requests[k].bond_lamports]
            \in Ledger
      BY <1>0, <2>1 DEF Ledger
    <2>3. ledger' = [ledger EXCEPT ![k] =
              [ledger[k] EXCEPT
                 !.paidOut = ledger[k].paidOut + Payout(k), !.paidIn = t,
                 !.payee = requests[k].solver,
                 !.bondReturned = ledger[k].bondReturned
                                    + requests[k].bond_lamports]]
      BY SettleFacts
    <2>4. QED
      BY <2>2, <2>3 DEF TypeOK
  <1>4. escrow' \in [Mint -> Nat]
    BY <1>0 DEF VerifyAndSettleSpl, TypeOK
  <1>5. QED
    BY <1>1, <1>2, <1>3, <1>4 DEF VerifyAndSettleSpl, TypeOK

LEMMA TypePool == TypeOK /\ PoolNext => TypeOK'
  <1>. SUFFICES ASSUME TypeOK, PoolNext PROVE TypeOK'
    OBVIOUS
  <1>1. ASSUME NEW t \in Mint, NEW a \in Nat, Release(t, a)
        PROVE  escrow' \in [Mint -> Nat] /\ liquidity' \in [Mint -> Int]
    BY <1>1 DEF Release, TypeOK
  <1>2. ASSUME NEW t \in Mint, NEW a \in ReleaseAmounts, DeliverTokens(t, a)
        PROVE  TypeOK'
    BY <1>1, <1>2, ChoiceAssumption DEF DeliverTokens, Release, TypeOK
  <1>3. ASSUME NEW a \in ReleaseAmounts, DeliverTokensSol(a)
        PROVE  TypeOK'
    BY <1>1, <1>3, ChoiceAssumption, KeyAssumption
    DEF DeliverTokensSol, Release, TypeOK
  <1>4. ASSUME NEW t \in Mint, NEW a \in ReleaseAmounts, ProvideLiquidity(t, a)
        PROVE  TypeOK'
    <2>1. a \in Nat
      BY ChoiceAssumption
    <2>2. escrow' \in [Mint -> Nat] /\ liquidity' \in [Mint -> Int]
      BY <1>4, <2>1 DEF ProvideLiquidity, TypeOK
    <2>3. QED
      BY <1>4, <2>2 DEF ProvideLiquidity, TypeOK
  <1>5. ASSUME OpenWsolAccount
        PROVE  TypeOK'
    BY <1>5 DEF OpenWsolAccount, TypeOK
  <1>6. QED
    BY <1>2, <1>3, <1>4, <1>5 DEF PoolNext

LEMMA TypeStep == TypeOK /\ [Next]_vars => TypeOK'
  <1>1. TypeOK /\ RequestNext => TypeOK'
    <2>1. ASSUME TypeOK, NEW p \in Payer, NEW id \in Id, NEW a \in Amounts,
                 InitiateBridgeSol(p, id, a)
          PROVE  TypeOK'
      BY <2>1, TypeLock, KeyAssumption DEF InitiateBridgeSol
    <2>2. ASSUME TypeOK, NEW p \in Payer, NEW id \in Id, NEW t \in Mint,
                 NEW a \in Amounts, NEW e \in BOOLEAN, InitiateBridge(p, id, t, a, e)
          PROVE  TypeOK'
      BY <2>2, TypeLock DEF InitiateBridge
    <2>3. QED
      BY <2>1, <2>2, TypeClaim, TypeRelease, TypeSettle DEF RequestNext
  <1>2. TypeOK /\ (Tick \/ UNCHANGED vars) => TypeOK'
    BY DEF Tick, TypeOK, vars, tokenVars
  <1>3. QED
    BY <1>1, <1>2, TypeConfig, TypePool DEF Next

\* Every reachable state is well typed: in particular no escrow account and no
\* bond vault is ever overdrawn.
THEOREM SolanaTypeCorrect == Spec => []TypeOK
  BY TypeInit, TypeStep, PTL DEF Spec
-----------------------------------------------------------------------------
(***************************************************************************)
(* Safety.                                                                  *)
(***************************************************************************)

\* Only four instructions touch a request account.
LEMMA OthersLeaveRequests ==
  ConfigNext \/ PoolNext \/ Tick \/ UNCHANGED vars => UNCHANGED requestVars
  <1>1. ConfigNext => UNCHANGED requestVars
    BY DEF ConfigNext, InitConfig, SetConfig, requestVars
  <1>2. PoolNext => UNCHANGED requestVars
    BY DEF PoolNext, DeliverTokens, DeliverTokensSol, Release, ProvideLiquidity,
           OpenWsolAccount, requestVars
  <1>3. QED
    BY <1>1, <1>2 DEF Tick, vars, requestVars

LEMMA SafetyUnchanged == SafetyInv /\ UNCHANGED requestVars => SafetyInv'
  BY DEF SafetyInv, RequestTableOK, PayoutExact, BondAccounted, requestVars, Exists

LEMMA SafetyInit == Init => SafetyInv
  <1>. SUFFICES ASSUME Init PROVE SafetyInv
    OBVIOUS
  <1>1. RequestTableOK
    BY DEF Init, RequestTableOK, NoRequest
  <1>2. PayoutExact
    BY DEF Init, PayoutExact, NoRequest, NoLedger
  <1>3. BondAccounted
    BY DEF Init, BondAccounted, NoRequest, NoLedger
  <1>4. QED
    BY <1>1, <1>2, <1>3 DEF SafetyInv

\* What holds of one request account and its ledger.
RequestOK(request, l) ==
  /\ request.payer = DefaultKey => request = NoRequest
  /\ request.claimed <=> request.solver # DefaultKey
  /\ request.claimed <=> request.bond_lamports > 0
  /\ request.claimed => ~request.finalized
  /\ request.amount_locked + request.fee_locked = l.transferred
  /\ l.paidOut = IF request.finalized THEN l.transferred ELSE 0
  /\ request.finalized <=> l.payee # DefaultKey
  /\ l.bondPosted = l.bondReturned + l.bondSlashed + l.bondStranded
                      + request.bond_lamports

LEMMA SafetyByRequest ==
  SafetyInv <=> \A k \in RequestKey : RequestOK(requests[k], ledger[k])
  BY DEF SafetyInv, RequestTableOK, PayoutExact, BondAccounted, RequestOK, Exists

\* An instruction on one request leaves the others alone.
LEMMA SafetyElsewhere ==
  ASSUME SafetyInv, NEW k \in RequestKey,
         RequestOK(requests'[k], ledger'[k]),
         \A j \in RequestKey \ {k} :
           requests'[j] = requests[j] /\ ledger'[j] = ledger[j]
  PROVE  SafetyInv'
  <1>1. \A j \in RequestKey : RequestOK(requests'[j], ledger'[j])
    BY SafetyByRequest
  <1>2. QED
    BY <1>1 DEF SafetyInv, RequestTableOK, PayoutExact, BondAccounted, RequestOK,
                Exists

\* A deposit goes to an address nobody has used.
LEMMA SafetyLock ==
  ASSUME IInv, NEW p \in Payer, NEW id \in Id, NEW t \in Mint, NEW a \in Amounts,
         NEW e \in BOOLEAN, Lock(p, id, t, a, e)
  PROVE  SafetyInv'
  <1>. USE DEF IInv
  <1>1. PICK k \in RequestKey : k = <<p, id>>
    BY DEF RequestKey
  <1>2. /\ a \in Nat /\ p # DefaultKey
        /\ Fee(a) \in Nat /\ SaturatingSub(a, Fee(a)) \in Nat
        /\ SaturatingSub(a, Fee(a)) + Fee(a) = a
    BY ChoiceAssumption, KeyAssumption, FeeParts
  <1>3. requests[k] = NoRequest /\ ledger[k] \in Ledger
    BY <1>1 DEF Lock, SafetyInv, RequestTableOK, TypeOK
  <1>4. RequestOK(NoRequest, ledger[k])
    BY <1>3, SafetyByRequest
  <1>5. requests'[k] = [payer |-> p, token_mint |-> t,
                        amount_locked |-> SaturatingSub(a, Fee(a)),
                        fee_locked |-> Fee(a), claimed |-> FALSE,
                        solver |-> DefaultKey, claim_deadline |-> 0,
                        bond_lamports |-> 0, finalized |-> FALSE]
    BY <1>1 DEF Lock, TypeOK
  <1>6. ledger'[k] = [ledger[k] EXCEPT !.transferred = a, !.escrowed = e]
    BY <1>1 DEF Lock, TypeOK
  <1>7. RequestOK(requests'[k], ledger'[k])
    BY <1>2, <1>3, <1>4, <1>5, <1>6 DEF RequestOK, NoRequest, Ledger
  <1>8. \A j \in RequestKey \ {k} :
          requests'[j] = requests[j] /\ ledger'[j] = ledger[j]
    BY <1>1 DEF Lock, TypeOK
  <1>9. QED
    BY <1>7, <1>8, SafetyElsewhere

\* A new claim leaves the bond of the old one behind.
LEMMA SafetyClaim ==
  ASSUME IInv, NEW s \in SolverKey, NEW k \in RequestKey, ClaimBridge(s, k)
  PROVE  SafetyInv'
  <1>. USE DEF IInv
  <1>. DEFINE bond == config.min_solver_bond
  <1>1. /\ bond \in Nat /\ bond > 0 /\ s # DefaultKey
        /\ requests[k] \in BridgeRequest /\ ledger[k] \in Ledger
        /\ Exists(k) /\ ~requests[k].finalized
    BY KeyAssumption DEF ClaimBridge, Claimable, TypeOK, BridgeConfig
  <1>2. RequestOK(requests[k], ledger[k])
    BY SafetyByRequest
  <1>3. requests'[k] = [requests[k] EXCEPT !.claimed = TRUE, !.solver = s,
                          !.claim_deadline = now + config.claim_window_secs,
                          !.bond_lamports = bond]
    BY DEF ClaimBridge, TypeOK
  <1>4. ledger'[k] = [ledger[k] EXCEPT
                        !.bondPosted = ledger[k].bondPosted + bond,
                        !.bondStranded = ledger[k].bondStranded
                                           + requests[k].bond_lamports]
    BY DEF ClaimBridge, TypeOK
  <1>5. /\ requests'[k].payer = requests[k].payer
        /\ requests'[k].claimed /\ requests'[k].solver = s
        /\ requests'[k].bond_lamports = bond
        /\ requests'[k].finalized = requests[k].finalized
        /\ requests'[k].amount_locked = requests[k].amount_locked
        /\ requests'[k].fee_locked = requests[k].fee_locked
    BY <1>1, <1>3 DEF BridgeRequest
  <1>6. /\ ledger'[k].bondPosted = ledger[k].bondPosted + bond
        /\ ledger'[k].bondStranded
             = ledger[k].bondStranded + requests[k].bond_lamports
        /\ ledger'[k].bondReturned = ledger[k].bondReturned
        /\ ledger'[k].bondSlashed = ledger[k].bondSlashed
        /\ ledger'[k].transferred = ledger[k].transferred
        /\ ledger'[k].paidOut = ledger[k].paidOut
        /\ ledger'[k].payee = ledger[k].payee
    BY <1>1, <1>4 DEF Ledger
  <1>7. ledger'[k].bondPosted
          = ledger'[k].bondReturned + ledger'[k].bondSlashed
              + ledger'[k].bondStranded + requests'[k].bond_lamports
    BY <1>1, <1>2, <1>5, <1>6 DEF RequestOK, Ledger, BridgeRequest
  <1>8. RequestOK(requests'[k], ledger'[k])
    BY <1>1, <1>2, <1>5, <1>6, <1>7 DEF RequestOK, Exists
  <1>9. \A j \in RequestKey \ {k} :
          requests'[j] = requests[j] /\ ledger'[j] = ledger[j]
    BY DEF ClaimBridge, TypeOK
  <1>10. QED
    BY <1>8, <1>9, SafetyElsewhere

LEMMA SafetyRelease ==
  ASSUME IInv, NEW k \in RequestKey, ReleaseExpiredClaim(k)
  PROVE  SafetyInv'
  <1>. USE DEF IInv
  <1>1. /\ requests[k] \in BridgeRequest /\ ledger[k] \in Ledger
        /\ requests[k].bond_lamports \in Nat /\ Slashed(k) \in Nat
        /\ requests[k].bond_lamports - Slashed(k) \in Nat
    BY SlashParts DEF ReleaseExpiredClaim, TypeOK
  <1>2. RequestOK(requests[k], ledger[k]) /\ requests[k].claimed
    BY SafetyByRequest DEF ReleaseExpiredClaim
  <1>3. requests'[k] = Unclaimed(requests[k])
    BY DEF ReleaseExpiredClaim, TypeOK
  <1>4. ledger'[k] = [ledger[k] EXCEPT
                        !.bondReturned = ledger[k].bondReturned
                           + (requests[k].bond_lamports - Slashed(k)),
                        !.bondSlashed = ledger[k].bondSlashed + Slashed(k)]
    BY DEF ReleaseExpiredClaim, TypeOK
  <1>5. /\ ledger'[k].bondReturned
             = ledger[k].bondReturned + (requests[k].bond_lamports - Slashed(k))
        /\ ledger'[k].bondSlashed = ledger[k].bondSlashed + Slashed(k)
        /\ ledger'[k].bondPosted = ledger[k].bondPosted
        /\ ledger'[k].bondStranded = ledger[k].bondStranded
        /\ ledger'[k].transferred = ledger[k].transferred
        /\ ledger'[k].paidOut = ledger[k].paidOut
        /\ ledger'[k].payee = ledger[k].payee
    BY <1>1, <1>4 DEF Ledger
  <1>6. /\ ~requests'[k].claimed /\ requests'[k].solver = DefaultKey
        /\ requests'[k].bond_lamports = 0
        /\ requests'[k].payer = requests[k].payer
        /\ requests'[k].finalized = requests[k].finalized
        /\ requests'[k].amount_locked = requests[k].amount_locked
        /\ requests'[k].fee_locked = requests[k].fee_locked
    <2>1. requests'[k] \in {Unclaimed(requests[k]),
                           [Unclaimed(requests[k]) EXCEPT !.finalized = TRUE]}
      BY <1>3
    <2>2. requests'[k].finalized = requests[k].finalized
      BY <1>1, <1>3, UnclaimedFacts
    <2>3. QED
      BY <1>1, <2>1, <2>2, UnclaimedFacts
  <1>7. requests[k].payer # DefaultKey
    BY <1>2 DEF RequestOK, NoRequest
  <1>8. ledger'[k].bondPosted
          = ledger'[k].bondReturned + ledger'[k].bondSlashed
              + ledger'[k].bondStranded + requests'[k].bond_lamports
    BY <1>1, <1>2, <1>5, <1>6 DEF RequestOK, Ledger
  <1>9. RequestOK(requests'[k], ledger'[k])
    BY <1>2, <1>5, <1>6, <1>7, <1>8 DEF RequestOK
  <1>10. \A j \in RequestKey \ {k} :
          requests'[j] = requests[j] /\ ledger'[j] = ledger[j]
    BY DEF ReleaseExpiredClaim, TypeOK
  <1>11. QED
    BY <1>9, <1>10, SafetyElsewhere

\* The one payment, and the end of the claim.
LEMMA SafetySettle ==
  ASSUME IInv, NEW k \in RequestKey, NEW t \in Mint, VerifyAndSettleSpl(k, t)
  PROVE  SafetyInv'
  <1>. USE DEF IInv
  <1>1. /\ requests[k] \in BridgeRequest /\ ledger[k] \in Ledger
        /\ Payout(k) \in Nat
    BY SettleFacts
  <1>2. /\ RequestOK(requests[k], ledger[k])
        /\ requests[k].claimed /\ ~requests[k].finalized
    BY SafetyByRequest DEF VerifyAndSettleSpl, Settleable
  <1>3. requests'[k] = [Unclaimed(requests[k]) EXCEPT !.finalized = TRUE]
    BY DEF VerifyAndSettleSpl, TypeOK
  <1>4. ledger'[k] = [ledger[k] EXCEPT
                        !.paidOut = ledger[k].paidOut + Payout(k), !.paidIn = t,
                        !.payee = requests[k].solver,
                        !.bondReturned = ledger[k].bondReturned
                                           + requests[k].bond_lamports]
    <2>1. ledger' = [ledger EXCEPT ![k] =
              [ledger[k] EXCEPT
                 !.paidOut = ledger[k].paidOut + Payout(k), !.paidIn = t,
                 !.payee = requests[k].solver,
                 !.bondReturned = ledger[k].bondReturned
                                    + requests[k].bond_lamports]]
      BY SettleFacts
    <2>2. QED
      BY <2>1 DEF TypeOK
  <1>5. /\ ledger'[k].paidOut = ledger[k].paidOut + Payout(k)
        /\ ledger'[k].payee = requests[k].solver
        /\ ledger'[k].bondReturned
             = ledger[k].bondReturned + requests[k].bond_lamports
        /\ ledger'[k].bondPosted = ledger[k].bondPosted
        /\ ledger'[k].bondSlashed = ledger[k].bondSlashed
        /\ ledger'[k].bondStranded = ledger[k].bondStranded
        /\ ledger'[k].transferred = ledger[k].transferred
    BY <1>1, <1>4 DEF Ledger
  <1>6. /\ ~requests'[k].claimed /\ requests'[k].solver = DefaultKey
        /\ requests'[k].bond_lamports = 0 /\ requests'[k].finalized
        /\ requests'[k].payer = requests[k].payer
        /\ requests'[k].amount_locked = requests[k].amount_locked
        /\ requests'[k].fee_locked = requests[k].fee_locked
    <2>1. requests'[k] \in {Unclaimed(requests[k]),
                           [Unclaimed(requests[k]) EXCEPT !.finalized = TRUE]}
      BY <1>3
    <2>2. requests'[k].finalized
      BY <1>1, <1>3, UnclaimedFacts
    <2>3. QED
      BY <1>1, <2>1, <2>2, UnclaimedFacts
  <1>7. requests[k].payer # DefaultKey /\ requests[k].solver # DefaultKey
    BY <1>2 DEF RequestOK, NoRequest
  <1>8. ledger[k].paidOut = 0 /\ Payout(k) = ledger[k].transferred
    BY <1>2 DEF RequestOK, Payout
  <1>9. ledger'[k].bondPosted
          = ledger'[k].bondReturned + ledger'[k].bondSlashed
              + ledger'[k].bondStranded + requests'[k].bond_lamports
    BY <1>1, <1>2, <1>5, <1>6 DEF RequestOK, Ledger, BridgeRequest
  <1>10. ledger'[k].paidOut = ledger'[k].transferred
    BY <1>1, <1>5, <1>8
  <1>11. RequestOK(requests'[k], ledger'[k])
    BY <1>2, <1>5, <1>6, <1>7, <1>9, <1>10 DEF RequestOK
  <1>12. \A j \in RequestKey \ {k} :
          requests'[j] = requests[j] /\ ledger'[j] = ledger[j]
    BY DEF VerifyAndSettleSpl, TypeOK
  <1>13. QED
    BY <1>11, <1>12, SafetyElsewhere

\* Nothing enters or leaves the wrapped-SOL account while it is closed, and it is
\* closed only with nothing in it: a balance that was 0 before the transfer is 0
\* after it.
LEMMA ClosedStep ==
  ASSUME TypeOK, ClosedIsEmpty, [Next]_vars
  PROVE  ClosedIsEmpty'
  <1>. USE DEF ClosedIsEmpty
  <1>. NativeMint \in Mint /\ escrow \in [Mint -> Nat]
    BY KeyAssumption DEF TypeOK
  <1>1. ASSUME NEW p \in Payer, NEW id \in Id, NEW t \in Mint, NEW a \in Amounts,
               NEW e \in BOOLEAN, InitiateBridge(p, id, t, a, e)
        PROVE  ClosedIsEmpty'
    BY <1>1 DEF InitiateBridge, Lock
  <1>2. ASSUME NEW p \in Payer, NEW id \in Id, NEW a \in Amounts,
               InitiateBridgeSol(p, id, a)
        PROVE  ClosedIsEmpty'
    BY <1>2 DEF InitiateBridgeSol, Lock
  <1>3. ASSUME NEW k \in RequestKey, NEW t \in Mint, VerifyAndSettleSpl(k, t)
        PROVE  ClosedIsEmpty'
    BY <1>3 DEF VerifyAndSettleSpl
  <1>4. ASSUME NEW t \in Mint, NEW a \in ReleaseAmounts, DeliverTokens(t, a)
        PROVE  ClosedIsEmpty'
    BY <1>4 DEF DeliverTokens, Release
  <1>5. ASSUME NEW t \in Mint, NEW a \in ReleaseAmounts, ProvideLiquidity(t, a)
        PROVE  ClosedIsEmpty'
    BY <1>5 DEF ProvideLiquidity
  <1>6. ASSUME NEW a \in ReleaseAmounts, DeliverTokensSol(a)
        PROVE  ClosedIsEmpty'
    <2>1. a \in Nat /\ escrow[NativeMint] \in Nat
      BY ChoiceAssumption
    <2>2. escrow[NativeMint] >= a /\ escrow'[NativeMint] = escrow[NativeMint] - a
      BY <1>6 DEF DeliverTokensSol, Release
    <2>3. ~wsolOpen' => escrow[NativeMint] = 0
      BY <1>6 DEF DeliverTokensSol
    <2>4. escrow[NativeMint] = 0 => escrow'[NativeMint] = 0
      BY <2>1, <2>2
    <2>5. QED
      BY <2>3, <2>4
  <1>7. ASSUME UNCHANGED <<escrow, wsolOpen>> \/ OpenWsolAccount
        PROVE  ClosedIsEmpty'
    BY <1>7 DEF OpenWsolAccount
  <1>8. (\/ ConfigNext \/ Tick \/ UNCHANGED vars
         \/ \E s \in SolverKey, k \in RequestKey : ClaimBridge(s, k)
         \/ \E k \in RequestKey : ReleaseExpiredClaim(k))
          => UNCHANGED <<escrow, wsolOpen>>
    BY DEF ConfigNext, InitConfig, SetConfig, Tick, vars, tokenVars, ClaimBridge,
           ReleaseExpiredClaim
  <1>9. QED
    BY <1>1, <1>2, <1>3, <1>4, <1>5, <1>6, <1>7, <1>8
    DEF Next, RequestNext, PoolNext

LEMMA InvInit == Init => IInv
  <1>1. Init => ClosedIsEmpty
    BY DEF Init, ClosedIsEmpty
  <1>2. QED
    BY <1>1, TypeInit, SafetyInit DEF IInv

LEMMA InvStep == IInv /\ [Next]_vars => IInv'
  <1>. SUFFICES ASSUME IInv, [Next]_vars PROVE SafetyInv'
    BY TypeStep, ClosedStep DEF IInv
  <1>1. CASE RequestNext
    <2>1. ASSUME NEW p \in Payer, NEW id \in Id, NEW a \in Amounts,
                 InitiateBridgeSol(p, id, a)
          PROVE  SafetyInv'
      BY <2>1, SafetyLock, KeyAssumption DEF InitiateBridgeSol
    <2>2. ASSUME NEW p \in Payer, NEW id \in Id, NEW t \in Mint,
                 NEW a \in Amounts, NEW e \in BOOLEAN, InitiateBridge(p, id, t, a, e)
          PROVE  SafetyInv'
      BY <2>2, SafetyLock DEF InitiateBridge
    <2>3. QED
      BY <1>1, <2>1, <2>2, SafetyClaim, SafetyRelease, SafetySettle DEF RequestNext
  <1>2. CASE ConfigNext \/ PoolNext \/ Tick \/ UNCHANGED vars
    BY <1>2, OthersLeaveRequests, SafetyUnchanged DEF IInv
  <1>3. QED
    BY <1>1, <1>2 DEF Next

THEOREM SolanaInvHolds == Spec => []IInv
  BY InvInit, InvStep, PTL DEF Spec

\* An account nobody claimed has no bond, and a paid request has no claim that
\* release_expired_claim could still slash.
THEOREM SolanaRequestTableCorrect == Spec => []RequestTableOK
  BY SolanaInvHolds, PTL DEF IInv, SafetyInv

\* A settlement pays the solver as many tokens as the payer transferred, once,
\* whatever values set_config was given in between.  Where the payer's tokens went
\* and of which mint the solver's are, the program leaves open.
THEOREM SolanaPayoutCorrect == Spec => []PayoutExact
  BY SolanaInvHolds, PTL DEF IInv, SafetyInv

\* No chain of claims, reclaims, releases and settlements returns a bond twice; what
\* is not returned or slashed was left behind by a reclaim.
THEOREM SolanaBondCorrect == Spec => []BondAccounted
  BY SolanaInvHolds, PTL DEF IInv, SafetyInv

\* The wrapped-SOL account is never closed over a balance, although the balance
\* deliver_tokens_sol tests was read before its transfer.
THEOREM WsolClosedEmpty == Spec => []ClosedIsEmpty
  BY SolanaInvHolds, PTL DEF IInv
-----------------------------------------------------------------------------
\* Only a settlement changes a request before the deadline of its claim.
LEMMA LiveClaimStep ==
  ASSUME IInv, [Next]_vars, NEW k \in RequestKey, Live(k), requests'[k] # requests[k]
  PROVE  /\ ledger'[k].payee = requests[k].solver
         /\ ledger'[k].bondReturned = ledger[k].bondReturned + requests[k].bond_lamports
  <1>. USE DEF IInv
  <1>1. /\ now \in Nat /\ requests[k].claim_deadline \in Nat
        /\ now <= requests[k].claim_deadline /\ requests[k].claimed
        /\ Exists(k) /\ ~Expired(k) /\ requests \in [RequestKey -> BridgeRequest]
    BY DEF TypeOK, BridgeRequest, Live, Expired, SafetyInv, RequestTableOK, NoRequest
  <1>2. \A p \in Payer, id \in Id, t \in Mint, a \in Amounts, e \in BOOLEAN :
          ~Lock(p, id, t, a, e)
    BY <1>1 DEF Lock
  <1>3. \A s \in SolverKey, j \in RequestKey : ~ClaimBridge(s, j)
    BY <1>1 DEF ClaimBridge, Claimable
  <1>4. \A j \in RequestKey : ~ReleaseExpiredClaim(j)
    BY <1>1 DEF ReleaseExpiredClaim
  <1>5. RequestNext
    BY OthersLeaveRequests DEF Next, requestVars
  <1>6. PICK j \in RequestKey, t \in Mint : VerifyAndSettleSpl(j, t)
    BY <1>2, <1>3, <1>4, <1>5, KeyAssumption
    DEF RequestNext, InitiateBridge, InitiateBridgeSol
  <1>7. j = k
    BY <1>1, <1>6 DEF VerifyAndSettleSpl
  <1>8. ledger[k] \in Ledger /\ ledger'[k] =
          [ledger[k] EXCEPT
             !.paidOut = ledger[k].paidOut + Payout(k), !.paidIn = t,
             !.payee = requests[k].solver,
             !.bondReturned = ledger[k].bondReturned + requests[k].bond_lamports]
    <2>1. VerifyAndSettleSpl(k, t)
      BY <1>6, <1>7
    <2>2. ledger' = [ledger EXCEPT ![k] =
              [ledger[k] EXCEPT
                 !.paidOut = ledger[k].paidOut + Payout(k), !.paidIn = t,
                 !.payee = requests[k].solver,
                 !.bondReturned = ledger[k].bondReturned
                                    + requests[k].bond_lamports]]
      BY <2>1, SettleFacts
    <2>3. QED
      BY <2>2 DEF TypeOK
  <1>9. QED
    BY <1>8 DEF Ledger

\* No deposit, reclaim or release takes a request from its solver before the
\* deadline: he loses the claim by being paid.
THEOREM SolanaLiveClaimSafe == Spec => LiveClaimProtected
  <1>1. ASSUME IInv, [Next]_vars
        PROVE  [\A k \in RequestKey :
                  Live(k) /\ requests'[k] # requests[k] =>
                    /\ ledger'[k].payee = requests[k].solver
                    /\ ledger'[k].bondReturned =
                         ledger[k].bondReturned + requests[k].bond_lamports]_vars
    BY <1>1, LiveClaimStep
  <1>2. QED
    BY <1>1, SolanaInvHolds, PTL DEF Spec, LiveClaimProtected
-----------------------------------------------------------------------------
(***************************************************************************)
(* Conservation: a vault holds the bonds of the requests that share its id, *)
(* an escrow account what requests brought less what was paid.  Each step    *)
(* changes what one request accounts for, so each sum moves by one term.    *)
(***************************************************************************)
BondHeld(k)     == requests[k].bond_lamports + ledger[k].bondStranded
VaultTerms(id)  == [p \in Payer |-> requests[<<p, id>>].bond_lamports
                                     + ledger[<<p, id>>].bondStranded]
EscrowTerms(t)  == [k \in RequestKey |-> Held(t, k)]

ConservationInv == VaultConservation /\ TokenConservation

LEMMA RequestParts ==
  ASSUME TypeOK, NEW k \in RequestKey
  PROVE  /\ requests[k].amount_locked \in Nat /\ requests[k].fee_locked \in Nat
         /\ requests[k].bond_lamports \in Nat /\ ledger[k].bondStranded \in Nat
  BY DEF TypeOK, BridgeRequest, Ledger

LEMMA RequestPartsNext ==
  ASSUME TypeOK', NEW k \in RequestKey
  PROVE  /\ requests'[k].amount_locked \in Nat /\ requests'[k].fee_locked \in Nat
         /\ requests'[k].bond_lamports \in Nat /\ ledger'[k].bondStranded \in Nat
  BY DEF TypeOK, BridgeRequest, Ledger

LEMMA TermsSummable ==
  ASSUME TypeOK
  PROVE  /\ \A id \in Id : Summable(VaultTerms(id), Payer)
         /\ \A t : Summable(EscrowTerms(t), RequestKey)
  <1>1. IsFiniteSet(Payer) /\ IsFiniteSet(RequestKey)
    BY FinitenessAssumption, FS_Product DEF RequestKey
  <1>2. \A id \in Id, p \in Payer : <<p, id>> \in RequestKey
    BY DEF RequestKey
  <1>3. \A id \in Id : VaultTerms(id) \in [Payer -> Int]
    BY <1>2, RequestParts DEF VaultTerms
  <1>4. \A t : EscrowTerms(t) \in [RequestKey -> Int]
    BY RequestParts DEF EscrowTerms, Held, Brought, Taken, Payout
  <1>. QED BY <1>1, <1>3, <1>4 DEF Summable

LEMMA TermsSummableNext ==
  ASSUME TypeOK'
  PROVE  /\ \A id \in Id : Summable(VaultTerms(id)', Payer)
         /\ \A t : Summable(EscrowTerms(t)', RequestKey)
  <1>1. IsFiniteSet(Payer) /\ IsFiniteSet(RequestKey)
    BY FinitenessAssumption, FS_Product DEF RequestKey
  <1>2. \A id \in Id, p \in Payer : <<p, id>> \in RequestKey
    BY DEF RequestKey
  <1>3. \A id \in Id : VaultTerms(id)' \in [Payer -> Int]
    BY <1>2, RequestPartsNext DEF VaultTerms
  <1>4. \A t : EscrowTerms(t)' \in [RequestKey -> Int]
    BY RequestPartsNext DEF EscrowTerms, Held, Brought, Taken, Payout
  <1>. QED BY <1>1, <1>3, <1>4 DEF Summable

LEMMA SumsOfTerms ==
  /\ VaultConservation <=> \A id \in Id : bondVault[id] = SumFunction(VaultTerms(id))
  /\ VaultConservation' <=> \A id \in Id : bondVault'[id] = SumFunction(VaultTerms(id)')
  /\ TokenConservation <=>
       \A t \in Mint : escrow[t] = SumFunction(EscrowTerms(t)) + liquidity[t]
  /\ TokenConservation' <=>
       \A t \in Mint : escrow'[t] = SumFunction(EscrowTerms(t)') + liquidity'[t]
  BY DEF VaultConservation, VaultTerms, TokenConservation, EscrowTerms

\* When only k's bond changes, its vault changes by as much and no other does.
LEMMA VaultMoves ==
  ASSUME TypeOK, TypeOK', VaultConservation, NEW k \in RequestKey,
         \A j \in RequestKey \ {k} : requests'[j] = requests[j] /\ ledger'[j] = ledger[j],
         bondVault'[k[2]] - bondVault[k[2]] = BondHeld(k)' - BondHeld(k),
         \A id \in Id \ {k[2]} : bondVault'[id] = bondVault[id]
  PROVE  VaultConservation'
  <1>. SUFFICES ASSUME NEW id \in Id PROVE bondVault'[id] = SumFunction(VaultTerms(id)')
    BY SumsOfTerms
  <1>1. PICK p \in Payer : k = <<p, k[2]>>
    BY DEF RequestKey
  <1>2. \A q \in Payer : <<q, id>> \in RequestKey
    BY DEF RequestKey
  <1>3. bondVault[id] = SumFunction(VaultTerms(id))
    BY SumsOfTerms
  <1>4. CASE id # k[2]
    <2>1. \A q \in Payer : <<q, id>> # k
      BY <1>1, <1>4
    <2>2. VaultTerms(id)' = VaultTerms(id)
      BY <1>2, <2>1 DEF VaultTerms
    <2>. QED BY <1>3, <1>4, <2>2
  <1>5. CASE id = k[2]
    <2>1. Summable(VaultTerms(id), Payer) /\ Summable(VaultTerms(id)', Payer)
      BY TermsSummable, TermsSummableNext
    <2>2. \A q \in Payer \ {p} : VaultTerms(id)[q] = VaultTerms(id)'[q]
      <3>1. \A q \in Payer \ {p} : <<q, id>> \in RequestKey \ {k}
        BY <1>1, <1>2
      <3>. QED BY <3>1 DEF VaultTerms
    <2>3. SumFunction(VaultTerms(id)')
            = SumFunction(VaultTerms(id)) - VaultTerms(id)[p] + VaultTerms(id)'[p]
      BY <2>1, <2>2, SumUpdate
    <2>4. SumFunction(VaultTerms(id)) \in Int
      BY <2>1, SumType
    <2>5. VaultTerms(id)[p] = BondHeld(k) /\ VaultTerms(id)'[p] = BondHeld(k)'
      BY <1>1, <1>5 DEF VaultTerms, BondHeld
    <2>6. VaultTerms(id)[p] \in Int /\ VaultTerms(id)'[p] \in Int
      BY <2>1 DEF Summable
    <2>7. bondVault[id] \in Int /\ bondVault'[id] \in Int
      BY DEF TypeOK
    <2>8. bondVault'[id] - bondVault[id] = VaultTerms(id)'[p] - VaultTerms(id)[p]
      BY <1>5, <2>5
    <2>. QED BY <1>3, <2>3, <2>4, <2>6, <2>7, <2>8
  <1>. QED BY <1>4, <1>5

\* What requests have in an escrow account.
Deposits(t) == escrow[t] - liquidity[t]

\* When only what k has changes, the escrow accounts change by as much.
LEMMA EscrowMoves ==
  ASSUME TypeOK, TypeOK', TokenConservation, NEW k \in RequestKey,
         \A j \in RequestKey \ {k} : requests'[j] = requests[j] /\ ledger'[j] = ledger[j],
         \A t \in Mint : Deposits(t)' - Deposits(t)
                          = Held(t, k)' - Held(t, k)
  PROVE  TokenConservation'
  <1>. SUFFICES ASSUME NEW t \in Mint
                PROVE  escrow'[t] = SumFunction(EscrowTerms(t)') + liquidity'[t]
    BY SumsOfTerms
  <1>1. Summable(EscrowTerms(t), RequestKey) /\ Summable(EscrowTerms(t)', RequestKey)
    BY TermsSummable, TermsSummableNext
  <1>2. \A j \in RequestKey \ {k} : EscrowTerms(t)[j] = EscrowTerms(t)'[j]
    BY DEF EscrowTerms, Held, Brought, Taken, Payout
  <1>3. SumFunction(EscrowTerms(t)')
          = SumFunction(EscrowTerms(t)) - EscrowTerms(t)[k] + EscrowTerms(t)'[k]
    BY <1>1, <1>2, SumUpdate
  <1>4. SumFunction(EscrowTerms(t)) \in Int
    BY <1>1, SumType
  <1>5. EscrowTerms(t)[k] = Held(t, k) /\ EscrowTerms(t)'[k] = Held(t, k)'
    BY DEF EscrowTerms
  <1>6. EscrowTerms(t)[k] \in Int /\ EscrowTerms(t)'[k] \in Int
    BY <1>1 DEF Summable
  <1>7. /\ escrow[t] \in Int /\ escrow'[t] \in Int
        /\ liquidity[t] \in Int /\ liquidity'[t] \in Int
    BY DEF TypeOK
  <1>8. escrow[t] = SumFunction(EscrowTerms(t)) + liquidity[t]
    BY SumsOfTerms
  <1>9. (escrow'[t] - liquidity'[t]) - (escrow[t] - liquidity[t])
          = EscrowTerms(t)'[k] - EscrowTerms(t)[k]
    BY <1>5 DEF Deposits
  <1>. QED BY <1>3, <1>4, <1>6, <1>7, <1>8, <1>9

\* A deposit goes to the escrow account of its mint, whole, or none of it does.
LEMMA ConservationLock ==
  ASSUME IInv, ConservationInv, TypeOK', NEW p \in Payer, NEW id \in Id, NEW t \in Mint,
         NEW a \in Amounts, NEW e \in BOOLEAN, Lock(p, id, t, a, e)
  PROVE  ConservationInv'
  <1>. USE DEF IInv, ConservationInv
  <1>1. PICK k \in RequestKey : k = <<p, id>>
    BY DEF RequestKey
  <1>2. /\ a \in Nat /\ Fee(a) \in Nat /\ SaturatingSub(a, Fee(a)) \in Nat
        /\ SaturatingSub(a, Fee(a)) + Fee(a) = a
    BY ChoiceAssumption, FeeParts
  <1>3. requests[k] = NoRequest /\ ledger[k] \in Ledger
    BY <1>1 DEF Lock, SafetyInv, RequestTableOK, TypeOK
  <1>4. /\ requests'[k].token_mint = t /\ ~requests'[k].finalized
        /\ requests'[k].amount_locked = SaturatingSub(a, Fee(a))
        /\ requests'[k].fee_locked = Fee(a) /\ requests'[k].bond_lamports = 0
        /\ ledger'[k] = [ledger[k] EXCEPT !.transferred = a, !.escrowed = e]
        /\ \A j \in RequestKey \ {k} :
             requests'[j] = requests[j] /\ ledger'[j] = ledger[j]
    BY <1>1 DEF Lock, TypeOK
  <1>5. VaultConservation'
    <2>1. BondHeld(k)' = BondHeld(k) /\ BondHeld(k) \in Nat
      BY <1>3, <1>4 DEF BondHeld, NoRequest, Ledger
    <2>2. bondVault' = bondVault /\ bondVault[k[2]] \in Nat
      BY KeyParts DEF Lock, TypeOK
    <2>3. bondVault'[k[2]] - bondVault[k[2]] = BondHeld(k)' - BondHeld(k)
      BY <2>1, <2>2
    <2>. QED BY <1>4, <2>2, <2>3, VaultMoves
  <1>6. ASSUME NEW m \in Mint
        PROVE  Deposits(m)' - Deposits(m) = Held(m, k)' - Held(m, k)
    <2>1. Brought(m, k) = 0 /\ Taken(m, k) = 0
      BY <1>3 DEF Brought, Taken, Payout, NoRequest
    <2>2. /\ ledger'[k].escrowed = e
          /\ requests'[k].amount_locked + requests'[k].fee_locked = a
      BY <1>2, <1>3, <1>4 DEF Ledger
    <2>3. /\ Brought(m, k)' = IF t = m /\ e THEN a ELSE 0
          /\ Taken(m, k)' = 0
      BY <1>4, <2>2 DEF Brought, Taken, Payout
    <2>4. /\ escrow'[m] = IF t = m /\ e THEN escrow[m] + a ELSE escrow[m]
          /\ liquidity' = liquidity /\ escrow[m] \in Nat /\ liquidity[m] \in Int
      BY DEF Lock, TypeOK
    <2>. QED BY <1>2, <2>1, <2>3, <2>4 DEF Deposits, Held
  <1>7. TokenConservation'
    BY <1>4, <1>6, EscrowMoves
  <1>. QED BY <1>5, <1>7

\* A claim does not touch the deposits.
LEMMA ClaimLeavesDeposits ==
  ASSUME TypeOK, TokenConservation, NEW k \in RequestKey, UNCHANGED <<escrow, liquidity>>,
         requests'[k].token_mint = requests[k].token_mint,
         requests'[k].finalized = requests[k].finalized,
         requests'[k].amount_locked = requests[k].amount_locked,
         requests'[k].fee_locked = requests[k].fee_locked,
         ledger'[k].escrowed = ledger[k].escrowed,
         ledger'[k].paidIn = ledger[k].paidIn,
         \A j \in RequestKey \ {k} : requests'[j] = requests[j] /\ ledger'[j] = ledger[j]
  PROVE  TokenConservation'
  <1>1. \A t : EscrowTerms(t)' = EscrowTerms(t)
    BY DEF EscrowTerms, Held, Brought, Taken, Payout
  <1>. QED BY <1>1, SumsOfTerms

\* The new bond goes into the vault; the old one stays there.
LEMMA ConservationClaim ==
  ASSUME IInv, ConservationInv, TypeOK', NEW s \in SolverKey, NEW k \in RequestKey,
         ClaimBridge(s, k)
  PROVE  ConservationInv'
  <1>. USE DEF IInv, ConservationInv
  <1>. DEFINE bond == config.min_solver_bond
  <1>1. /\ bond \in Nat /\ requests[k] \in BridgeRequest /\ ledger[k] \in Ledger
        /\ k[2] \in Id /\ bondVault[k[2]] \in Nat
    BY KeyParts DEF TypeOK, BridgeConfig
  <1>2. /\ requests'[k] = [requests[k] EXCEPT !.claimed = TRUE, !.solver = s,
                             !.claim_deadline = now + config.claim_window_secs,
                             !.bond_lamports = bond]
        /\ ledger'[k] = [ledger[k] EXCEPT
                           !.bondPosted = ledger[k].bondPosted + bond,
                           !.bondStranded = ledger[k].bondStranded
                                              + requests[k].bond_lamports]
        /\ \A j \in RequestKey \ {k} :
             requests'[j] = requests[j] /\ ledger'[j] = ledger[j]
    BY DEF ClaimBridge, TypeOK
  <1>3. /\ bondVault'[k[2]] = bondVault[k[2]] + bond
        /\ \A id \in Id \ {k[2]} : bondVault'[id] = bondVault[id]
    BY <1>1 DEF ClaimBridge, TypeOK
  <1>. HIDE DEF bond
  <1>4. /\ BondHeld(k) \in Nat /\ BondHeld(k)' = BondHeld(k) + bond
    BY <1>1, <1>2 DEF BondHeld, BridgeRequest, Ledger
  <1>5. VaultConservation'
    <2>1. bondVault'[k[2]] - bondVault[k[2]] = BondHeld(k)' - BondHeld(k)
      BY <1>1, <1>3, <1>4
    <2>. QED BY <1>2, <1>3, <2>1, VaultMoves
  <1>6. TokenConservation'
    <2>1. /\ requests'[k].token_mint = requests[k].token_mint
          /\ requests'[k].finalized = requests[k].finalized
          /\ requests'[k].amount_locked = requests[k].amount_locked
          /\ requests'[k].fee_locked = requests[k].fee_locked
          /\ ledger'[k].escrowed = ledger[k].escrowed
          /\ ledger'[k].paidIn = ledger[k].paidIn
      BY <1>1, <1>2 DEF BridgeRequest, Ledger
    <2>. QED BY <1>2, <2>1, ClaimLeavesDeposits DEF ClaimBridge, tokenVars
  <1>. QED BY <1>5, <1>6

\* A bond leaves its vault when its claim ends, and no other bond does.
LEMMA VaultPaysBond ==
  ASSUME TypeOK, TypeOK', VaultConservation, NEW k \in RequestKey,
         bondVault' = VaultWithout(k),
         requests'[k].bond_lamports = 0,
         ledger'[k].bondStranded = ledger[k].bondStranded,
         \A j \in RequestKey \ {k} : requests'[j] = requests[j] /\ ledger'[j] = ledger[j]
  PROVE  VaultConservation'
  <1>1. /\ k[2] \in Id /\ bondVault[k[2]] \in Nat
        /\ requests[k].bond_lamports \in Nat /\ ledger[k].bondStranded \in Nat
    BY KeyParts, RequestParts DEF TypeOK
  <1>2. /\ bondVault'[k[2]] = bondVault[k[2]] - requests[k].bond_lamports
        /\ \A id \in Id \ {k[2]} : bondVault'[id] = bondVault[id]
    BY <1>1 DEF VaultWithout, TypeOK
  <1>3. bondVault'[k[2]] - bondVault[k[2]] = BondHeld(k)' - BondHeld(k)
    BY <1>1, <1>2 DEF BondHeld
  <1>. QED BY <1>2, <1>3, VaultMoves

LEMMA ConservationRelease ==
  ASSUME IInv, ConservationInv, TypeOK', NEW k \in RequestKey, ReleaseExpiredClaim(k)
  PROVE  ConservationInv'
  <1>. USE DEF IInv, ConservationInv
  <1>1. requests[k] \in BridgeRequest /\ ledger[k] \in Ledger
    BY DEF TypeOK
  <1>2. /\ requests'[k] = Unclaimed(requests[k])
        /\ ledger'[k].bondStranded = ledger[k].bondStranded
        /\ ledger'[k].escrowed = ledger[k].escrowed
        /\ ledger'[k].paidIn = ledger[k].paidIn
        /\ \A j \in RequestKey \ {k} :
             requests'[j] = requests[j] /\ ledger'[j] = ledger[j]
    BY <1>1 DEF ReleaseExpiredClaim, TypeOK, Ledger
  <1>3. /\ requests'[k].bond_lamports = 0
        /\ requests'[k].token_mint = requests[k].token_mint
        /\ requests'[k].finalized = requests[k].finalized
        /\ requests'[k].amount_locked = requests[k].amount_locked
        /\ requests'[k].fee_locked = requests[k].fee_locked
    BY <1>1, <1>2 DEF Unclaimed, BridgeRequest
  <1>4. VaultConservation'
    BY <1>2, <1>3, VaultPaysBond DEF ReleaseExpiredClaim
  <1>5. TokenConservation'
    BY <1>2, <1>3, ClaimLeavesDeposits DEF ReleaseExpiredClaim, tokenVars
  <1>. QED BY <1>4, <1>5

LEMMA ConservationSettle ==
  ASSUME IInv, ConservationInv, TypeOK', NEW k \in RequestKey, NEW t \in Mint, VerifyAndSettleSpl(k, t)
  PROVE  ConservationInv'
  <1>. USE DEF IInv, ConservationInv
  <1>1. /\ requests[k] \in BridgeRequest /\ ledger[k] \in Ledger
        /\ Payout(k) \in Nat
        /\ ~requests[k].finalized
    BY SettleFacts DEF VerifyAndSettleSpl, Settleable
  <1>2. /\ requests'[k] = [Unclaimed(requests[k]) EXCEPT !.finalized = TRUE]
        /\ ledger'[k].bondStranded = ledger[k].bondStranded
        /\ ledger'[k].escrowed = ledger[k].escrowed
        /\ ledger'[k].paidIn = t
        /\ \A j \in RequestKey \ {k} :
             requests'[j] = requests[j] /\ ledger'[j] = ledger[j]
    BY <1>1 DEF VerifyAndSettleSpl, TypeOK, Ledger
  <1>3. /\ requests'[k].bond_lamports = 0 /\ requests'[k].finalized
        /\ requests'[k].token_mint = requests[k].token_mint
        /\ requests'[k].amount_locked = requests[k].amount_locked
        /\ requests'[k].fee_locked = requests[k].fee_locked
    BY <1>1, <1>2 DEF Unclaimed, BridgeRequest
  <1>4. VaultConservation'
    BY <1>2, <1>3, VaultPaysBond DEF VerifyAndSettleSpl
  <1>5. ASSUME NEW m \in Mint
        PROVE  Deposits(m)' - Deposits(m) = Held(m, k)' - Held(m, k)
    <2>1. Brought(m, k)' = Brought(m, k) /\ Brought(m, k) \in Nat
      BY <1>1, <1>2, <1>3 DEF Brought, Payout
    <2>2. Taken(m, k) = 0 /\ Taken(m, k)' = IF t = m THEN Payout(k) ELSE 0
      BY <1>1, <1>2, <1>3 DEF Taken, Payout
    <2>3. /\ escrow'[m] = IF t = m THEN escrow[m] - Payout(k) ELSE escrow[m]
          /\ liquidity' = liquidity /\ escrow[m] \in Nat /\ liquidity[m] \in Int
      BY <1>1 DEF VerifyAndSettleSpl, TypeOK
    <2>. QED BY <1>1, <2>1, <2>2, <2>3 DEF Deposits, Held
  <1>6. TokenConservation'
    BY <1>2, <1>5, EscrowMoves
  <1>. QED BY <1>4, <1>6

LEMMA ConservationElsewhere ==
  ASSUME IInv, ConservationInv, TypeOK',
         ConfigNext \/ PoolNext \/ Tick \/ UNCHANGED vars
  PROVE  ConservationInv'
  <1>. USE DEF IInv
  <1>1. UNCHANGED <<requests, ledger, bondVault>>
    BY DEF ConfigNext, InitConfig, SetConfig, PoolNext, DeliverTokens, DeliverTokensSol,
           Release, ProvideLiquidity, OpenWsolAccount, Tick, vars
  <1>2. \A t \in Mint : Deposits(t)' = Deposits(t)
    <2>1. CASE UNCHANGED <<escrow, liquidity>>
      BY <2>1 DEF Deposits
    <2>2. ASSUME NEW t \in Mint, NEW a \in Nat, Release(t, a)
          PROVE  \A m \in Mint : Deposits(m)' = Deposits(m)
      BY <2>2 DEF Release, Deposits, TypeOK
    <2>3. ASSUME NEW t \in Mint, NEW a \in Nat, ProvideLiquidity(t, a)
          PROVE  \A m \in Mint : Deposits(m)' = Deposits(m)
      BY <2>3 DEF ProvideLiquidity, Deposits, TypeOK
    <2>4. ConfigNext \/ OpenWsolAccount \/ Tick \/ UNCHANGED vars
            => UNCHANGED <<escrow, liquidity>>
      BY DEF ConfigNext, InitConfig, SetConfig, OpenWsolAccount, Tick, vars, tokenVars
    <2>5. PoolNext => \/ OpenWsolAccount
                      \/ \E t \in Mint, a \in Nat : Release(t, a) \/ ProvideLiquidity(t, a)
      BY ChoiceAssumption, KeyAssumption
      DEF PoolNext, DeliverTokens, DeliverTokensSol
    <2>. QED BY <2>1, <2>2, <2>3, <2>4, <2>5
  <1>3. VaultConservation'
    BY <1>1 DEF ConservationInv, VaultConservation
  <1>4. TokenConservation'
    <2>1. \A t : EscrowTerms(t)' = EscrowTerms(t)
      BY <1>1 DEF EscrowTerms, Held, Brought, Taken, Payout
    <2>2. \A t \in Mint : SumFunction(EscrowTerms(t)) \in Int
      BY TermsSummable, SumType
    <2>3. \A t \in Mint : /\ escrow[t] \in Int /\ escrow'[t] \in Int
                          /\ liquidity[t] \in Int /\ liquidity'[t] \in Int
      BY DEF TypeOK
    <2>4. ASSUME NEW t \in Mint
          PROVE  escrow'[t] = SumFunction(EscrowTerms(t)') + liquidity'[t]
      <3>1. escrow[t] = SumFunction(EscrowTerms(t)) + liquidity[t]
        BY SumsOfTerms DEF ConservationInv
      <3>. QED BY <1>2, <2>1, <2>2, <2>3, <3>1 DEF Deposits
    <2>. QED BY <2>4, SumsOfTerms
  <1>. QED BY <1>3, <1>4 DEF ConservationInv

LEMMA ConservationInit == Init => ConservationInv
  <1>. SUFFICES ASSUME Init PROVE ConservationInv
    OBVIOUS
  <1>. TypeOK
    BY TypeInit
  <1>1. ASSUME NEW id \in Id PROVE SumFunction(VaultTerms(id)) = 0
    <2>1. \A p \in Payer : VaultTerms(id)[p] = 0
      BY DEF Init, VaultTerms, RequestKey, NoRequest, NoLedger
    <2>. QED BY <2>1, TermsSummable, SumZero
  <1>2. ASSUME NEW t \in Mint PROVE SumFunction(EscrowTerms(t)) = 0
    <2>1. \A k \in RequestKey : EscrowTerms(t)[k] = 0
      BY DEF Init, EscrowTerms, Held, Brought, Taken, Payout, NoRequest
    <2>. QED BY <2>1, TermsSummable, SumZero
  <1>3. VaultConservation
    BY <1>1, SumsOfTerms DEF Init
  <1>4. TokenConservation
    BY <1>2, SumsOfTerms DEF Init
  <1>. QED BY <1>3, <1>4 DEF ConservationInv

LEMMA ConservationStep == IInv /\ ConservationInv /\ [Next]_vars => ConservationInv'
  <1>. SUFFICES ASSUME IInv, ConservationInv, [Next]_vars PROVE ConservationInv'
    OBVIOUS
  <1>1. TypeOK'
    BY TypeStep DEF IInv
  <1>2. CASE RequestNext
    BY <1>1, <1>2, KeyAssumption, ConservationLock, ConservationClaim,
       ConservationRelease, ConservationSettle
    DEF RequestNext, InitiateBridge, InitiateBridgeSol
  <1>. QED BY <1>1, <1>2, ConservationElsewhere DEF Next

LEMMA ConservationHolds == Spec => []ConservationInv
  BY SolanaInvHolds, ConservationInit, ConservationStep, PTL DEF Spec

\* A vault always holds the bonds of the requests that share its id, and what
\* reclaims left behind: settling or releasing one payer's request never pays
\* with the bond of another's.
THEOREM SolanaVaultConserved == Spec => []VaultConservation
  BY ConservationHolds, PTL DEF ConservationInv

\* An escrow account always holds what was transferred to it for requests of its
\* mint less what settlements paid in its mint, whichever requests they were for,
\* plus what was provided less what was released.
THEOREM SolanaTokensConserved == Spec => []TokenConservation
  BY ConservationHolds, PTL DEF ConservationInv

\* A vault that several payers share has each one's bond.
BondsCovered ==
  \A p \in Payer, id \in Id : requests[<<p, id>>].bond_lamports <= bondVault[id]

\* The payouts made in t were for requests of t whose tokens are in the escrow.
PaidToOwn(t) ==
  \A j \in RequestKey :
    requests[j].finalized /\ ledger[j].paidIn = t =>
      requests[j].token_mint = t /\ ledger[j].escrowed

\* An escrow account covers each unpaid request that brought its tokens there,
\* unless releases of the other direction took more than was provided or a request
\* was paid that brought none.
DepositsCovered ==
  \A t \in Mint : liquidity[t] >= 0 /\ PaidToOwn(t) =>
    \A k \in RequestKey : ~requests[k].finalized => Brought(t, k) <= escrow[t]

LEMMA ConservationCovers == IInv /\ ConservationInv => BondsCovered /\ DepositsCovered
  <1>. SUFFICES ASSUME IInv, ConservationInv PROVE BondsCovered /\ DepositsCovered
    OBVIOUS
  <1>0. TypeOK
    BY DEF IInv
  <1>1. BondsCovered
    <2>. SUFFICES ASSUME NEW p \in Payer, NEW id \in Id
                  PROVE  requests[<<p, id>>].bond_lamports <= bondVault[id]
      BY DEF BondsCovered
    <2>1. \A q \in Payer : /\ requests[<<q, id>>].bond_lamports \in Nat
                           /\ ledger[<<q, id>>].bondStranded \in Nat
      BY <1>0, RequestParts DEF RequestKey
    <2>2. VaultTerms(id) \in [Payer -> Nat] /\ IsFiniteSet(Payer)
      BY <2>1, FinitenessAssumption DEF VaultTerms
    <2>3. VaultTerms(id)[p] <= bondVault[id]
      BY <2>2, TermWithinSum, SumsOfTerms DEF ConservationInv
    <2>4. VaultTerms(id)[p] = requests[<<p, id>>].bond_lamports + ledger[<<p, id>>].bondStranded
      BY DEF VaultTerms
    <2>5. bondVault[id] \in Nat
      BY <1>0 DEF TypeOK
    <2>. QED BY <2>1, <2>3, <2>4, <2>5
  <1>2. DepositsCovered
    <2>. SUFFICES ASSUME NEW t \in Mint, liquidity[t] >= 0, PaidToOwn(t),
                         NEW k \in RequestKey, ~requests[k].finalized
                  PROVE  Brought(t, k) <= escrow[t]
      BY DEF DepositsCovered
    <2>0. ASSUME NEW j \in RequestKey PROVE Held(t, j) \in Nat
      <3>1. Payout(j) \in Nat
        BY <1>0, RequestParts DEF Payout
      <3>2. CASE requests[j].finalized /\ ledger[j].paidIn = t
        BY <3>1, <3>2 DEF PaidToOwn, Held, Brought, Taken
      <3>3. CASE ~(requests[j].finalized /\ ledger[j].paidIn = t)
        BY <3>1, <3>3 DEF Held, Brought, Taken
      <3>. QED BY <3>2, <3>3
    <2>1. EscrowTerms(t) \in [RequestKey -> Nat] /\ IsFiniteSet(RequestKey)
      BY <1>0, <2>0, TermsSummable DEF EscrowTerms, Summable
    <2>2. EscrowTerms(t)[k] = Brought(t, k)
      <3>1. Payout(k) \in Nat
        BY <1>0, RequestParts DEF Payout
      <3>. QED BY <3>1 DEF EscrowTerms, Held, Brought, Taken
    <2>. DEFINE sum == SumFunction(EscrowTerms(t))
    <2>3. Brought(t, k) <= sum
      BY <2>1, <2>2, TermWithinSum
    <2>4. escrow[t] = sum + liquidity[t]
      BY SumsOfTerms DEF ConservationInv
    <2>5. /\ sum \in Int /\ liquidity[t] \in Int /\ escrow[t] \in Nat
          /\ Brought(t, k) \in Nat
      BY <1>0, <2>1, <2>2, TermsSummable, SumType DEF TypeOK
    <2>. HIDE DEF sum
    <2>. QED BY <2>3, <2>4, <2>5
  <1>. QED BY <1>1, <1>2

\* A vault shared by an id covers every claim on it.  An escrow account covers the
\* requests that brought their tokens to it: what can spend those is a release of
\* the other direction or a payout for a request that did not
\* (deposit.rs:32-36, verify_and_settle.rs:36-53, release_spl.rs).
THEOREM SolanaClaimsAreFunded == Spec => [](BondsCovered /\ DepositsCovered)
  BY SolanaInvHolds, ConservationHolds, ConservationCovers, PTL
-----------------------------------------------------------------------------
(***************************************************************************)
(* The program implements EscrowLifecycle.                                  *)
(***************************************************************************)

LEMMA PhaseCases ==
  ASSUME NEW k \in RequestKey
  PROVE  /\ ~Exists(k) => EscrowPhase[k] = "none"
         /\ Exists(k) /\ requests[k].finalized => EscrowPhase[k] = "paid"
         /\ Exists(k) /\ ~requests[k].finalized /\ requests[k].claimed
              => EscrowPhase[k] = "claimed"
         /\ Exists(k) /\ ~requests[k].finalized /\ ~requests[k].claimed
              => EscrowPhase[k] = "open"
  BY DEF EscrowPhase

LEMMA PhaseCasesNext ==
  ASSUME NEW k \in RequestKey
  PROVE  /\ ~Exists(k)' => EscrowPhase'[k] = "none"
         /\ Exists(k)' /\ requests'[k].finalized => EscrowPhase'[k] = "paid"
         /\ Exists(k)' /\ ~requests'[k].finalized /\ requests'[k].claimed
              => EscrowPhase'[k] = "claimed"
         /\ Exists(k)' /\ ~requests'[k].finalized /\ ~requests'[k].claimed
              => EscrowPhase'[k] = "open"
  BY DEF EscrowPhase

\* An instruction on one request changes one entry of each mapped function.
LEMMA MapsElsewhere ==
  ASSUME NEW k \in RequestKey,
         \A j \in RequestKey \ {k} :
           requests'[j] = requests[j] /\ ledger'[j] = ledger[j]
  PROVE  /\ EscrowPhase'  = [EscrowPhase  EXCEPT ![k] = EscrowPhase'[k]]
         /\ EscrowHolder' = [EscrowHolder EXCEPT ![k] = EscrowHolder'[k]]
         /\ EscrowExpiry' = [EscrowExpiry EXCEPT ![k] = EscrowExpiry'[k]]
         /\ EscrowLocked' = [EscrowLocked EXCEPT ![k] = EscrowLocked'[k]]
         /\ EscrowPayee'  = [EscrowPayee  EXCEPT ![k] = EscrowPayee'[k]]
  <1>1. \A j \in RequestKey \ {k} : EscrowPhase'[j] = EscrowPhase[j]
    BY PhaseCases, PhaseCasesNext DEF Exists
  <1>2. EscrowPhase' = [EscrowPhase EXCEPT ![k] = EscrowPhase'[k]]
    <2>. DEFINE f == EscrowPhase
                g == EscrowPhase'
    <2>1. DOMAIN f = RequestKey /\ DOMAIN g = RequestKey
      BY DEF EscrowPhase
    <2>2. f = [j \in RequestKey |-> f[j]] /\ g = [j \in RequestKey |-> g[j]]
      BY DEF EscrowPhase
    <2>3. \A j \in RequestKey \ {k} : f[j] = g[j]
      BY <1>1
    <2>4. QED
      <3>. HIDE DEF f, g
      <3>1. g = [f EXCEPT ![k] = g[k]]
        BY <2>1, <2>2, <2>3
      <3>2. QED
        BY <3>1 DEF f, g
  <1>3. QED
    BY <1>2 DEF EscrowHolder, EscrowExpiry, EscrowLocked, EscrowPayee

LEMMA InitRefines == Init => Escrow!Init
  <1>. SUFFICES ASSUME Init PROVE Escrow!Init
    OBVIOUS
  <1>1. \A k \in RequestKey : EscrowPhase[k] = "none"
    BY PhaseCases DEF Init, Exists, NoRequest
  <1>2. EscrowPhase = [k \in RequestKey |-> "none"]
    BY <1>1 DEF EscrowPhase
  <1>3. EscrowLocked = [k \in RequestKey |-> 0]
    BY DEF Init, EscrowLocked, NoRequest
  <1>4. EscrowHolder = [k \in RequestKey |-> DefaultKey]
    BY DEF Init, EscrowHolder, NoRequest
  <1>5. EscrowExpiry = [k \in RequestKey |-> 0]
    BY DEF Init, EscrowExpiry, NoRequest
  <1>6. EscrowPayee = [k \in RequestKey |-> DefaultKey]
    BY DEF Init, EscrowPayee, NoLedger
  <1>7. now \in Nat
    BY DEF Init
  <1>8. QED
    BY <1>2, <1>3, <1>4, <1>5, <1>6, <1>7 DEF Escrow!Init

LEMMA LockRefines ==
  ASSUME IInv, NEW p \in Payer, NEW id \in Id, NEW t \in Mint, NEW a \in Amounts,
         NEW e \in BOOLEAN, Lock(p, id, t, a, e)
  PROVE  Escrow!Next
  <1>. USE DEF IInv, SafetyInv
  <1>1. PICK k \in RequestKey : k = <<p, id>>
    BY DEF RequestKey
  <1>2. /\ a \in Nat /\ p # DefaultKey
        /\ SaturatingSub(a, Fee(a)) + Fee(a) = a
    BY ChoiceAssumption, KeyAssumption, FeeParts
  <1>3. ~Exists(k) /\ requests[k] = NoRequest /\ ledger[k] \in Ledger
    BY <1>1 DEF Lock, RequestTableOK, TypeOK
  <1>4. /\ requests'[k].payer = p /\ ~requests'[k].finalized
        /\ ~requests'[k].claimed /\ requests'[k].solver = DefaultKey
        /\ requests'[k].claim_deadline = 0
        /\ requests'[k].amount_locked + requests'[k].fee_locked = a
        /\ now' = now
    BY <1>1, <1>2 DEF Lock, TypeOK
  <1>5. ledger'[k].payee = ledger[k].payee
    BY <1>1, <1>3 DEF Lock, TypeOK, Ledger
  <1>6. \A j \in RequestKey \ {k} :
          requests'[j] = requests[j] /\ ledger'[j] = ledger[j]
    BY <1>1 DEF Lock, TypeOK
  <1>7. EscrowPhase[k] = "none" /\ EscrowPhase'[k] = "open"
    BY <1>2, <1>3, <1>4, PhaseCases, PhaseCasesNext DEF Exists
  <1>8. EscrowLocked'[k] = a
    BY <1>4 DEF EscrowLocked
  <1>9. UNCHANGED <<EscrowHolder, EscrowExpiry, EscrowPayee>>
    <2>1. \A j \in RequestKey :
            /\ requests'[j].solver = requests[j].solver
            /\ requests'[j].claim_deadline = requests[j].claim_deadline
            /\ ledger'[j].payee = ledger[j].payee
      BY <1>3, <1>4, <1>5, <1>6 DEF NoRequest
    <2>2. QED
      BY <2>1 DEF EscrowHolder, EscrowExpiry, EscrowPayee
  <1>10. Escrow!Open(k)
    BY <1>2, <1>4, <1>6, <1>7, <1>8, <1>9, MapsElsewhere DEF Escrow!Open
  <1>11. QED
    BY <1>10 DEF Escrow!Next

LEMMA ClaimRefines ==
  ASSUME IInv, NEW s \in SolverKey, NEW k \in RequestKey, ClaimBridge(s, k)
  PROVE  Escrow!Next
  <1>. USE DEF IInv
  <1>1. /\ Exists(k) /\ ~requests[k].finalized /\ (requests[k].claimed => Expired(k))
        /\ requests[k] \in BridgeRequest /\ ledger[k] \in Ledger
        /\ now \in Nat /\ config.claim_window_secs \in Nat
    BY DEF ClaimBridge, Claimable, TypeOK, BridgeConfig
  <1>2. /\ requests'[k] =
             [requests[k] EXCEPT !.claimed = TRUE, !.solver = s,
                !.claim_deadline = now + config.claim_window_secs,
                !.bond_lamports = config.min_solver_bond]
        /\ now' = now
    BY DEF ClaimBridge, TypeOK
  <1>3. /\ requests'[k].payer = requests[k].payer
        /\ requests'[k].claimed /\ requests'[k].solver = s
        /\ requests'[k].finalized = requests[k].finalized
        /\ requests'[k].amount_locked = requests[k].amount_locked
        /\ requests'[k].fee_locked = requests[k].fee_locked
        /\ requests'[k].claim_deadline = now + config.claim_window_secs
        /\ now' = now
    BY <1>1, <1>2 DEF BridgeRequest
  <1>4. ledger'[k].payee = ledger[k].payee
    BY <1>1 DEF ClaimBridge, TypeOK, Ledger
  <1>5. \A j \in RequestKey \ {k} :
          requests'[j] = requests[j] /\ ledger'[j] = ledger[j]
    BY DEF ClaimBridge, TypeOK
  <1>6. EscrowPhase'[k] = "claimed"
    BY <1>1, <1>3, PhaseCasesNext DEF Exists
  <1>7. /\ EscrowHolder'[k] = s
        /\ EscrowExpiry'[k] \in Nat /\ EscrowExpiry'[k] >= now
    BY <1>1, <1>3 DEF EscrowHolder, EscrowExpiry
  <1>8. UNCHANGED <<EscrowLocked, EscrowPayee>>
    BY <1>3, <1>4, <1>5 DEF EscrowLocked, EscrowPayee
  <1>9. Escrow!MayChangeHands(k)
    <2>1. CASE ~requests[k].claimed
      BY <1>1, <2>1, PhaseCases DEF Escrow!MayChangeHands
    <2>2. CASE requests[k].claimed
      <3>1. requests[k].claim_deadline \in Nat /\ now > requests[k].claim_deadline
        BY <1>1, <2>2 DEF BridgeRequest, Expired
      <3>2. EscrowPhase[k] = "claimed" /\ now >= EscrowExpiry[k]
        BY <1>1, <2>2, <3>1, PhaseCases DEF EscrowExpiry
      <3>3. QED
        BY <3>2 DEF Escrow!MayChangeHands
    <2>3. QED
      BY <2>1, <2>2
  <1>10. Escrow!Claim(k, s)
    BY <1>3, <1>5, <1>6, <1>7, <1>8, <1>9, MapsElsewhere DEF Escrow!Claim
  <1>11. QED
    BY <1>10 DEF Escrow!Next

\* What a settlement or a release leaves of the claim.
LEMMA UnclaimedMaps ==
  ASSUME NEW k \in RequestKey, requests[k] \in BridgeRequest,
         \/ requests'[k] = Unclaimed(requests[k])
         \/ requests'[k] = [Unclaimed(requests[k]) EXCEPT !.finalized = TRUE]
  PROVE  /\ EscrowHolder'[k] = DefaultKey /\ EscrowExpiry'[k] = 0
         /\ ~requests'[k].claimed
         /\ requests'[k].payer = requests[k].payer
         /\ requests'[k].amount_locked = requests[k].amount_locked
         /\ requests'[k].fee_locked = requests[k].fee_locked
  <1>1. requests'[k] \in {Unclaimed(requests[k]),
                          [Unclaimed(requests[k]) EXCEPT !.finalized = TRUE]}
    OBVIOUS
  <1>2. QED
    BY <1>1, UnclaimedFacts DEF EscrowHolder, EscrowExpiry

LEMMA ReleaseRefines ==
  ASSUME IInv, NEW k \in RequestKey, ReleaseExpiredClaim(k)
  PROVE  Escrow!Next
  <1>. USE DEF IInv, SafetyInv
  <1>1. /\ requests[k].claimed /\ now > requests[k].claim_deadline
        /\ requests[k] \in BridgeRequest /\ ledger[k] \in Ledger
        /\ ~requests[k].finalized /\ Exists(k)
        /\ now \in Nat /\ requests[k].claim_deadline \in Nat
    BY DEF ReleaseExpiredClaim, Expired, TypeOK, BridgeRequest, RequestTableOK,
           NoRequest
  <1>2. requests'[k] = Unclaimed(requests[k]) /\ now' = now
    BY DEF ReleaseExpiredClaim, TypeOK
  <1>3. requests'[k].finalized = requests[k].finalized
    BY <1>1, <1>2, UnclaimedFacts
  <1>4. ledger'[k].payee = ledger[k].payee
    BY <1>1 DEF ReleaseExpiredClaim, TypeOK, Ledger
  <1>5. \A j \in RequestKey \ {k} :
          requests'[j] = requests[j] /\ ledger'[j] = ledger[j]
    BY DEF ReleaseExpiredClaim, TypeOK
  <1>6. /\ EscrowHolder'[k] = DefaultKey /\ EscrowExpiry'[k] = 0
        /\ ~requests'[k].claimed
        /\ requests'[k].payer = requests[k].payer
        /\ requests'[k].amount_locked = requests[k].amount_locked
        /\ requests'[k].fee_locked = requests[k].fee_locked
    BY <1>1, <1>2, UnclaimedMaps
  <1>7. EscrowPhase[k] = "claimed" /\ EscrowPhase'[k] = "open"
    BY <1>1, <1>3, <1>6, PhaseCases, PhaseCasesNext DEF Exists
  <1>8. UNCHANGED <<EscrowLocked, EscrowPayee>>
    BY <1>3, <1>4, <1>5, <1>6 DEF EscrowLocked, EscrowPayee
  <1>9. now >= EscrowExpiry[k]
    BY <1>1 DEF EscrowExpiry
  <1>10. Escrow!Release(k)
    BY <1>2, <1>5, <1>6, <1>7, <1>8, <1>9, MapsElsewhere DEF Escrow!Release
  <1>11. QED
    BY <1>10 DEF Escrow!Next

LEMMA SettleRefines ==
  ASSUME IInv, NEW k \in RequestKey, NEW t \in Mint, VerifyAndSettleSpl(k, t)
  PROVE  Escrow!Next
  <1>. USE DEF IInv, SafetyInv
  <1>1. /\ requests[k].claimed /\ ~requests[k].finalized
        /\ now <= requests[k].claim_deadline
        /\ requests[k] \in BridgeRequest /\ ledger[k] \in Ledger /\ Exists(k)
    BY DEF VerifyAndSettleSpl, Settleable, TypeOK, RequestTableOK, NoRequest
  <1>2. /\ requests'[k] = [Unclaimed(requests[k]) EXCEPT !.finalized = TRUE]
        /\ now' = now
    BY DEF VerifyAndSettleSpl, TypeOK
  <1>3. requests'[k].finalized
    BY <1>1, <1>2, UnclaimedFacts
  <1>4. ledger'[k].payee = requests[k].solver
    <2>1. ledger' = [ledger EXCEPT ![k] =
              [ledger[k] EXCEPT
                 !.paidOut = ledger[k].paidOut + Payout(k), !.paidIn = t,
                 !.payee = requests[k].solver,
                 !.bondReturned = ledger[k].bondReturned
                                    + requests[k].bond_lamports]]
      BY SettleFacts
    <2>2. QED
      BY <1>1, <2>1 DEF TypeOK, Ledger
  <1>5. \A j \in RequestKey \ {k} :
          requests'[j] = requests[j] /\ ledger'[j] = ledger[j]
    BY DEF VerifyAndSettleSpl, TypeOK
  <1>6. /\ EscrowHolder'[k] = DefaultKey /\ EscrowExpiry'[k] = 0
        /\ requests'[k].payer = requests[k].payer
    BY <1>1, <1>2, UnclaimedMaps
  <1>7. EscrowPhase[k] = "claimed" /\ EscrowPhase'[k] = "paid"
    BY <1>1, <1>3, <1>6, PhaseCases, PhaseCasesNext DEF Exists
  <1>8. EscrowLocked'[k] = 0
    BY <1>3 DEF EscrowLocked
  <1>9. EscrowPayee'[k] = EscrowHolder[k] /\ now <= EscrowExpiry[k]
    BY <1>1, <1>4 DEF EscrowPayee, EscrowHolder, EscrowExpiry
  <1>10. Escrow!Pay(k)
    BY <1>2, <1>5, <1>6, <1>7, <1>8, <1>9, MapsElsewhere DEF Escrow!Pay
  <1>11. QED
    BY <1>10 DEF Escrow!Next

LEMMA RequestsUnchanged ==
  UNCHANGED requestVars =>
    UNCHANGED <<EscrowPhase, EscrowHolder, EscrowExpiry, EscrowLocked, EscrowPayee>>
  BY DEF requestVars, EscrowPhase, EscrowHolder, EscrowExpiry, EscrowLocked,
         EscrowPayee, Exists

LEMMA StepRefines == IInv /\ [Next]_vars => [Escrow!Next]_(Escrow!vars)
  <1>. SUFFICES ASSUME IInv, [Next]_vars
                PROVE  Escrow!Next \/ UNCHANGED Escrow!vars
    OBVIOUS
  <1>1. CASE RequestNext
    <2>1. ASSUME NEW p \in Payer, NEW id \in Id, NEW a \in Amounts,
                 InitiateBridgeSol(p, id, a)
          PROVE  Escrow!Next
      BY <2>1, LockRefines, KeyAssumption DEF InitiateBridgeSol
    <2>2. ASSUME NEW p \in Payer, NEW id \in Id, NEW t \in Mint, NEW a \in Amounts,
                 NEW e \in BOOLEAN, InitiateBridge(p, id, t, a, e)
          PROVE  Escrow!Next
      BY <2>2, LockRefines DEF InitiateBridge
    <2>3. QED
      BY <1>1, <2>1, <2>2, ClaimRefines, ReleaseRefines, SettleRefines
      DEF RequestNext
  <1>2. CASE ConfigNext \/ PoolNext \/ UNCHANGED vars
    <2>1. now' = now
      BY <1>2 DEF ConfigNext, InitConfig, SetConfig, PoolNext, DeliverTokens,
                  DeliverTokensSol, Release, ProvideLiquidity, OpenWsolAccount, vars
    <2>2. QED
      BY <1>2, <2>1, OthersLeaveRequests, RequestsUnchanged DEF Escrow!vars
  <1>3. CASE Tick
    <2>1. now' \in Nat /\ now' > now
      BY <1>3 DEF Tick, IInv, TypeOK
    <2>2. Escrow!AdvanceClock
      BY <1>3, <2>1, OthersLeaveRequests, RequestsUnchanged
      DEF Escrow!AdvanceClock
    <2>3. QED
      BY <2>2 DEF Escrow!Next
  <1>4. QED
    BY <1>1, <1>2, <1>3 DEF Next

\* Every behaviour of the program is one of the escrow, as every behaviour of the
\* EVM contract is: requests change hands by the same rules on both chains.
THEOREM SolanaRefinement == Spec => ImplementsEscrow
  BY InitRefines, StepRefines, SolanaInvHolds, PTL
  DEF Spec, ImplementsEscrow, Escrow!Spec
=============================================================================
