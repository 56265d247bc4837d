-------------------------- MODULE NewRelayerProofs --------------------------
(***************************************************************************)
(* Theorems about the EVM contract, for every set of accounts and tokens,   *)
(* every configuration and every bound: its types, what it keeps true of    *)
(* each request, of its money and of its list of nodes, and that it         *)
(* implements EscrowLifecycle.                                              *)
(***************************************************************************)
EXTENDS NewRelayer, BridgeLemmas

-----------------------------------------------------------------------------
(***************************************************************************)
(* The values a step computes have their types.                             *)
(***************************************************************************)

\* Splitting the bond of an expired claim: three natural numbers that add up.
LEMMA ForfeitParts ==
  ASSUME TypeOK, NEW r \in RequestId
  PROVE  /\ requestClaim[r].bond \in Nat
         /\ Slashed(r) \in Nat /\ Leftover(r) \in Nat /\ SentSlash(r) \in Nat
         /\ Slashed(r) - SentSlash(r) \in Nat
         /\ EthOut(r) \in Nat
         /\ Slashed(r) + Leftover(r) = requestClaim[r].bond
         /\ EthOut(r) = SentSlash(r) + Leftover(r)
  <1>1. requestClaim[r].bond \in Nat /\ config.slashBps \in 0..BpsDenominator
    BY DEF TypeOK, ClaimType, Config
  <1>2. Slashed(r) \in Nat /\ Slashed(r) <= requestClaim[r].bond
    BY <1>1, SlashWithinBond DEF Slashed
  <1>3. Leftover(r) \in Nat /\ Slashed(r) + Leftover(r) = requestClaim[r].bond
    BY <1>1, <1>2 DEF Leftover
  <1>4. SentSlash(r) \in Nat /\ Slashed(r) - SentSlash(r) \in Nat
    BY <1>2 DEF SentSlash
  <1>5. QED
    BY <1>1, <1>2, <1>3, <1>4 DEF EthOut

\* Forfeiting a claim accounts for its whole bond and nothing else.
LEMMA ForfeitedLedgerFacts ==
  ASSUME TypeOK, NEW r \in RequestId
  PROVE  LET l == ForfeitedLedger(r)
         IN  /\ l \in Ledger
             /\ l.deposited = ledger[r].deposited
             /\ l.paidOut = ledger[r].paidOut
             /\ l.payee = ledger[r].payee
             /\ l.bondPosted = ledger[r].bondPosted
             /\ l.bondReturned + l.bondSlashed + l.bondKept
                  = ledger[r].bondReturned + ledger[r].bondSlashed
                      + ledger[r].bondKept + requestClaim[r].bond
  <1>1. ledger[r] \in Ledger
    BY DEF TypeOK
  <1>. DEFINE l == ForfeitedLedger(r)
  <1>2. /\ l.deposited = ledger[r].deposited
        /\ l.paidOut = ledger[r].paidOut
        /\ l.payee = ledger[r].payee
        /\ l.bondPosted = ledger[r].bondPosted
        /\ l.bondReturned = ledger[r].bondReturned + Leftover(r)
        /\ l.bondSlashed = ledger[r].bondSlashed + SentSlash(r)
        /\ l.bondKept = ledger[r].bondKept + (Slashed(r) - SentSlash(r))
    BY <1>1 DEF ForfeitedLedger, Ledger
  <1>3. /\ l.bondReturned \in Nat /\ l.bondSlashed \in Nat /\ l.bondKept \in Nat
        /\ l.bondReturned + l.bondSlashed + l.bondKept
             = ledger[r].bondReturned + ledger[r].bondSlashed
                 + ledger[r].bondKept + requestClaim[r].bond
    BY <1>1, <1>2, ForfeitParts DEF Ledger
  <1>4. l \in Ledger
    <2>1. \A x \in Ledger : \A a, b, c \in Nat :
            [x EXCEPT !.bondReturned = a, !.bondSlashed = b, !.bondKept = c]
              \in Ledger
      BY DEF Ledger
    <2>2. QED
      BY <1>1, <1>2, <1>3, <2>1 DEF ForfeitedLedger
  <1>5. QED
    BY <1>2, <1>3, <1>4

\* The terms of a new request: fee and net amount make up the deposit.
LEMMA RequestTerms ==
  ASSUME TypeOK, NEW amount \in Amounts, amount # 0
  PROVE  /\ amount \in Nat
         /\ CalculateFee(config, amount) \in Nat
         /\ amount - CalculateFee(config, amount) \in Nat
  <1>1. amount \in Nat \ {0} /\ FeeConfig(config)
    BY InputAssumption DEF TypeOK, Config, FeeConfig
  <1>2. QED
    BY <1>1, FeeLeavesRemainder
-----------------------------------------------------------------------------
(***************************************************************************)
(* Type correctness.                                                        *)
(***************************************************************************)

LEMMA TypeInit == Init => TypeOK
  <1>. SUFFICES ASSUME Init PROVE TypeOK
    OBVIOUS
  <1>1. ZeroAddress \notin Node /\ DefaultConfig \in Config
    BY AddressAssumption
  <1>2. 0 \in 0..MaxRequests
    BY BoundAssumption
  <1>3. NoClaim \in ClaimType /\ NoLedger \in Ledger
    BY DEF NoClaim, ClaimType, NoLedger, Ledger
  <1>4. QED
    BY <1>1, <1>2, <1>3 DEF Init, TypeOK

\* The owner only ever stores a configuration the code's checks let through.
LEMMA TypeAdmin == TypeOK /\ AdminNext => TypeOK'
  <1>. SUFFICES ASSUME TypeOK, AdminNext PROVE TypeOK'
    OBVIOUS
  <1>. USE DEF Config
  <1>1. ASSUME NEW a \in NewRelayers, UpdateRelayer(a)
        PROVE  TypeOK'
    <2>1. a \in RelayerAccount
      BY <1>1, InputAssumption DEF UpdateRelayer
    <2>2. config' \in Config
      BY <1>1, <2>1 DEF UpdateRelayer, SetConfig, TypeOK
    <2>3. QED
      BY <1>1, <2>2 DEF UpdateRelayer, SetConfig, TypeOK, requestVars, moneyVars
  <1>2. ASSUME NEW p \in FeePercentages, UpdateFeePercentage(p)
        PROVE  TypeOK'
    <2>1. p \in Nat
      BY InputAssumption
    <2>2. config' \in Config
      BY <1>2, <2>1 DEF UpdateFeePercentage, SetConfig, TypeOK
    <2>3. QED
      BY <1>2, <2>2 DEF UpdateFeePercentage, SetConfig, TypeOK, requestVars, moneyVars
  <1>3. ASSUME NEW l \in FeeLimits, UpdateFeeLimits(l[1], l[2])
        PROVE  TypeOK'
    <2>1. l[1] \in Nat /\ l[2] \in Nat
      BY InputAssumption
    <2>2. config' \in Config
      BY <1>3, <2>1 DEF UpdateFeeLimits, SetConfig, TypeOK
    <2>3. QED
      BY <1>3, <2>2 DEF UpdateFeeLimits, SetConfig, TypeOK, requestVars, moneyVars
  <1>4. ASSUME NEW w \in ClaimWindows, UpdateClaimWindow(w)
        PROVE  TypeOK'
    <2>1. config' \in Config
      BY <1>4 DEF UpdateClaimWindow, SetConfig, TypeOK
    <2>2. QED
      BY <1>4, <2>1 DEF UpdateClaimWindow, SetConfig, TypeOK, requestVars, moneyVars
  <1>5. ASSUME NEW b \in MinBonds, UpdateMinSolverBond(b)
        PROVE  TypeOK'
    <2>1. b \in Nat
      BY InputAssumption
    <2>2. config' \in Config
      BY <1>5, <2>1 DEF UpdateMinSolverBond, SetConfig, TypeOK
    <2>3. QED
      BY <1>5, <2>2 DEF UpdateMinSolverBond, SetConfig, TypeOK, requestVars, moneyVars
  <1>6. ASSUME NEW s \in SlashParams, UpdateSlashParams(s[1], s[2])
        PROVE  TypeOK'
    <2>1. s[1] \in Nat /\ s[2] \in Collector \cup {ZeroAddress}
      BY InputAssumption
    <2>2. s[1] <= BpsDenominator
      BY <1>6 DEF UpdateSlashParams
    <2>3. s[1] \in 0..BpsDenominator
      <3>1. \A x \in Nat : x <= BpsDenominator => x \in 0..BpsDenominator
        BY DEF BpsDenominator
      <3>2. QED
        BY <2>1, <2>2, <3>1
    <2>4. config' \in Config
      BY <1>6, <2>1, <2>3 DEF UpdateSlashParams, SetConfig, TypeOK
    <2>5. QED
      BY <1>6, <2>4 DEF UpdateSlashParams, SetConfig, TypeOK, requestVars, moneyVars
  <1>7. ASSUME NEW n \in Node, AuthorizeNode(n)
        PROVE  TypeOK'
    <2>1. authorizedNodes' \subseteq Node /\ nodesList' \in Seq(Node)
      BY <1>7 DEF AuthorizeNode, TypeOK
    <2>2. QED
      BY <1>7, <2>1 DEF AuthorizeNode, TypeOK, requestVars, moneyVars
  <1>8. ASSUME NEW n \in Revocable, RevokeNode(n)
        PROVE  TypeOK'
    BY <1>8 DEF RevokeNode, TypeOK, requestVars, moneyVars
  <1>9. QED
    BY <1>1, <1>2, <1>3, <1>4, <1>5, <1>6, <1>7, <1>8 DEF AdminNext

LEMMA TypeInitiate ==
  ASSUME TypeOK, NEW u \in User, NEW t \in Token, NEW a \in Amounts,
         InitiateBridge(u, t, a)
  PROVE  TypeOK'
  <1>. DEFINE r == bridgeNonce + 1
              fee == CalculateFee(config, a)
  <1>1. a \in Nat /\ fee \in Nat /\ a - fee \in Nat
    BY RequestTerms DEF InitiateBridge
  <1>2. r \in RequestId /\ bridgeNonce' \in 0..MaxRequests
    BY BoundAssumption DEF InitiateBridge, TypeOK, RequestId
  <1>3. bridgeRequests' \in [RequestId -> Request \cup {NoRequest}]
    <2>1. [sender |-> u, token |-> t, amount |-> a - fee, fee |-> fee,
           finalized |-> FALSE] \in Request
      BY <1>1 DEF Request
    <2>2. QED
      BY <2>1, <1>2 DEF InitiateBridge, TypeOK
  <1>4. requestFeeEscrow' \in [RequestId -> Nat]
    BY <1>1 DEF InitiateBridge, TypeOK
  <1>5. fheReaders' \in [RequestId -> SUBSET Account]
    <2>1. {u, config.relayer} \subseteq Account
      BY DEF Account, TypeOK, Config
    <2>2. QED
      BY <2>1 DEF InitiateBridge, TypeOK
  <1>6. ledger' \in [RequestId -> Ledger]
    BY <1>1, <1>2 DEF InitiateBridge, TypeOK, Ledger
  <1>7. tokenBalance' \in [Token -> Nat]
    BY <1>1 DEF InitiateBridge, TypeOK
  <1>8. QED
    BY <1>2, <1>3, <1>4, <1>5, <1>6, <1>7
    DEF InitiateBridge, TypeOK, adminVars

LEMMA TypeClaim ==
  ASSUME TypeOK, NEW n \in Node, NEW r \in RequestId, NEW v \in BondValues,
         ClaimBridge(n, r, v)
  PROVE  TypeOK'
  <1>. DEFINE entry == IF Claimed(r) THEN ForfeitedLedger(r) ELSE ledger[r]
  <1>1. v \in Nat /\ now + config.claimWindow \in Nat
    BY InputAssumption, BoundAssumption DEF TypeOK, Config
  <1>2. requestClaim' \in [RequestId -> ClaimType]
    <2>1. [solver |-> n, claimedAt |-> now,
           deadline |-> now + config.claimWindow, bond |-> v] \in ClaimType
      BY <1>1 DEF ClaimType, TypeOK
    <2>2. QED
      BY <2>1 DEF ClaimBridge, TypeOK
  <1>3. fheReaders' \in [RequestId -> SUBSET Account]
    BY DEF ClaimBridge, TypeOK, Account
  <1>4. ethBalance' \in Nat
    <2>1. EthOut(r) \in Nat /\ ethBalance \in Nat
      BY ForfeitParts DEF TypeOK
    <2>2. Claimed(r) => EthOut(r) <= ethBalance + v
      BY DEF ClaimBridge, ForfeitPays
    <2>3. ethBalance' = ethBalance + v - (IF Claimed(r) THEN EthOut(r) ELSE 0)
      BY DEF ClaimBridge
    <2>4. QED
      BY <1>1, <2>1, <2>2, <2>3
  <1>5. ledger' \in [RequestId -> Ledger]
    <2>1. entry \in Ledger
      BY ForfeitedLedgerFacts DEF TypeOK
    <2>2. [entry EXCEPT !.bondPosted = entry.bondPosted + v] \in Ledger
      BY <1>1, <2>1 DEF Ledger
    <2>3. ledger' = [ledger EXCEPT ![r] =
                       [entry EXCEPT !.bondPosted = entry.bondPosted + v]]
      BY DEF ClaimBridge
    <2>4. QED
      BY <2>2, <2>3 DEF TypeOK
  <1>6. QED
    BY <1>2, <1>3, <1>4, <1>5 DEF ClaimBridge, TypeOK, adminVars

LEMMA TypeSettle ==
  ASSUME TypeOK, NEW r \in RequestId, VerifyAndSettle(r)
  PROVE  TypeOK'
  <1>1. /\ bridgeRequests[r] \in Request
        /\ requestClaim[r] \in ClaimType /\ requestClaim[r].solver \in Node
    BY AddressAssumption
    DEF VerifyAndSettle, Settleable, Exists, Claimed, TypeOK, NoRequest, ClaimType
  <1>2. Payout(r) \in Nat
    BY <1>1 DEF Payout, Request, TypeOK
  <1>3. requestFeeEscrow' \in [RequestId -> Nat]
    BY DEF VerifyAndSettle, TypeOK
  <1>4. bridgeRequests' \in [RequestId -> Request \cup {NoRequest}]
    <2>1. [bridgeRequests[r] EXCEPT !.finalized = TRUE] \in Request
      BY <1>1 DEF Request
    <2>2. QED
      BY <2>1 DEF VerifyAndSettle, TypeOK
  <1>5. tokenBalance' \in [Token -> Nat]
    BY <1>1, <1>2 DEF VerifyAndSettle, TypeOK, Request
  <1>6. ethBalance' \in Nat
    BY <1>1 DEF VerifyAndSettle, TypeOK, ClaimType
  <1>7. requestClaim' \in [RequestId -> ClaimType]
    BY DEF VerifyAndSettle, TypeOK, NoClaim, ClaimType
  <1>8. ledger' \in [RequestId -> Ledger]
    <2>1. /\ ledger[r] \in Ledger
          /\ ledger[r].paidOut + Payout(r) \in Nat
          /\ ledger[r].bondReturned + requestClaim[r].bond \in Nat
      BY <1>1, <1>2 DEF TypeOK, Ledger, ClaimType
    <2>2. [ledger[r] EXCEPT
             !.paidOut = ledger[r].paidOut + Payout(r),
             !.payee = requestClaim[r].solver,
             !.bondReturned = ledger[r].bondReturned + requestClaim[r].bond]
            \in Ledger
      BY <1>1, <2>1 DEF Ledger
    <2>3. QED
      BY <2>2 DEF VerifyAndSettle, TypeOK
  <1>9. QED
    BY <1>3, <1>4, <1>5, <1>6, <1>7, <1>8 DEF VerifyAndSettle, TypeOK, adminVars

LEMMA TypeRelease ==
  ASSUME TypeOK, NEW r \in RequestId, ReleaseExpiredClaim(r)
  PROVE  TypeOK'
  <1>1. ethBalance' \in Nat
    <2>1. EthOut(r) \in Nat /\ ethBalance \in Nat
      BY ForfeitParts DEF TypeOK
    <2>2. EthOut(r) <= ethBalance /\ ethBalance' = ethBalance - EthOut(r)
      BY DEF ReleaseExpiredClaim, ForfeitPays
    <2>3. QED
      BY <2>1, <2>2
  <1>2. ledger' \in [RequestId -> Ledger]
    BY ForfeitedLedgerFacts DEF ReleaseExpiredClaim, TypeOK
  <1>3. requestClaim' \in [RequestId -> ClaimType]
    BY DEF ReleaseExpiredClaim, TypeOK, NoClaim, ClaimType
  <1>4. QED
    BY <1>1, <1>2, <1>3 DEF ReleaseExpiredClaim, TypeOK, adminVars

LEMMA TypePool == TypeOK /\ PoolNext => TypeOK'
  <1>. SUFFICES ASSUME TypeOK, NEW t \in Token, NEW a \in TransferAmounts,
                       SpendPool(t, a) \/ ProvideLiquidity(t, a)
                PROVE  TypeOK'
    BY DEF PoolNext, DeliverTokens, EmergencyWithdraw
  <1>1. a \in Nat
    BY InputAssumption
  <1>2. tokenBalance' \in [Token -> Nat]
    <2>1. CASE SpendPool(t, a)
      BY <1>1, <2>1 DEF SpendPool, TypeOK
    <2>2. CASE ProvideLiquidity(t, a)
      BY <1>1, <2>2 DEF ProvideLiquidity, TypeOK
    <2>3. QED
      BY <2>1, <2>2
  <1>3. liquidity' \in [Token -> Int]
    <2>1. CASE SpendPool(t, a)
      BY <1>1, <2>1 DEF SpendPool, TypeOK
    <2>2. CASE ProvideLiquidity(t, a)
      BY <1>1, <2>2 DEF ProvideLiquidity, TypeOK
    <2>3. QED
      BY <2>1, <2>2
  <1>4. QED
    BY <1>2, <1>3
    DEF SpendPool, ProvideLiquidity, TypeOK, adminVars, requestVars

LEMMA TypeTick == TypeOK /\ Tick => TypeOK'
  BY DEF Tick, TypeOK, adminVars, requestVars, moneyVars

LEMMA TypeStutter == TypeOK /\ UNCHANGED vars => TypeOK'
  BY DEF TypeOK, vars, adminVars, requestVars, moneyVars

LEMMA TypeStep == TypeOK /\ [Next]_vars => TypeOK'
  <1>1. TypeOK /\ RequestNext => TypeOK'
    BY TypeInitiate, TypeClaim, TypeSettle, TypeRelease DEF RequestNext
  <1>2. QED
    BY <1>1, TypeAdmin, TypePool, TypeTick, TypeStutter DEF Next

\* Every reachable state is well typed: in particular no balance, fee, payout or
\* slash is ever negative.
THEOREM TypeCorrect == Spec => []TypeOK
  BY TypeInit, TypeStep, PTL DEF Spec
-----------------------------------------------------------------------------
(***************************************************************************)
(* What the contract keeps true of each request: its invariants proved from *)
(* one inductive invariant, and from that the protection of a live claim.   *)
(*                                                                          *)
(* None of the three parts is inductive alone.  The bonds add up only       *)
(* because an unclaimed request holds none (RequestTableOK), the payout is  *)
(* made once only because a paid request is unclaimed, and no part makes    *)
(* sense before the arithmetic does (TypeOK).                               *)
(***************************************************************************)
SafetyInv == RequestTableOK /\ PayoutExact /\ BondAccounted

IInv == TypeOK /\ SafetyInv
-----------------------------------------------------------------------------
\* Only four transactions touch the request table and what belongs to it.
LEMMA OthersLeaveRequests ==
  AdminNext \/ PoolNext \/ Tick \/ UNCHANGED vars => UNCHANGED requestVars
  <1>1. AdminNext => UNCHANGED requestVars
    BY DEF AdminNext, UpdateRelayer, UpdateFeePercentage, UpdateFeeLimits,
           UpdateClaimWindow, UpdateMinSolverBond, UpdateSlashParams, SetConfig,
           AuthorizeNode, RevokeNode
  <1>2. PoolNext => UNCHANGED requestVars
    BY DEF PoolNext, DeliverTokens, EmergencyWithdraw, SpendPool, ProvideLiquidity
  <1>3. QED
    BY <1>1, <1>2 DEF Tick, vars

LEMMA SafetyUnchanged == SafetyInv /\ UNCHANGED requestVars => SafetyInv'
  BY DEF SafetyInv, RequestTableOK, PayoutExact, BondAccounted, requestVars,
         Exists, Claimed

LEMMA SafetyInit == Init => SafetyInv
  <1>. SUFFICES ASSUME Init PROVE SafetyInv
    OBVIOUS
  <1>1. bridgeNonce = 0 /\ \A r \in RequestId : r \in Nat /\ r >= 1
    BY BoundAssumption DEF Init, RequestId
  <1>2. \A r \in RequestId : ~Exists(r) /\ ~Claimed(r)
    BY DEF Init, Exists, Claimed, NoRequest, NoClaim
  <1>3. RequestTableOK
    BY <1>1, <1>2 DEF Init, RequestTableOK
  <1>4. PayoutExact
    BY DEF Init, PayoutExact, NoRequest, NoLedger
  <1>5. BondAccounted
    BY DEF Init, BondAccounted, NoClaim, NoLedger
  <1>6. QED
    BY <1>3, <1>4, <1>5 DEF SafetyInv

\* A new request takes the next id, whose slot is empty.
LEMMA SafetyInitiate ==
  ASSUME IInv, NEW u \in User, NEW t \in Token, NEW a \in Amounts,
         InitiateBridge(u, t, a)
  PROVE  SafetyInv'
  <1>. DEFINE fee == CalculateFee(config, a)
  <1>. USE DEF IInv, SafetyInv
  <1>1. a \in Nat /\ fee \in Nat /\ a - fee \in Nat /\ a - fee + fee = a
    BY RequestTerms DEF InitiateBridge
  <1>2. PICK r \in RequestId : r = bridgeNonce + 1
    BY BoundAssumption DEF InitiateBridge, TypeOK, RequestId
  <1>. bridgeNonce \in Nat /\ bridgeNonce' = r
    BY <1>2, BoundAssumption DEF InitiateBridge, TypeOK
  <1>3. ~Exists(r) /\ bridgeRequests[r] = NoRequest /\ ~Claimed(r)
    BY <1>2 DEF RequestTableOK
  <1>4. /\ bridgeRequests'[r] = [sender |-> u, token |-> t, amount |-> a - fee,
                                 fee |-> fee, finalized |-> FALSE]
        /\ \A q \in RequestId \ {r} : bridgeRequests'[q] = bridgeRequests[q]
        /\ requestClaim' = requestClaim
    BY <1>2 DEF InitiateBridge, TypeOK
  <1>5. /\ requestFeeEscrow'[r] = fee
        /\ \A q \in RequestId \ {r} : requestFeeEscrow'[q] = requestFeeEscrow[q]
    BY <1>2 DEF InitiateBridge, TypeOK
  <1>6. /\ ledger' = [ledger EXCEPT ![r].deposited = a]
        /\ ledger'[r] = [ledger[r] EXCEPT !.deposited = a]
        /\ \A q \in RequestId \ {r} : ledger'[q] = ledger[q]
    BY <1>2 DEF InitiateBridge, TypeOK
  <1>7. ledger[r] \in Ledger
    BY <1>2 DEF TypeOK
  <1>8. /\ ledger'[r].deposited = a
        /\ ledger'[r].paidOut = ledger[r].paidOut
        /\ ledger'[r].payee = ledger[r].payee
        /\ ledger'[r].bondPosted = ledger[r].bondPosted
        /\ ledger'[r].bondReturned = ledger[r].bondReturned
        /\ ledger'[r].bondSlashed = ledger[r].bondSlashed
        /\ ledger'[r].bondKept = ledger[r].bondKept
    BY <1>6, <1>7 DEF Ledger
  <1>9. RequestTableOK'
    <2>1. u # ZeroAddress
      BY AddressAssumption
    <2>2. \A q \in RequestId \ {r} : q <= bridgeNonce <=> q <= bridgeNonce'
      BY <1>2 DEF RequestId
    <2>3. \A q \in RequestId \ {r} :
            /\ Exists(q)' <=> Exists(q)
            /\ Claimed(q)' <=> Claimed(q)
      BY <1>4 DEF Exists, Claimed
    <2>4. Exists(r)' /\ ~Claimed(r)'
      BY <1>3, <1>4, <2>1 DEF Exists, Claimed
    <2>5. r <= bridgeNonce'
      BY <1>2
    <2>6. QED
      BY <1>3, <1>4, <2>2, <2>3, <2>4, <2>5 DEF RequestTableOK
  <1>10. PayoutExact'
    <2>1. ledger[r].paidOut = 0 /\ ledger[r].payee = ZeroAddress
      BY <1>2, <1>3 DEF PayoutExact, NoRequest
    <2>2. QED
      BY <1>1, <1>4, <1>5, <1>6, <1>8, <2>1 DEF PayoutExact
  <1>11. BondAccounted'
    BY <1>4, <1>6, <1>8 DEF BondAccounted
  <1>12. QED
    BY <1>9, <1>10, <1>11

\* A claim changes hands: the old bond is forfeited, the new one posted.
LEMMA SafetyClaim ==
  ASSUME IInv, NEW n \in Node, NEW r \in RequestId, NEW v \in BondValues,
         ClaimBridge(n, r, v)
  PROVE  SafetyInv'
  <1>. USE DEF IInv, SafetyInv
  <1>. DEFINE entry == IF Claimed(r) THEN ForfeitedLedger(r) ELSE ledger[r]
              claim == [solver |-> n, claimedAt |-> now,
                        deadline |-> now + config.claimWindow, bond |-> v]
  <1>1. v \in Nat /\ n # ZeroAddress
    BY InputAssumption, AddressAssumption
  <1>2. Exists(r) /\ ~bridgeRequests[r].finalized
    BY DEF ClaimBridge, Claimable
  <1>3. /\ UNCHANGED <<bridgeNonce, bridgeRequests, requestFeeEscrow>>
        /\ requestClaim'[r] = claim
        /\ \A q \in RequestId \ {r} : requestClaim'[q] = requestClaim[q]
    BY DEF ClaimBridge, TypeOK
  <1>4. /\ entry \in Ledger
        /\ entry.deposited = ledger[r].deposited
        /\ entry.paidOut = ledger[r].paidOut
        /\ entry.payee = ledger[r].payee
        /\ entry.bondPosted = ledger[r].bondPosted
        /\ entry.bondPosted = entry.bondReturned + entry.bondSlashed + entry.bondKept
    <2>1. CASE Claimed(r)
      BY <2>1, ForfeitedLedgerFacts DEF BondAccounted
    <2>2. CASE ~Claimed(r)
      <3>1. requestClaim[r].bond = 0 /\ ledger[r] \in Ledger
        BY <2>2 DEF RequestTableOK, NoClaim, TypeOK
      <3>2. QED
        BY <2>2, <3>1 DEF BondAccounted, Ledger
    <2>3. QED
      BY <2>1, <2>2
  <1>5. /\ ledger'[r] = [entry EXCEPT !.bondPosted = entry.bondPosted + v]
        /\ \A q \in RequestId \ {r} : ledger'[q] = ledger[q]
    BY DEF ClaimBridge, TypeOK
  <1>6. /\ ledger'[r].deposited = entry.deposited
        /\ ledger'[r].paidOut = entry.paidOut
        /\ ledger'[r].payee = entry.payee
        /\ ledger'[r].bondPosted = entry.bondPosted + v
        /\ ledger'[r].bondReturned = entry.bondReturned
        /\ ledger'[r].bondSlashed = entry.bondSlashed
        /\ ledger'[r].bondKept = entry.bondKept
    BY <1>4, <1>5 DEF Ledger
  <1>7. RequestTableOK'
    BY <1>1, <1>2, <1>3 DEF RequestTableOK, Exists, Claimed
  <1>8. PayoutExact'
    <2>1. /\ ledger'[r].deposited = ledger[r].deposited
          /\ ledger'[r].paidOut = ledger[r].paidOut
          /\ ledger'[r].payee = ledger[r].payee
      BY <1>4, <1>6
    <2>2. \A q \in RequestId :
            /\ bridgeRequests'[q] = bridgeRequests[q]
            /\ requestFeeEscrow'[q] = requestFeeEscrow[q]
            /\ ledger'[q].deposited = ledger[q].deposited
            /\ ledger'[q].paidOut = ledger[q].paidOut
            /\ ledger'[q].payee = ledger[q].payee
      BY <1>3, <1>5, <2>1
    <2>3. QED
      BY <2>2 DEF PayoutExact
  <1>9. BondAccounted'
    <2>1. ledger'[r].bondPosted = ledger'[r].bondReturned + ledger'[r].bondSlashed
                                    + ledger'[r].bondKept + requestClaim'[r].bond
      BY <1>1, <1>3, <1>4, <1>6 DEF Ledger
    <2>2. QED
      BY <1>3, <1>5, <2>1 DEF BondAccounted
  <1>10. QED
    BY <1>7, <1>8, <1>9

\* The one payment, and the end of the claim.
LEMMA SafetySettle ==
  ASSUME IInv, NEW r \in RequestId, VerifyAndSettle(r)
  PROVE  SafetyInv'
  <1>. USE DEF IInv, SafetyInv
  <1>1. /\ Exists(r) /\ ~bridgeRequests[r].finalized /\ Claimed(r)
        /\ requestClaim[r].bond \in Nat
    BY DEF VerifyAndSettle, Settleable, TypeOK, ClaimType
  <1>2. bridgeRequests[r] \in Request /\ Payout(r) \in Nat
    BY <1>1 DEF TypeOK, Exists, NoRequest, Payout, Request
  <1>3. /\ bridgeRequests'[r] = [bridgeRequests[r] EXCEPT !.finalized = TRUE]
        /\ \A q \in RequestId \ {r} : bridgeRequests'[q] = bridgeRequests[q]
        /\ requestFeeEscrow'[r] = 0
        /\ \A q \in RequestId \ {r} : requestFeeEscrow'[q] = requestFeeEscrow[q]
        /\ requestClaim'[r] = NoClaim
        /\ \A q \in RequestId \ {r} : requestClaim'[q] = requestClaim[q]
        /\ bridgeNonce' = bridgeNonce
    BY DEF VerifyAndSettle, TypeOK
  <1>4. bridgeRequests'[r].finalized /\ bridgeRequests'[r].sender = bridgeRequests[r].sender
    BY <1>2, <1>3 DEF Request
  <1>5. /\ ledger'[r] = [ledger[r] EXCEPT
                           !.paidOut = ledger[r].paidOut + Payout(r),
                           !.payee = requestClaim[r].solver,
                           !.bondReturned = ledger[r].bondReturned + requestClaim[r].bond]
        /\ \A q \in RequestId \ {r} : ledger'[q] = ledger[q]
    BY DEF VerifyAndSettle, TypeOK
  <1>6. ledger[r] \in Ledger
    BY DEF TypeOK
  <1>7. /\ ledger'[r].deposited = ledger[r].deposited
        /\ ledger'[r].paidOut = ledger[r].paidOut + Payout(r)
        /\ ledger'[r].payee = requestClaim[r].solver
        /\ ledger'[r].bondPosted = ledger[r].bondPosted
        /\ ledger'[r].bondReturned = ledger[r].bondReturned + requestClaim[r].bond
        /\ ledger'[r].bondSlashed = ledger[r].bondSlashed
        /\ ledger'[r].bondKept = ledger[r].bondKept
    BY <1>5, <1>6 DEF Ledger
  <1>8. RequestTableOK'
    <2>1. Exists(r)' /\ ~Claimed(r)' /\ r <= bridgeNonce'
      BY <1>1, <1>3, <1>4 DEF RequestTableOK, Exists, Claimed, NoClaim
    <2>2. \A q \in RequestId \ {r} :
            /\ Exists(q)' <=> Exists(q)
            /\ Claimed(q)' <=> Claimed(q)
      BY <1>3 DEF Exists, Claimed
    <2>3. QED
      BY <1>3, <2>1, <2>2 DEF RequestTableOK
  <1>9. PayoutExact'
    <2>1. ledger[r].paidOut = 0 /\ Payout(r) = ledger[r].deposited
      BY <1>1 DEF PayoutExact, Payout
    <2>2. /\ ledger'[r].paidOut = ledger'[r].deposited
          /\ ledger'[r].payee # ZeroAddress
      BY <1>1, <1>2, <1>7, <2>1 DEF Claimed
    <2>3. \A q \in RequestId \ {r} :
            /\ bridgeRequests'[q] = bridgeRequests[q]
            /\ requestFeeEscrow'[q] = requestFeeEscrow[q]
            /\ ledger'[q] = ledger[q]
      BY <1>3, <1>5
    <2>4. bridgeRequests'[r].finalized /\ requestFeeEscrow'[r] = 0
      BY <1>3, <1>4
    <2>5. QED
      BY <2>2, <2>3, <2>4 DEF PayoutExact
  <1>10. BondAccounted'
    <2>1. ledger'[r].bondPosted = ledger'[r].bondReturned + ledger'[r].bondSlashed
                                    + ledger'[r].bondKept + requestClaim'[r].bond
      BY <1>1, <1>3, <1>6, <1>7 DEF BondAccounted, Ledger, NoClaim
    <2>2. QED
      BY <1>3, <1>5, <2>1 DEF BondAccounted
  <1>11. QED
    BY <1>8, <1>9, <1>10

\* The bond is forfeited and the request is open again.
LEMMA SafetyRelease ==
  ASSUME IInv, NEW r \in RequestId, ReleaseExpiredClaim(r)
  PROVE  SafetyInv'
  <1>. USE DEF IInv, SafetyInv
  <1>1. /\ UNCHANGED <<bridgeNonce, bridgeRequests, requestFeeEscrow>>
        /\ requestClaim'[r] = NoClaim
        /\ \A q \in RequestId \ {r} : requestClaim'[q] = requestClaim[q]
        /\ ledger'[r] = ForfeitedLedger(r)
        /\ \A q \in RequestId \ {r} : ledger'[q] = ledger[q]
    BY DEF ReleaseExpiredClaim, TypeOK
  <1>2. /\ ledger'[r] \in Ledger
        /\ ledger'[r].deposited = ledger[r].deposited
        /\ ledger'[r].paidOut = ledger[r].paidOut
        /\ ledger'[r].payee = ledger[r].payee
        /\ ledger'[r].bondPosted = ledger[r].bondPosted
        /\ ledger'[r].bondReturned + ledger'[r].bondSlashed + ledger'[r].bondKept
             = ledger[r].bondPosted
    BY <1>1, ForfeitedLedgerFacts DEF BondAccounted
  <1>3. RequestTableOK'
    BY <1>1 DEF RequestTableOK, Exists, Claimed, NoClaim
  <1>4. PayoutExact'
    <2>1. \A q \in RequestId :
            /\ ledger'[q].deposited = ledger[q].deposited
            /\ ledger'[q].paidOut = ledger[q].paidOut
            /\ ledger'[q].payee = ledger[q].payee
      BY <1>1, <1>2
    <2>2. QED
      BY <1>1, <2>1 DEF PayoutExact
  <1>5. BondAccounted'
    <2>1. ledger'[r].bondPosted = ledger'[r].bondReturned + ledger'[r].bondSlashed
                                    + ledger'[r].bondKept + requestClaim'[r].bond
      BY <1>1, <1>2 DEF Ledger, NoClaim
    <2>2. QED
      BY <1>1, <2>1 DEF BondAccounted
  <1>6. QED
    BY <1>3, <1>4, <1>5
-----------------------------------------------------------------------------
LEMMA InvInit == Init => IInv
  BY TypeInit, SafetyInit DEF IInv

LEMMA InvStep == IInv /\ [Next]_vars => IInv'
  <1>. SUFFICES ASSUME IInv, [Next]_vars PROVE SafetyInv'
    BY TypeStep DEF IInv
  <1>1. CASE RequestNext
    BY <1>1, SafetyInitiate, SafetyClaim, SafetySettle, SafetyRelease DEF RequestNext
  <1>2. CASE AdminNext \/ PoolNext \/ Tick \/ UNCHANGED vars
    BY <1>2, OthersLeaveRequests, SafetyUnchanged DEF IInv
  <1>3. QED
    BY <1>1, <1>2 DEF Next

THEOREM InvHolds == Spec => []IInv
  BY InvInit, InvStep, PTL DEF Spec

\* Ids are given out in order, an unclaimed request holds no bond, and a paid
\* request has no claim that releaseExpiredClaim could still slash.
THEOREM RequestTableCorrect == Spec => []RequestTableOK
  BY InvHolds, PTL DEF IInv, SafetyInv

\* Whatever the owner does to the fees in between, a settlement pays the solver
\* exactly the deposit, and a request is settled once.
THEOREM PayoutCorrect == Spec => []PayoutExact
  BY InvHolds, PTL DEF IInv, SafetyInv

\* No chain of reclaims, releases and settlements returns a bond twice or loses a
\* part of one, whatever the slash parameters are when a claim expires.
THEOREM BondCorrect == Spec => []BondAccounted
  BY InvHolds, PTL DEF IInv, SafetyInv
-----------------------------------------------------------------------------
\* Only a settlement changes a claim before its deadline.
LEMMA LiveClaimStep ==
  ASSUME IInv, [Next]_vars, NEW r \in RequestId,
         Live(r), requestClaim'[r] # requestClaim[r]
  PROVE  /\ ledger'[r].payee = requestClaim[r].solver
         /\ ledger'[r].bondReturned = ledger[r].bondReturned + requestClaim[r].bond
  <1>1. /\ TypeOK /\ now \in Nat
        /\ requestClaim[r].deadline \in Nat /\ now < requestClaim[r].deadline
    BY DEF IInv, TypeOK, ClaimType, Live
  <1>2. ~ UNCHANGED requestVars
    BY DEF requestVars
  <1>3. PICK q \in RequestId : VerifyAndSettle(q)
    <2>1. \A u \in User, t \in Token, a \in Amounts : ~InitiateBridge(u, t, a)
      BY DEF InitiateBridge
    <2>2. \A n \in Node, q \in RequestId, v \in BondValues : ~ClaimBridge(n, q, v)
      BY <1>1 DEF ClaimBridge, Claimable, TypeOK
    <2>3. \A q \in RequestId : ~ReleaseExpiredClaim(q)
      <3>1. ASSUME NEW q \in RequestId, ReleaseExpiredClaim(q)
            PROVE  FALSE
        <4>1. q = r
          BY <1>1, <3>1 DEF ReleaseExpiredClaim, TypeOK
        <4>2. now >= requestClaim[r].deadline
          BY <3>1, <4>1 DEF ReleaseExpiredClaim, Expired
        <4>3. QED
          BY <1>1, <4>2
      <3>2. QED
        BY <3>1
    <2>4. RequestNext
      BY <1>2, OthersLeaveRequests DEF Next
    <2>5. QED
      BY <2>1, <2>2, <2>3, <2>4 DEF RequestNext
  <1>4. q = r
    BY <1>1, <1>3 DEF VerifyAndSettle, TypeOK
  <1>5. QED
    BY <1>1, <1>3, <1>4 DEF VerifyAndSettle, TypeOK, Ledger

\* No reclaim, release, revocation or change of the configuration takes a request
\* from its solver before the deadline: he loses the claim by being paid.
THEOREM LiveClaimSafe == Spec => LiveClaimProtected
  <1>1. ASSUME IInv, [Next]_vars
        PROVE  [\A r \in RequestId :
                  Live(r) /\ requestClaim'[r] # requestClaim[r] =>
                    /\ ledger'[r].payee = requestClaim[r].solver
                    /\ ledger'[r].bondReturned =
                         ledger[r].bondReturned + requestClaim[r].bond]_vars
    BY <1>1, LiveClaimStep
  <1>2. QED
    BY <1>1, InvHolds, PTL DEF Spec, LiveClaimProtected
-----------------------------------------------------------------------------
(***************************************************************************)
(* Conservation: the contract's ETH and tokens are, at every moment, the    *)
(* sum of what its requests account for.  Each transaction changes the term *)
(* of one request, so each sum moves by that term (SumUpdate).              *)
(***************************************************************************)
BondTerms      == [r \in RequestId |-> requestClaim[r].bond + ledger[r].bondKept]
EscrowTerms(t) == [r \in RequestId |-> EscrowedFor(t, r)]

\* The escrow of an id that is not given out is empty, so that a new request
\* adds its deposit and nothing else.
UnusedIsEmpty == \A r \in RequestId : ~Exists(r) => requestFeeEscrow[r] = 0

ConservationInv == UnusedIsEmpty /\ EthConservation /\ TokenConservation

LEMMA RequestParts ==
  ASSUME TypeOK, NEW r \in RequestId
  PROVE  /\ bridgeRequests[r].amount \in Nat /\ requestFeeEscrow[r] \in Nat
         /\ requestClaim[r].bond \in Nat /\ ledger[r].bondKept \in Nat
  BY DEF TypeOK, Request, NoRequest, ClaimType, Ledger

LEMMA RequestPartsNext ==
  ASSUME TypeOK', NEW r \in RequestId
  PROVE  /\ bridgeRequests'[r].amount \in Nat /\ requestFeeEscrow'[r] \in Nat
         /\ requestClaim'[r].bond \in Nat /\ ledger'[r].bondKept \in Nat
  BY DEF TypeOK, Request, NoRequest, ClaimType, Ledger

LEMMA TermsSummable ==
  ASSUME TypeOK
  PROVE  /\ Summable(BondTerms, RequestId)
         /\ \A t : Summable(EscrowTerms(t), RequestId)
  <1>1. IsFiniteSet(RequestId)
    BY FS_Interval, BoundAssumption DEF RequestId
  <1>2. BondTerms \in [RequestId -> Int]
    BY RequestParts DEF BondTerms
  <1>3. \A t : EscrowTerms(t) \in [RequestId -> Int]
    BY RequestParts DEF EscrowTerms, EscrowedFor
  <1>. QED BY <1>1, <1>2, <1>3 DEF Summable

LEMMA TermsSummableNext ==
  ASSUME TypeOK'
  PROVE  /\ Summable(BondTerms', RequestId)
         /\ \A t : Summable(EscrowTerms(t)', RequestId)
  <1>1. IsFiniteSet(RequestId)
    BY FS_Interval, BoundAssumption DEF RequestId
  <1>2. BondTerms' \in [RequestId -> Int]
    BY RequestPartsNext DEF BondTerms
  <1>3. \A t : EscrowTerms(t)' \in [RequestId -> Int]
    BY RequestPartsNext DEF EscrowTerms, EscrowedFor
  <1>. QED BY <1>1, <1>2, <1>3 DEF Summable

\* The sums of the invariants are the sums of these terms.
LEMMA SumsOfTerms ==
  /\ EthConservation <=> ethBalance = SumFunction(BondTerms)
  /\ EthConservation' <=> ethBalance' = SumFunction(BondTerms')
  /\ \A t : Escrowed(t) = SumFunction(EscrowTerms(t))
  /\ \A t : Escrowed(t)' = SumFunction(EscrowTerms(t)')
  BY DEF EthConservation, BondTerms, Escrowed, EscrowTerms

\* When only request r's part changes, the contract's ETH must change by as much.
LEMMA EthMoves ==
  ASSUME IInv, TypeOK', EthConservation, NEW r \in RequestId,
         \A q \in RequestId \ {r} : requestClaim'[q] = requestClaim[q]
                                    /\ ledger'[q] = ledger[q],
         ethBalance' - ethBalance
           = (requestClaim'[r].bond + ledger'[r].bondKept)
               - (requestClaim[r].bond + ledger[r].bondKept)
  PROVE  EthConservation'
  <1>1. Summable(BondTerms, RequestId) /\ Summable(BondTerms', RequestId)
    BY TermsSummable, TermsSummableNext DEF IInv
  <1>2. \A q \in RequestId \ {r} : BondTerms[q] = BondTerms'[q]
    BY DEF BondTerms
  <1>3. SumFunction(BondTerms') = SumFunction(BondTerms) - BondTerms[r] + BondTerms'[r]
    BY <1>1, <1>2, SumUpdate
  <1>4. SumFunction(BondTerms) \in Int
    BY <1>1, SumType
  <1>5. /\ BondTerms[r] = requestClaim[r].bond + ledger[r].bondKept
        /\ BondTerms'[r] = requestClaim'[r].bond + ledger'[r].bondKept
    BY DEF BondTerms
  <1>6. BondTerms[r] \in Int /\ BondTerms'[r] \in Int
    BY <1>1 DEF Summable
  <1>7. ethBalance \in Int /\ ethBalance' \in Int
    BY DEF IInv, TypeOK
  <1>8. ethBalance = SumFunction(BondTerms)
    BY SumsOfTerms
  <1>9. ethBalance' - ethBalance = BondTerms'[r] - BondTerms[r]
    BY <1>5
  <1>10. ethBalance' = SumFunction(BondTerms')
    BY <1>3, <1>4, <1>6, <1>7, <1>8, <1>9
  <1>. QED BY <1>10, SumsOfTerms

\* When only request r's escrow of token t changes, so must the token balance.
LEMMA TokenMoves ==
  ASSUME IInv, TypeOK', TokenConservation, liquidity' = liquidity,
         NEW t \in Token, NEW r \in RequestId,
         \A q \in RequestId \ {r} : bridgeRequests'[q] = bridgeRequests[q]
                                    /\ requestFeeEscrow'[q] = requestFeeEscrow[q],
         tokenBalance'[t] - tokenBalance[t] = EscrowedFor(t, r)' - EscrowedFor(t, r)
  PROVE  tokenBalance'[t] = Escrowed(t)' + liquidity'[t]
  <1>1. Summable(EscrowTerms(t), RequestId) /\ Summable(EscrowTerms(t)', RequestId)
    BY TermsSummable, TermsSummableNext DEF IInv
  <1>2. \A q \in RequestId \ {r} : EscrowTerms(t)[q] = EscrowTerms(t)'[q]
    BY DEF EscrowTerms, EscrowedFor
  <1>3. SumFunction(EscrowTerms(t)')
          = SumFunction(EscrowTerms(t)) - EscrowTerms(t)[r] + EscrowTerms(t)'[r]
    BY <1>1, <1>2, SumUpdate
  <1>4. SumFunction(EscrowTerms(t)) \in Int
    BY <1>1, SumType
  <1>5. /\ EscrowTerms(t)[r] = EscrowedFor(t, r)
        /\ EscrowTerms(t)'[r] = EscrowedFor(t, r)'
    BY DEF EscrowTerms
  <1>6. EscrowTerms(t)[r] \in Int /\ EscrowTerms(t)'[r] \in Int
    BY <1>1 DEF Summable
  <1>7. tokenBalance[t] \in Int /\ tokenBalance'[t] \in Int /\ liquidity[t] \in Int
    BY DEF IInv, TypeOK
  <1>8. tokenBalance[t] = SumFunction(EscrowTerms(t)) + liquidity[t]
    BY SumsOfTerms DEF TokenConservation
  <1>9. tokenBalance'[t] = SumFunction(EscrowTerms(t)') + liquidity[t]
    BY <1>3, <1>4, <1>5, <1>6, <1>7, <1>8
  <1>. QED BY <1>9, SumsOfTerms

\* Transactions that leave the requests alone move tokens and liquidity alike.
LEMMA ConservationElsewhere ==
  ASSUME IInv, ConservationInv, UNCHANGED requestVars, ethBalance' = ethBalance,
         \A t \in Token : tokenBalance'[t] - tokenBalance[t]
                           = liquidity'[t] - liquidity[t],
         TypeOK'
  PROVE  ConservationInv'
  <1>1. UnusedIsEmpty'
    BY DEF UnusedIsEmpty, ConservationInv, Exists, requestVars
  <1>2. EthConservation'
    BY DEF ConservationInv, EthConservation, requestVars
  <1>3. ASSUME NEW t \in Token PROVE tokenBalance'[t] = Escrowed(t)' + liquidity'[t]
    <2>1. Escrowed(t)' = Escrowed(t)
      BY DEF Escrowed, EscrowedFor, requestVars
    <2>2. Escrowed(t) \in Int
      BY TermsSummable, SumType, SumsOfTerms DEF IInv
    <2>3. /\ tokenBalance[t] \in Int /\ tokenBalance'[t] \in Int
          /\ liquidity[t] \in Int /\ liquidity'[t] \in Int
      BY DEF IInv, TypeOK
    <2>. QED BY <2>1, <2>2, <2>3 DEF ConservationInv, TokenConservation
  <1>. QED BY <1>1, <1>2, <1>3 DEF ConservationInv, TokenConservation

LEMMA ConservationPool ==
  ASSUME IInv, ConservationInv, TypeOK',
         AdminNext \/ PoolNext \/ Tick \/ UNCHANGED vars
  PROVE  ConservationInv'
  <1>1. UNCHANGED requestVars
    BY OthersLeaveRequests
  <1>2. ethBalance' = ethBalance
        /\ \A t \in Token : tokenBalance'[t] - tokenBalance[t]
                             = liquidity'[t] - liquidity[t]
    <2>1. CASE AdminNext \/ Tick \/ UNCHANGED vars
      <3>1. UNCHANGED moneyVars
        BY <2>1 DEF AdminNext, UpdateRelayer, UpdateFeePercentage, UpdateFeeLimits,
             UpdateClaimWindow, UpdateMinSolverBond, UpdateSlashParams, SetConfig,
             AuthorizeNode, RevokeNode, Tick, vars
      <3>. QED BY <3>1 DEF moneyVars, IInv, TypeOK
    <2>2. ASSUME NEW t \in Token, NEW a \in TransferAmounts, SpendPool(t, a)
          PROVE  ethBalance' = ethBalance
                 /\ \A q \in Token : tokenBalance'[q] - tokenBalance[q]
                                      = liquidity'[q] - liquidity[q]
      BY <2>2, InputAssumption DEF SpendPool, IInv, TypeOK
    <2>3. ASSUME NEW t \in Token, NEW a \in TransferAmounts, ProvideLiquidity(t, a)
          PROVE  ethBalance' = ethBalance
                 /\ \A q \in Token : tokenBalance'[q] - tokenBalance[q]
                                      = liquidity'[q] - liquidity[q]
      BY <2>3, InputAssumption DEF ProvideLiquidity, IInv, TypeOK
    <2>. QED BY <2>1, <2>2, <2>3 DEF PoolNext, DeliverTokens, EmergencyWithdraw
  <1>. QED BY <1>1, <1>2, ConservationElsewhere

\* A deposit is escrowed whole.
LEMMA ConservationInitiate ==
  ASSUME IInv, ConservationInv, TypeOK', NEW u \in User, NEW t \in Token,
         NEW a \in Amounts, InitiateBridge(u, t, a)
  PROVE  ConservationInv'
  <1>. DEFINE fee == CalculateFee(config, a)
  <1>. USE DEF IInv
  <1>1. a \in Nat /\ fee \in Nat /\ a - fee \in Nat /\ a - fee + fee = a
    BY RequestTerms DEF InitiateBridge
  <1>2. PICK r \in RequestId : r = bridgeNonce + 1
    BY BoundAssumption DEF InitiateBridge, TypeOK, RequestId
  <1>3. ~Exists(r) /\ bridgeRequests[r] = NoRequest /\ requestFeeEscrow[r] = 0
    <2>1. ~(r <= bridgeNonce)
      BY <1>2, BoundAssumption DEF TypeOK
    <2>. QED BY <2>1 DEF SafetyInv, RequestTableOK, ConservationInv, UnusedIsEmpty
  <1>. HIDE DEF fee
  <1>4. /\ bridgeRequests'[r] = [sender |-> u, token |-> t, amount |-> a - fee,
                                 fee |-> fee, finalized |-> FALSE]
        /\ requestFeeEscrow'[r] = fee
        /\ \A q \in RequestId \ {r} :
             /\ bridgeRequests'[q] = bridgeRequests[q]
             /\ requestFeeEscrow'[q] = requestFeeEscrow[q]
    BY <1>2 DEF InitiateBridge, TypeOK, fee
  <1>5. UnusedIsEmpty'
    <2>1. Exists(r)'
      BY <1>4, AddressAssumption DEF Exists
    <2>. QED BY <1>4, <2>1 DEF UnusedIsEmpty, ConservationInv, Exists
  <1>6. EthConservation'
    <2>1. \A q \in RequestId : ledger'[q].bondKept = ledger[q].bondKept
      BY <1>2 DEF InitiateBridge, TypeOK, Ledger
    <2>2. BondTerms' = BondTerms
      BY <2>1 DEF BondTerms, InitiateBridge
    <2>. QED BY <2>2, SumsOfTerms DEF ConservationInv, InitiateBridge
  <1>7. ASSUME NEW q \in Token PROVE tokenBalance'[q] = Escrowed(q)' + liquidity'[q]
    <2>1. EscrowedFor(q, r) = 0
      BY <1>3 DEF EscrowedFor, NoRequest
    <2>2. EscrowedFor(q, r)' = IF q = t THEN a ELSE 0
      BY <1>1, <1>4 DEF EscrowedFor
    <2>3. tokenBalance'[q] - tokenBalance[q] = IF q = t THEN a ELSE 0
      <3>1. tokenBalance' = [tokenBalance EXCEPT ![t] = tokenBalance[t] + a]
        BY DEF InitiateBridge
      <3>2. tokenBalance \in [Token -> Nat]
        BY DEF TypeOK
      <3>3. tokenBalance[q] \in Nat
        BY <3>2
      <3>4. tokenBalance'[q] = IF q = t THEN tokenBalance[q] + a ELSE tokenBalance[q]
        BY <3>1, <3>2
      <3>. QED BY <1>1, <3>3, <3>4
    <2>4. tokenBalance'[q] - tokenBalance[q] = EscrowedFor(q, r)' - EscrowedFor(q, r)
      BY <1>1, <2>1, <2>2, <2>3
    <2>. QED BY <1>4, <2>4, TokenMoves DEF ConservationInv, InitiateBridge
  <1>. QED BY <1>5, <1>6, <1>7 DEF ConservationInv, TokenConservation

\* The escrows do not move when a claim does.
LEMMA EscrowsUnchanged ==
  ASSUME ConservationInv, UNCHANGED <<bridgeRequests, requestFeeEscrow, tokenBalance,
                                      liquidity>>
  PROVE  UnusedIsEmpty' /\ TokenConservation'
  BY DEF ConservationInv, UnusedIsEmpty, TokenConservation, Exists, Escrowed, EscrowedFor

\* A forfeited bond leaves but for what is kept; the new one comes in.
LEMMA ConservationClaim ==
  ASSUME IInv, ConservationInv, TypeOK', NEW n \in Node, NEW r \in RequestId,
         NEW v \in BondValues, ClaimBridge(n, r, v)
  PROVE  ConservationInv'
  <1>. USE DEF IInv
  <1>. DEFINE entry == IF Claimed(r) THEN ForfeitedLedger(r) ELSE ledger[r]
              paid == IF Claimed(r) THEN EthOut(r) ELSE 0
  <1>1. v \in Nat /\ ethBalance \in Nat
    BY InputAssumption DEF TypeOK
  <1>2. /\ requestClaim[r].bond \in Nat /\ ledger[r].bondKept \in Nat
        /\ entry \in Ledger
    BY RequestParts, ForfeitedLedgerFacts DEF TypeOK
  <1>3. paid \in Nat /\ paid = (ledger[r].bondKept + requestClaim[r].bond) - entry.bondKept
    <2>1. CASE Claimed(r)
      <3>1. ForfeitedLedger(r).bondKept = ledger[r].bondKept + (Slashed(r) - SentSlash(r))
        BY DEF ForfeitedLedger, TypeOK, Ledger
      <3>. HIDE DEF IInv
      <3>. QED BY <1>2, <2>1, <3>1, ForfeitParts DEF IInv
    <2>2. CASE ~Claimed(r)
      <3>1. requestClaim[r].bond = 0
        BY <2>2 DEF SafetyInv, RequestTableOK, NoClaim
      <3>. QED BY <1>2, <2>2, <3>1
    <2>. QED BY <2>1, <2>2
  <1>4. /\ ethBalance' = ethBalance + v - paid
        /\ requestClaim'[r].bond = v
        /\ ledger'[r] = [entry EXCEPT !.bondPosted = entry.bondPosted + v]
        /\ \A q \in RequestId \ {r} : requestClaim'[q] = requestClaim[q]
                                      /\ ledger'[q] = ledger[q]
    BY DEF ClaimBridge, TypeOK
  <1>. HIDE DEF entry, paid
  <1>5. ledger'[r].bondKept = entry.bondKept /\ entry.bondKept \in Nat
    BY <1>2, <1>4 DEF Ledger
  <1>6. ethBalance' - ethBalance
          = (requestClaim'[r].bond + ledger'[r].bondKept)
              - (requestClaim[r].bond + ledger[r].bondKept)
    BY <1>1, <1>2, <1>3, <1>4, <1>5
  <1>7. EthConservation'
    BY <1>4, <1>6, EthMoves DEF ConservationInv
  <1>. QED BY <1>7, EscrowsUnchanged DEF ClaimBridge, ConservationInv

LEMMA ConservationRelease ==
  ASSUME IInv, ConservationInv, TypeOK', NEW r \in RequestId, ReleaseExpiredClaim(r)
  PROVE  ConservationInv'
  <1>. USE DEF IInv
  <1>1. requestClaim[r].bond \in Nat /\ ledger[r].bondKept \in Nat /\ ethBalance \in Nat
    BY RequestParts DEF TypeOK
  <1>2. ForfeitedLedger(r).bondKept = ledger[r].bondKept + (Slashed(r) - SentSlash(r))
    BY DEF ForfeitedLedger, TypeOK, Ledger
  <1>3. /\ ethBalance' = ethBalance - EthOut(r)
        /\ requestClaim'[r].bond = 0
        /\ ledger'[r] = ForfeitedLedger(r)
        /\ \A q \in RequestId \ {r} : requestClaim'[q] = requestClaim[q]
                                      /\ ledger'[q] = ledger[q]
    BY DEF ReleaseExpiredClaim, TypeOK, NoClaim
  <1>4. ethBalance' - ethBalance
          = (requestClaim'[r].bond + ledger'[r].bondKept)
              - (requestClaim[r].bond + ledger[r].bondKept)
    <2>. HIDE DEF IInv
    <2>. QED BY <1>1, <1>2, <1>3, ForfeitParts DEF IInv
  <1>5. EthConservation'
    BY <1>3, <1>4, EthMoves DEF ConservationInv
  <1>. QED BY <1>5, EscrowsUnchanged DEF ReleaseExpiredClaim, ConservationInv

\* The solver is paid the escrow and gets the bond back.
LEMMA ConservationSettle ==
  ASSUME IInv, ConservationInv, TypeOK', NEW r \in RequestId, VerifyAndSettle(r)
  PROVE  ConservationInv'
  <1>. USE DEF IInv
  <1>. DEFINE token == bridgeRequests[r].token
  <1>1. /\ bridgeRequests[r] \in Request /\ ~bridgeRequests[r].finalized
        /\ requestClaim[r].bond \in Nat /\ ledger[r] \in Ledger
    BY DEF VerifyAndSettle, Settleable, Exists, TypeOK, NoRequest, ClaimType
  <1>2. /\ ethBalance' = ethBalance - requestClaim[r].bond
        /\ requestClaim'[r].bond = 0
        /\ ledger'[r].bondKept = ledger[r].bondKept
        /\ \A q \in RequestId \ {r} : requestClaim'[q] = requestClaim[q]
                                      /\ ledger'[q] = ledger[q]
    BY <1>1 DEF VerifyAndSettle, TypeOK, NoClaim, Ledger
  <1>3. EthConservation'
    <2>1. ethBalance' - ethBalance
            = (requestClaim'[r].bond + ledger'[r].bondKept)
                - (requestClaim[r].bond + ledger[r].bondKept)
      <3>1. ethBalance \in Nat /\ ledger[r].bondKept \in Nat
        BY <1>1 DEF TypeOK, Ledger
      <3>. HIDE DEF IInv
      <3>. QED BY <1>1, <1>2, <3>1
    <2>. QED BY <1>2, <2>1, EthMoves DEF ConservationInv
  <1>4. /\ bridgeRequests'[r] = [bridgeRequests[r] EXCEPT !.finalized = TRUE]
        /\ requestFeeEscrow'[r] = 0
        /\ \A q \in RequestId \ {r} :
             /\ bridgeRequests'[q] = bridgeRequests[q]
             /\ requestFeeEscrow'[q] = requestFeeEscrow[q]
    BY DEF VerifyAndSettle, TypeOK
  <1>5. UnusedIsEmpty'
    BY <1>4 DEF UnusedIsEmpty, ConservationInv, Exists
  <1>6. Payout(r) \in Nat
    BY <1>1 DEF Payout, Request, TypeOK
  <1>7. ASSUME NEW q \in Token PROVE tokenBalance'[q] = Escrowed(q)' + liquidity'[q]
    <2>1. EscrowedFor(q, r) = IF q = token THEN Payout(r) ELSE 0
      BY <1>1 DEF EscrowedFor, Payout
    <2>2. EscrowedFor(q, r)' = 0
      BY <1>1, <1>4 DEF EscrowedFor, Request
    <2>3. tokenBalance'[q] - tokenBalance[q] = IF q = token THEN 0 - Payout(r) ELSE 0
      <3>1. tokenBalance' = [tokenBalance EXCEPT ![token] = tokenBalance[token] - Payout(r)]
        BY DEF VerifyAndSettle
      <3>2. tokenBalance \in [Token -> Nat]
        BY DEF TypeOK
      <3>3. tokenBalance[q] \in Nat
        BY <3>2
      <3>4. tokenBalance'[q] = IF q = token THEN tokenBalance[q] - Payout(r)
                               ELSE tokenBalance[q]
        BY <3>1, <3>2
      <3>. HIDE DEF token
      <3>. QED BY <1>6, <3>3, <3>4
    <2>4. tokenBalance'[q] - tokenBalance[q] = EscrowedFor(q, r)' - EscrowedFor(q, r)
      BY <1>6, <2>1, <2>2, <2>3
    <2>. QED BY <1>4, <2>4, TokenMoves DEF ConservationInv, VerifyAndSettle
  <1>. QED BY <1>3, <1>5, <1>7 DEF ConservationInv, TokenConservation

LEMMA ConservationInit == Init => ConservationInv
  <1>. SUFFICES ASSUME Init PROVE ConservationInv
    OBVIOUS
  <1>. TypeOK
    BY TypeInit
  <1>1. UnusedIsEmpty
    BY DEF Init, UnusedIsEmpty
  <1>2. SumFunction(BondTerms) = 0
    <2>1. \A r \in RequestId : BondTerms[r] = 0
      BY DEF Init, BondTerms, NoClaim, NoLedger
    <2>. QED BY <2>1, TermsSummable, SumZero
  <1>3. ASSUME NEW t \in Token PROVE SumFunction(EscrowTerms(t)) = 0
    <2>1. \A r \in RequestId : EscrowTerms(t)[r] = 0
      BY DEF Init, EscrowTerms, EscrowedFor, NoRequest
    <2>. QED BY <2>1, TermsSummable, SumZero
  <1>4. EthConservation
    BY <1>2, SumsOfTerms DEF Init
  <1>5. TokenConservation
    BY <1>3, SumsOfTerms DEF Init, TokenConservation
  <1>. QED BY <1>1, <1>4, <1>5 DEF ConservationInv

LEMMA ConservationStep ==
  IInv /\ ConservationInv /\ [Next]_vars => ConservationInv'
  <1>. SUFFICES ASSUME IInv, ConservationInv, [Next]_vars PROVE ConservationInv'
    OBVIOUS
  <1>1. TypeOK'
    BY TypeStep DEF IInv
  <1>2. CASE RequestNext
    BY <1>1, <1>2, ConservationInitiate, ConservationClaim, ConservationSettle,
       ConservationRelease DEF RequestNext
  <1>. QED BY <1>1, <1>2, ConservationPool DEF Next

LEMMA ConservationHolds == Spec => []ConservationInv
  BY InvHolds, ConservationInit, ConservationStep, PTL DEF Spec

\* At every moment the contract's ETH is the bonds of the present claims plus the
\* slashed ETH it kept: no bond is ever paid with another claim's
\* (NewRelayer.sol:288-321, 371-380, 389-406).
THEOREM EthConserved == Spec => []EthConservation
  BY ConservationHolds, PTL DEF ConservationInv

\* At every moment the contract's balance of each token is the escrows of its
\* unpaid requests plus what was provided and not delivered or withdrawn.
THEOREM TokensConserved == Spec => []TokenConservation
  BY ConservationHolds, PTL DEF ConservationInv

\* What the conservation laws are for: a bond that may have to be returned is there,
\* and so is the deposit of an unpaid request as long as deliverTokens and
\* emergencyWithdraw took no more of its token than was provided.
BondsCovered == \A r \in RequestId : requestClaim[r].bond <= ethBalance
DepositsCovered ==
  \A t \in Token : liquidity[t] >= 0 =>
    \A r \in RequestId : EscrowedFor(t, r) <= tokenBalance[t]

LEMMA ConservationCovers == IInv /\ ConservationInv => BondsCovered /\ DepositsCovered
  <1>. SUFFICES ASSUME IInv, ConservationInv PROVE BondsCovered /\ DepositsCovered
    OBVIOUS
  <1>0. TypeOK /\ IsFiniteSet(RequestId)
    BY FS_Interval, BoundAssumption DEF IInv, RequestId
  <1>1. BondsCovered
    <2>1. BondTerms \in [RequestId -> Nat]
      BY <1>0, RequestParts DEF BondTerms
    <2>2. ASSUME NEW r \in RequestId PROVE requestClaim[r].bond <= BondTerms[r]
      BY <1>0, RequestParts DEF BondTerms
    <2>3. ASSUME NEW r \in RequestId PROVE BondTerms[r] <= ethBalance
      BY <1>0, <2>1, TermWithinSum, SumsOfTerms DEF ConservationInv
    <2>4. ethBalance \in Nat
      BY <1>0 DEF TypeOK
    <2>. SUFFICES ASSUME NEW r \in RequestId PROVE requestClaim[r].bond <= ethBalance
      BY DEF BondsCovered
    <2>5. BondTerms[r] \in Nat /\ requestClaim[r].bond \in Nat
      BY <1>0, <2>1, RequestParts
    <2>. QED BY <2>2, <2>3, <2>4, <2>5
  <1>2. DepositsCovered
    <2>. SUFFICES ASSUME NEW t \in Token, liquidity[t] >= 0, NEW r \in RequestId
                  PROVE  EscrowedFor(t, r) <= tokenBalance[t]
      BY DEF DepositsCovered
    <2>1. EscrowTerms(t) \in [RequestId -> Nat]
      BY <1>0, RequestParts DEF EscrowTerms, EscrowedFor
    <2>2. EscrowTerms(t)[r] = EscrowedFor(t, r)
      BY DEF EscrowTerms
    <2>. DEFINE sum == SumFunction(EscrowTerms(t))
    <2>3. EscrowedFor(t, r) <= sum
      BY <1>0, <2>1, <2>2, TermWithinSum
    <2>4. tokenBalance[t] = sum + liquidity[t]
      BY SumsOfTerms DEF ConservationInv, TokenConservation
    <2>5. /\ sum \in Int /\ liquidity[t] \in Int /\ tokenBalance[t] \in Nat
          /\ EscrowedFor(t, r) \in Nat
      BY <1>0, <2>1, <2>2, TermsSummable, SumType DEF TypeOK
    <2>. HIDE DEF sum
    <2>. QED BY <2>3, <2>4, <2>5
  <1>. QED BY <1>1, <1>2

\* Whatever is slashed, kept and returned for other requests, a claim's bond can be
\* returned or forfeited; and a settlement has the tokens it pays, unless the
\* deposits were delivered or withdrawn (NewRelayer.sol:370-379, 395-403).
THEOREM ClaimsAreFunded == Spec => [](BondsCovered /\ DepositsCovered)
  BY InvHolds, ConservationHolds, ConservationCovers, PTL
-----------------------------------------------------------------------------
(***************************************************************************)
(* The list of nodes: the loop of getAuthorizedNodes keeps every authorized *)
(* entry of nodesList, and every authorized node is an entry of it.         *)
(***************************************************************************)
Entries(s) == {s[i] : i \in 1..Len(s)}

LEMMA AppendEntries ==
  ASSUME NEW S, NEW s \in Seq(S), NEW x \in S
  PROVE  Entries(Append(s, x)) = Entries(s) \cup {x}
  <1>1. /\ Len(Append(s, x)) = Len(s) + 1 /\ Len(s) \in Nat
        /\ Append(s, x)[Len(s) + 1] = x
        /\ \A i \in 1..Len(s) : Append(s, x)[i] = s[i]
    OBVIOUS
  <1>2. 1..(Len(s) + 1) = 1..Len(s) \cup {Len(s) + 1}
    BY <1>1
  <1>. QED BY <1>1, <1>2 DEF Entries

IsActive(f, list, active) ==
  f = [i \in 0..Len(list) |->
         IF i = 0 THEN <<>>
         ELSE IF list[i] \in active THEN Append(f[i - 1], list[i]) ELSE f[i - 1]]

LEMMA ActiveExists ==
  ASSUME NEW S, NEW list \in Seq(S), NEW active
  PROVE  \E f : IsActive(f, list, active)
  <1>. DEFINE keep(n, s) == IF n + 1 \in 1..Len(list) /\ list[n + 1] \in active
                            THEN Append(s, list[n + 1]) ELSE s
              next == [q \in Nat \X Seq(S) |-> keep(q[1], q[2])]
  <1>1. next \in [Nat \X Seq(S) -> Seq(S)]
    OBVIOUS
  <1>2. \A n \in Nat, s \in Seq(S) : next[<<n, s>>] = keep(n, s)
    OBVIOUS
  <1>3. <<>> \in Seq(S)
    OBVIOUS
  <1>. HIDE DEF next
  <1>4. PICK f \in [Nat -> Seq(S)] :
          f[0] = <<>> /\ \A n \in Nat : f[n + 1] = next[<<n, f[n]>>]
    <2>. DEFINE V == Seq(S)
                base == <<>>
    <2>1. base \in V /\ next \in [Nat \X V -> V]
      BY <1>1, <1>3
    <2>. HIDE DEF V, base
    <2>2. \E f \in [Nat -> V] : Recurs(f, base, next)
      BY <2>1, PrimitiveRecursion
    <2>. QED BY <2>2 DEF V, base, Recurs
  <1>. DEFINE g == [i \in 0..Len(list) |-> f[i]]
  <1>5. ASSUME NEW i \in 0..Len(list)
        PROVE  g[i] = IF i = 0 THEN <<>>
                      ELSE IF list[i] \in active THEN Append(g[i - 1], list[i]) ELSE g[i - 1]
    <2>1. CASE i = 0
      BY <1>4, <2>1
    <2>2. CASE i # 0
      <3>1. i - 1 \in Nat /\ i - 1 \in 0..Len(list) /\ (i - 1) + 1 = i /\ i \in 1..Len(list)
        BY <2>2
      <3>2. f[i] = next[<<i - 1, f[i - 1]>>]
        BY <1>4, <3>1
      <3>3. f[i] = keep(i - 1, f[i - 1])
        BY <1>2, <1>4, <3>1, <3>2
      <3>. QED BY <2>2, <3>1, <3>3
    <2>. QED BY <2>1, <2>2
  <1>6. IsActive(g, list, active)
    BY <1>5 DEF IsActive
  <1>. QED BY <1>6

\* By induction on the number of entries the loop has gone through.
LEMMA ActiveEntries ==
  ASSUME NEW S, NEW list \in Seq(S), NEW active, NEW f, IsActive(f, list, active)
  PROVE  Entries(f[Len(list)]) = Entries(list) \cap active
  <1>. DEFINE Right(i) == /\ f[i] \in Seq(S)
                          /\ Entries(f[i]) = {list[j] : j \in 1..i} \cap active
              X == {i \in Nat : i <= Len(list) => Right(i)}
  <1>1. 0 \in X
    <2>1. f[0] = <<>> /\ <<>> \in Seq(S)
      BY DEF IsActive
    <2>2. Entries(<<>>) = {} /\ {list[j] : j \in 1..0} = {}
      BY DEF Entries
    <2>. QED BY <2>1, <2>2
  <1>2. ASSUME NEW i \in X PROVE i + 1 \in X
    <2>. SUFFICES ASSUME i + 1 <= Len(list) PROVE Right(i + 1)
      OBVIOUS
    <2>1. i \in Nat /\ i + 1 \in 1..Len(list) /\ list[i + 1] \in S
      OBVIOUS
    <2>2. f[i] \in Seq(S) /\ Entries(f[i]) = {list[j] : j \in 1..i} \cap active
      BY <1>2, <2>1
    <2>3. f[i + 1] = IF list[i + 1] \in active THEN Append(f[i], list[i + 1]) ELSE f[i]
      <3>1. i + 1 \in 0..Len(list) /\ i + 1 # 0 /\ (i + 1) - 1 = i
        BY <2>1
      <3>. QED BY <3>1 DEF IsActive
    <2>4. {list[j] : j \in 1..(i + 1)} = {list[j] : j \in 1..i} \cup {list[i + 1]}
      <3>1. 1..(i + 1) = 1..i \cup {i + 1}
        BY <2>1
      <3>. QED BY <3>1
    <2>5. CASE list[i + 1] \in active
      <3>1. f[i + 1] \in Seq(S) /\ Entries(f[i + 1]) = Entries(f[i]) \cup {list[i + 1]}
        BY <2>1, <2>2, <2>3, <2>5, AppendEntries
      <3>. QED BY <2>2, <2>4, <2>5, <3>1
    <2>6. CASE list[i + 1] \notin active
      BY <2>2, <2>3, <2>4, <2>6
    <2>. QED BY <2>5, <2>6
  <1>3. X = Nat
    <2>. HIDE DEF X
    <2>1. X \in SUBSET Nat
      BY DEF X
    <2>. QED BY <1>1, <1>2, <2>1, NatInd
  <1>4. Right(Len(list))
    <2>1. Len(list) \in Nat
      OBVIOUS
    <2>. HIDE DEF Right
    <2>. QED BY <1>3, <2>1
  <1>. QED BY <1>4 DEF Entries

LEMMA ListedActive ==
  ASSUME TypeOK
  PROVE  Entries(GetAuthorizedNodes) = Entries(nodesList) \cap authorizedNodes
  <1>1. nodesList \in Seq(Node)
    BY DEF TypeOK
  <1>. DEFINE f == CHOOSE f : IsActive(f, nodesList, authorizedNodes)
  <1>2. GetAuthorizedNodes = f[Len(nodesList)]
    BY DEF GetAuthorizedNodes, IsActive
  <1>3. IsActive(f, nodesList, authorizedNodes)
    BY <1>1, ActiveExists
  <1>. HIDE DEF f
  <1>. QED BY <1>1, <1>2, <1>3, ActiveEntries

\* Only authorizeNode adds to authorizedNodes, and nothing is ever removed from
\* nodesList.
AuthorizedAreListed == authorizedNodes \subseteq Entries(nodesList)

LEMMA AuthorizedStep ==
  TypeOK /\ AuthorizedAreListed /\ [Next]_vars => AuthorizedAreListed'
  <1>. SUFFICES ASSUME TypeOK, AuthorizedAreListed, [Next]_vars
                PROVE  AuthorizedAreListed'
    OBVIOUS
  <1>1. CASE \E n \in Node : AuthorizeNode(n)
    <2>1. PICK n \in Node : AuthorizeNode(n)
      BY <1>1
    <2>2. Entries(Append(nodesList, n)) = Entries(nodesList) \cup {n}
      BY AppendEntries DEF TypeOK
    <2>. QED BY <2>1, <2>2 DEF AuthorizeNode, AuthorizedAreListed
  <1>2. CASE \E n \in Revocable : RevokeNode(n)
    BY <1>2 DEF RevokeNode, AuthorizedAreListed
  <1>3. CASE UNCHANGED <<authorizedNodes, nodesList>>
    BY <1>3 DEF AuthorizedAreListed
  <1>4. RequestNext \/ PoolNext \/ Tick \/ UNCHANGED vars
          => UNCHANGED <<authorizedNodes, nodesList>>
    BY DEF RequestNext, InitiateBridge, ClaimBridge, VerifyAndSettle,
           ReleaseExpiredClaim, PoolNext, DeliverTokens, EmergencyWithdraw, SpendPool,
           ProvideLiquidity, Tick, vars, adminVars
  <1>5. AdminNext => \/ UNCHANGED <<authorizedNodes, nodesList>>
                     \/ \E n \in Node : AuthorizeNode(n)
                     \/ \E n \in Revocable : RevokeNode(n)
    BY DEF AdminNext, UpdateRelayer, UpdateFeePercentage, UpdateFeeLimits,
           UpdateClaimWindow, UpdateMinSolverBond, UpdateSlashParams, SetConfig
  <1>. QED BY <1>1, <1>2, <1>3, <1>4, <1>5 DEF Next

\* getAuthorizedNodes lists every authorized node, however often nodes were
\* revoked and authorized again (NewRelayer.sol:192-208, 215-236).
THEOREM AuthorizedNodesListed == Spec => []NoNodeMissing
  <1>1. Init => AuthorizedAreListed
    BY DEF Init, AuthorizedAreListed
  <1>2. TypeOK /\ AuthorizedAreListed => NoNodeMissing
    BY ListedActive DEF AuthorizedAreListed, NoNodeMissing, Entries
  <1>. QED BY <1>1, <1>2, TypeCorrect, AuthorizedStep, PTL DEF Spec
-----------------------------------------------------------------------------
(***************************************************************************)
(* The contract implements EscrowLifecycle: its initial states are escrow   *)
(* initial states, and each transaction is a step of the escrow or leaves   *)
(* it alone.                                                                *)
(***************************************************************************)

\* The phase of a request, one case at a time.
LEMMA PhaseCases ==
  ASSUME NEW r \in RequestId
  PROVE  /\ ~Exists(r) => EscrowPhase[r] = "none"
         /\ Exists(r) /\ bridgeRequests[r].finalized => EscrowPhase[r] = "paid"
         /\ Exists(r) /\ ~bridgeRequests[r].finalized /\ Claimed(r)
              => EscrowPhase[r] = "claimed"
         /\ Exists(r) /\ ~bridgeRequests[r].finalized /\ ~Claimed(r)
              => EscrowPhase[r] = "open"
  BY DEF EscrowPhase

LEMMA PhaseCasesNext ==
  ASSUME NEW r \in RequestId
  PROVE  /\ ~Exists(r)' => EscrowPhase'[r] = "none"
         /\ Exists(r)' /\ bridgeRequests'[r].finalized => EscrowPhase'[r] = "paid"
         /\ Exists(r)' /\ ~bridgeRequests'[r].finalized /\ Claimed(r)'
              => EscrowPhase'[r] = "claimed"
         /\ Exists(r)' /\ ~bridgeRequests'[r].finalized /\ ~Claimed(r)'
              => EscrowPhase'[r] = "open"
  BY DEF EscrowPhase

\* A step that changes one request changes one entry of each mapped function.
LEMMA MapsElsewhere ==
  ASSUME NEW r \in RequestId,
         \A q \in RequestId \ {r} :
           /\ bridgeRequests'[q] = bridgeRequests[q]
           /\ requestClaim'[q] = requestClaim[q]
           /\ requestFeeEscrow'[q] = requestFeeEscrow[q]
           /\ ledger'[q].payee = ledger[q].payee
  PROVE  /\ EscrowPhase'  = [EscrowPhase  EXCEPT ![r] = EscrowPhase'[r]]
         /\ EscrowHolder' = [EscrowHolder EXCEPT ![r] = EscrowHolder'[r]]
         /\ EscrowExpiry' = [EscrowExpiry EXCEPT ![r] = EscrowExpiry'[r]]
         /\ EscrowLocked' = [EscrowLocked EXCEPT ![r] = EscrowLocked'[r]]
         /\ EscrowPayee'  = [EscrowPayee  EXCEPT ![r] = EscrowPayee'[r]]
  <1>1. \A q \in RequestId \ {r} :
          (Exists(q)' <=> Exists(q)) /\ (Claimed(q)' <=> Claimed(q))
    BY DEF Exists, Claimed
  <1>2. \A q \in RequestId \ {r} : EscrowPhase'[q] = EscrowPhase[q]
    BY <1>1, PhaseCases, PhaseCasesNext
  <1>3. EscrowPhase' = [EscrowPhase EXCEPT ![r] = EscrowPhase'[r]]
    <2>. DEFINE f == EscrowPhase
                g == EscrowPhase'
    <2>1. DOMAIN f = RequestId /\ DOMAIN g = RequestId
      BY DEF EscrowPhase
    <2>2. f = [q \in RequestId |-> f[q]] /\ g = [q \in RequestId |-> g[q]]
      BY DEF EscrowPhase
    <2>3. \A q \in RequestId \ {r} : f[q] = g[q]
      BY <1>2
    <2>4. QED
      <3>. HIDE DEF f, g
      <3>1. g = [f EXCEPT ![r] = g[r]]
        BY <2>1, <2>2, <2>3
      <3>2. QED
        BY <3>1 DEF f, g
  <1>4. QED
    BY <1>3 DEF EscrowHolder, EscrowExpiry, EscrowLocked, EscrowPayee
-----------------------------------------------------------------------------
LEMMA InitRefines == Init => Escrow!Init
  <1>. SUFFICES ASSUME Init PROVE Escrow!Init
    OBVIOUS
  <1>1. \A r \in RequestId : EscrowPhase[r] = "none"
    BY PhaseCases DEF Init, Exists, NoRequest
  <1>2. EscrowPhase = [r \in RequestId |-> "none"]
    BY <1>1 DEF EscrowPhase
  <1>3. EscrowLocked = [r \in RequestId |-> 0]
    BY DEF Init, EscrowLocked, NoRequest
  <1>4. EscrowHolder = [r \in RequestId |-> ZeroAddress]
    BY DEF Init, EscrowHolder, NoClaim
  <1>5. EscrowExpiry = [r \in RequestId |-> 0]
    BY DEF Init, EscrowExpiry, NoClaim
  <1>6. EscrowPayee = [r \in RequestId |-> ZeroAddress]
    BY DEF Init, EscrowPayee, NoLedger
  <1>7. now \in Nat
    BY DEF Init
  <1>8. QED
    BY <1>2, <1>3, <1>4, <1>5, <1>6, <1>7 DEF Escrow!Init

LEMMA InitiateRefines ==
  ASSUME IInv, NEW u \in User, NEW t \in Token, NEW a \in Amounts,
         InitiateBridge(u, t, a)
  PROVE  Escrow!Next
  <1>. USE DEF IInv, SafetyInv
  <1>. DEFINE fee == CalculateFee(config, a)
  <1>1. a \in Nat /\ fee \in Nat /\ a - fee \in Nat /\ a - fee + fee = a
    BY RequestTerms DEF InitiateBridge
  <1>2. PICK r \in RequestId : r = bridgeNonce + 1
    BY BoundAssumption DEF InitiateBridge, TypeOK, RequestId
  <1>3. bridgeNonce \in Nat /\ u # ZeroAddress
    BY AddressAssumption DEF TypeOK
  <1>4. ~Exists(r) /\ bridgeRequests[r] = NoRequest /\ ~Claimed(r)
    BY <1>2, <1>3 DEF RequestTableOK
  <1>5. /\ bridgeRequests'[r] = [sender |-> u, token |-> t, amount |-> a - fee,
                                 fee |-> fee, finalized |-> FALSE]
        /\ requestFeeEscrow'[r] = fee
        /\ requestClaim' = requestClaim /\ now' = now
    BY <1>2 DEF InitiateBridge, TypeOK
  <1>6. \A q \in RequestId \ {r} :
          /\ bridgeRequests'[q] = bridgeRequests[q]
          /\ requestClaim'[q] = requestClaim[q]
          /\ requestFeeEscrow'[q] = requestFeeEscrow[q]
          /\ ledger'[q].payee = ledger[q].payee
    BY <1>2 DEF InitiateBridge, TypeOK
  <1>7. ledger'[r].payee = ledger[r].payee
    BY <1>2 DEF InitiateBridge, TypeOK, Ledger
  <1>8. Exists(r)' /\ ~bridgeRequests'[r].finalized /\ ~Claimed(r)'
    BY <1>3, <1>4, <1>5 DEF Exists, Claimed
  <1>9. EscrowPhase[r] = "none" /\ EscrowPhase'[r] = "open"
    BY <1>4, <1>8, PhaseCases, PhaseCasesNext
  <1>10. EscrowLocked'[r] = a
    BY <1>1, <1>5 DEF EscrowLocked
  <1>11. UNCHANGED <<EscrowHolder, EscrowExpiry, EscrowPayee>>
    <2>1. \A q \in RequestId : ledger'[q].payee = ledger[q].payee
      BY <1>6, <1>7
    <2>2. QED
      BY <1>5, <2>1 DEF EscrowHolder, EscrowExpiry, EscrowPayee
  <1>12. Escrow!Open(r)
    BY <1>1, <1>5, <1>6, <1>9, <1>10, <1>11, MapsElsewhere DEF Escrow!Open
  <1>13. QED
    BY <1>12 DEF Escrow!Next

LEMMA ClaimRefines ==
  ASSUME IInv, NEW n \in Node, NEW r \in RequestId, NEW v \in BondValues,
         ClaimBridge(n, r, v)
  PROVE  Escrow!Next
  <1>. USE DEF IInv, SafetyInv
  <1>1. Exists(r) /\ ~bridgeRequests[r].finalized /\ ~Live(r)
    BY DEF ClaimBridge, Claimable
  <1>2. now \in Nat /\ config.claimWindow \in Nat /\ n # ZeroAddress
    BY BoundAssumption, AddressAssumption DEF TypeOK, Config
  <1>3. /\ UNCHANGED <<bridgeRequests, requestFeeEscrow, now>>
        /\ requestClaim'[r].solver = n
        /\ requestClaim'[r].deadline = now + config.claimWindow
        /\ \A q \in RequestId \ {r} : requestClaim'[q] = requestClaim[q]
    BY DEF ClaimBridge, TypeOK
  <1>4. \A q \in RequestId : ledger'[q].payee = ledger[q].payee
    <2>. DEFINE entry == IF Claimed(r) THEN ForfeitedLedger(r) ELSE ledger[r]
    <2>1. entry \in Ledger /\ entry.payee = ledger[r].payee
      BY ForfeitedLedgerFacts DEF TypeOK
    <2>2. ledger' = [ledger EXCEPT ![r] =
                       [entry EXCEPT !.bondPosted = entry.bondPosted + v]]
      BY DEF ClaimBridge
    <2>3. ledger'[r].payee = entry.payee
      BY <2>1, <2>2 DEF TypeOK, Ledger
    <2>4. QED
      BY <2>1, <2>2, <2>3 DEF TypeOK
  <1>5. EscrowPhase'[r] = "claimed"
    BY <1>1, <1>2, <1>3, PhaseCasesNext DEF Exists, Claimed
  <1>6. /\ EscrowHolder'[r] = n
        /\ EscrowExpiry'[r] \in Nat /\ EscrowExpiry'[r] >= now
    BY <1>2, <1>3 DEF EscrowHolder, EscrowExpiry
  <1>7. UNCHANGED <<EscrowLocked, EscrowPayee>>
    BY <1>3, <1>4 DEF EscrowLocked, EscrowPayee
  <1>8. Escrow!MayChangeHands(r)
    <2>1. CASE ~Claimed(r)
      BY <1>1, <2>1, PhaseCases DEF Escrow!MayChangeHands
    <2>2. CASE Claimed(r)
      <3>1. requestClaim[r].deadline \in Nat
        BY DEF TypeOK, ClaimType
      <3>2. now >= requestClaim[r].deadline
        BY <1>1, <1>2, <2>2, <3>1 DEF Live
      <3>3. EscrowPhase[r] = "claimed" /\ now >= EscrowExpiry[r]
        BY <1>1, <2>2, <3>2, PhaseCases DEF EscrowExpiry
      <3>4. QED
        BY <3>3 DEF Escrow!MayChangeHands
    <2>3. QED
      BY <2>1, <2>2
  <1>9. Escrow!Claim(r, n)
    BY <1>3, <1>4, <1>5, <1>6, <1>7, <1>8, MapsElsewhere DEF Escrow!Claim
  <1>10. QED
    BY <1>9 DEF Escrow!Next

LEMMA SettleRefines ==
  ASSUME IInv, NEW r \in RequestId, VerifyAndSettle(r)
  PROVE  Escrow!Next
  <1>. USE DEF IInv, SafetyInv
  <1>1. /\ Exists(r) /\ ~bridgeRequests[r].finalized /\ Claimed(r)
        /\ now <= requestClaim[r].deadline
    BY DEF VerifyAndSettle, Settleable
  <1>2. bridgeRequests[r] \in Request
    BY <1>1 DEF TypeOK, Exists, NoRequest
  <1>3. /\ bridgeRequests'[r] = [bridgeRequests[r] EXCEPT !.finalized = TRUE]
        /\ requestFeeEscrow'[r] = 0
        /\ requestClaim'[r] = NoClaim
        /\ now' = now
    BY DEF VerifyAndSettle, TypeOK
  <1>4. \A q \in RequestId \ {r} :
          /\ bridgeRequests'[q] = bridgeRequests[q]
          /\ requestClaim'[q] = requestClaim[q]
          /\ requestFeeEscrow'[q] = requestFeeEscrow[q]
          /\ ledger'[q].payee = ledger[q].payee
    BY DEF VerifyAndSettle, TypeOK
  <1>5. ledger'[r].payee = requestClaim[r].solver
    BY DEF VerifyAndSettle, TypeOK, Ledger
  <1>6. /\ bridgeRequests'[r].finalized
        /\ bridgeRequests'[r].sender = bridgeRequests[r].sender
    BY <1>2, <1>3 DEF Request
  <1>7. EscrowPhase[r] = "claimed" /\ EscrowPhase'[r] = "paid"
    BY <1>1, <1>6, PhaseCases, PhaseCasesNext DEF Exists
  <1>8. /\ EscrowHolder'[r] = ZeroAddress /\ EscrowExpiry'[r] = 0
        /\ EscrowLocked'[r] = 0
        /\ EscrowPayee'[r] = EscrowHolder[r] /\ now <= EscrowExpiry[r]
    <2>1. requestFeeEscrow'[r] = 0 /\ bridgeRequests'[r].finalized
      BY <1>3, <1>6
    <2>2. EscrowLocked'[r] = 0
      BY <2>1 DEF EscrowLocked
    <2>3. EscrowHolder'[r] = ZeroAddress /\ EscrowExpiry'[r] = 0
      BY <1>3 DEF EscrowHolder, EscrowExpiry, NoClaim
    <2>4. EscrowPayee'[r] = EscrowHolder[r] /\ now <= EscrowExpiry[r]
      BY <1>1, <1>5 DEF EscrowPayee, EscrowHolder, EscrowExpiry
    <2>5. QED
      BY <2>2, <2>3, <2>4
  <1>9. Escrow!Pay(r)
    BY <1>3, <1>4, <1>7, <1>8, MapsElsewhere DEF Escrow!Pay
  <1>10. QED
    BY <1>9 DEF Escrow!Next

\* releaseExpiredClaim does not ask whether the request was paid; it need not,
\* because a paid request has no claim.
LEMMA ReleaseRefines ==
  ASSUME IInv, NEW r \in RequestId, ReleaseExpiredClaim(r)
  PROVE  Escrow!Next
  <1>. USE DEF IInv, SafetyInv
  <1>1. /\ Claimed(r) /\ now >= requestClaim[r].deadline
        /\ Exists(r) /\ ~bridgeRequests[r].finalized
    BY DEF ReleaseExpiredClaim, Expired, RequestTableOK
  <1>2. /\ UNCHANGED <<bridgeRequests, requestFeeEscrow, now>>
        /\ requestClaim'[r] = NoClaim
        /\ \A q \in RequestId \ {r} : requestClaim'[q] = requestClaim[q]
    BY DEF ReleaseExpiredClaim, TypeOK
  <1>3. \A q \in RequestId : ledger'[q].payee = ledger[q].payee
    BY ForfeitedLedgerFacts DEF ReleaseExpiredClaim, TypeOK
  <1>4. EscrowPhase[r] = "claimed"
    BY <1>1, PhaseCases
  <1>5. EscrowPhase'[r] = "open"
    BY <1>1, <1>2, PhaseCasesNext DEF Exists, Claimed, NoClaim
  <1>6. /\ EscrowHolder'[r] = ZeroAddress /\ EscrowExpiry'[r] = 0
        /\ now >= EscrowExpiry[r]
    BY <1>1, <1>2 DEF EscrowHolder, EscrowExpiry, NoClaim
  <1>7. UNCHANGED <<EscrowLocked, EscrowPayee>>
    BY <1>2, <1>3 DEF EscrowLocked, EscrowPayee
  <1>8. Escrow!Release(r)
    BY <1>2, <1>3, <1>4, <1>5, <1>6, <1>7, MapsElsewhere DEF Escrow!Release
  <1>9. QED
    BY <1>8 DEF Escrow!Next

LEMMA RequestsUnchanged ==
  UNCHANGED requestVars =>
    UNCHANGED <<EscrowPhase, EscrowHolder, EscrowExpiry, EscrowLocked, EscrowPayee>>
  BY DEF requestVars, EscrowPhase, EscrowHolder, EscrowExpiry, EscrowLocked,
         EscrowPayee, Exists, Claimed

LEMMA StepRefines == IInv /\ [Next]_vars => [Escrow!Next]_(Escrow!vars)
  <1>. SUFFICES ASSUME IInv, [Next]_vars
                PROVE  Escrow!Next \/ UNCHANGED Escrow!vars
    OBVIOUS
  <1>1. CASE RequestNext
    BY <1>1, InitiateRefines, ClaimRefines, SettleRefines, ReleaseRefines
    DEF RequestNext
  <1>2. CASE AdminNext \/ PoolNext \/ UNCHANGED vars
    <2>1. now' = now
      <3>1. AdminNext => now' = now
        BY DEF AdminNext, UpdateRelayer, UpdateFeePercentage, UpdateFeeLimits,
               UpdateClaimWindow, UpdateMinSolverBond, UpdateSlashParams,
               SetConfig, AuthorizeNode, RevokeNode
      <3>2. PoolNext => now' = now
        BY DEF PoolNext, DeliverTokens, EmergencyWithdraw, SpendPool,
               ProvideLiquidity
      <3>3. QED
        BY <1>2, <3>1, <3>2 DEF vars
    <2>2. QED
      BY <1>2, <2>1, OthersLeaveRequests, RequestsUnchanged DEF Escrow!vars
  <1>3. CASE Tick
    <2>1. now' \in Nat /\ now' > now
      BY <1>3 DEF Tick, IInv, TypeOK
    <2>2. Escrow!AdvanceClock
      BY <1>3, <2>1, OthersLeaveRequests, RequestsUnchanged
      DEF Escrow!AdvanceClock
    <2>3. QED
      BY <2>2 DEF Escrow!Next
  <1>4. QED
    BY <1>1, <1>2, <1>3 DEF Next

\* Every behaviour of the contract is one of the escrow: what a claim is worth
\* does not depend on fees, bonds, configuration or the other direction.
THEOREM Refinement == Spec => ImplementsEscrow
  BY InitRefines, StepRefines, InvHolds, PTL DEF Spec, ImplementsEscrow, Escrow!Spec
=============================================================================
