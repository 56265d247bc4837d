----------------------------- MODULE NewRelayer -----------------------------
(***************************************************************************)
(* The EVM escrow contract of the bridge                                    *)
(* (evm-contracts/contracts/NewRelayer.sol).                                *)
(*                                                                          *)
(* One action is one transaction: the chain runs transactions one after     *)
(* the other and a revert undoes the whole of one, so a transaction that    *)
(* reverts is a step that is not enabled.  What interleaves are the         *)
(* transactions of users, solvers, relayer and owner, and time.             *)
(*                                                                          *)
(* Fees, bonds and balances are integers.  Encrypted destinations are       *)
(* opaque: of the FHE coprocessor only its access list is kept.             *)
(***************************************************************************)
EXTENDS BridgeFee, Sequences, FiniteSets, Functions

CONSTANTS
  User,            \* accounts that deposit
  Node,            \* accounts that may be authorized as solvers
  RelayerAccount,  \* accounts that may be the relayer
  Collector,       \* accounts that may receive slashed bonds
  ZeroAddress,     \* address(0)
  Token,           \* ERC-20 contracts
  AcceptsEth,      \* accounts whose code accepts a plain ETH transfer
  DefaultConfig    \* configuration a deployment starts with

\* What the owner, the users and the solvers may choose in an instance.
CONSTANTS
  FeePercentages, FeeLimits, ClaimWindows, MinBonds, SlashParams, NewRelayers,
  Revocable,       \* nodes the owner may revoke
  Amounts,         \* amounts a user may deposit
  BondValues,      \* msg.value of a claim
  TransferAmounts  \* amounts deliverTokens and emergencyWithdraw may move

\* Limits of the code (a claim window is 1 minute to 24 hours).
CONSTANTS MinClaimWindow, MaxClaimWindow

\* Bounds of the model.
CONSTANTS
  MaxRequests,   \* requests ever opened
  MaxTime,       \* last value of block.timestamp
  MaxListed,     \* length of nodesList
  MaxLiquidity   \* tokens provided besides the deposits, per token

Config ==
  [relayer: RelayerAccount, feePercentage: Nat, minFee: Nat, maxFee: Nat,
   claimWindow: MinClaimWindow..MaxClaimWindow, minSolverBond: Nat,
   slashBps: 0..BpsDenominator, slashCollector: Collector \cup {ZeroAddress}]

ASSUME AddressAssumption ==
  /\ ZeroAddress \notin User \cup Node \cup RelayerAccount \cup Collector
  /\ DefaultConfig \in Config

ASSUME InputAssumption ==
  /\ FeePercentages \subseteq Nat /\ FeeLimits \subseteq Nat \X Nat
  /\ ClaimWindows \subseteq Nat /\ MinBonds \subseteq Nat
  /\ SlashParams \subseteq Nat \X (Collector \cup {ZeroAddress})
  /\ NewRelayers \subseteq RelayerAccount \cup {ZeroAddress}
  /\ Revocable \subseteq Node
  /\ Amounts \subseteq Nat /\ BondValues \subseteq Nat
  /\ TransferAmounts \subseteq Nat

ASSUME BoundAssumption ==
  /\ MinClaimWindow \in Nat /\ MaxClaimWindow \in Nat
  /\ MaxRequests \in Nat /\ MaxTime \in Nat
  /\ MaxListed \in Nat /\ MaxLiquidity \in Nat

RequestId == 1..MaxRequests

VARIABLES
  config,           \* relayer, fee, window, bond and slash parameters
  authorizedNodes,  \* set of authorized nodes
  nodesList,        \* every node ever authorized, in order
  bridgeNonce,      \* id of the last request
  bridgeRequests,   \* bridgeRequests[r]
  requestClaim,     \* requestClaim[r]
  requestFeeEscrow, \* requestFeeEscrow[r]
  tokenBalance,     \* tokenBalance[t]: the contract's balance of token t
  ethBalance,       \* the contract's ETH
  fheReaders,       \* fheReaders[r]: accounts allowed to decrypt r's destination
  now               \* block.timestamp

\* History, for the properties only.
VARIABLES
  ledger,           \* ledger[r]: everything that moved in or out on behalf of r
  liquidity         \* liquidity[t]: provided minus delivered minus withdrawn

adminVars   == <<config, authorizedNodes, nodesList>>
requestVars == <<bridgeNonce, bridgeRequests, requestClaim, requestFeeEscrow,
                 fheReaders, ledger>>
moneyVars   == <<tokenBalance, ethBalance, liquidity>>
vars        == <<adminVars, requestVars, moneyVars, now>>
-----------------------------------------------------------------------------
Account == User \cup Node \cup RelayerAccount

NoRequest == [sender |-> ZeroAddress, token |-> ZeroAddress, amount |-> 0,
              fee |-> 0, finalized |-> FALSE]
Request == [sender: User, token: Token, amount: Nat, fee: Nat,
            finalized: BOOLEAN]

NoClaim == [solver |-> ZeroAddress, claimedAt |-> 0, deadline |-> 0, bond |-> 0]
ClaimType == [solver: Node \cup {ZeroAddress}, claimedAt: Nat, deadline: Nat,
              bond: Nat]

NoLedger == [deposited |-> 0, paidOut |-> 0, payee |-> ZeroAddress,
             bondPosted |-> 0, bondReturned |-> 0, bondSlashed |-> 0,
             bondKept |-> 0]
Ledger == [deposited: Nat, paidOut: Nat, payee: Node \cup {ZeroAddress},
           bondPosted: Nat, bondReturned: Nat, bondSlashed: Nat, bondKept: Nat]

Exists(r)  == bridgeRequests[r].sender # ZeroAddress
Claimed(r) == requestClaim[r].solver # ZeroAddress
\* Mutant: an off-by-one deadline.
ExpiredOneEarly(r) == now + 1 >= requestClaim[r].deadline
Expired(r) == now >= requestClaim[r].deadline
Live(r)    == Claimed(r) /\ now < requestClaim[r].deadline

Init ==
  /\ config = DefaultConfig
  /\ authorizedNodes = {} /\ nodesList = <<>>
  /\ bridgeNonce = 0
  /\ bridgeRequests   = [r \in RequestId |-> NoRequest]
  /\ requestClaim     = [r \in RequestId |-> NoClaim]
  /\ requestFeeEscrow = [r \in RequestId |-> 0]
  /\ fheReaders       = [r \in RequestId |-> {}]
  /\ ledger           = [r \in RequestId |-> NoLedger]
  /\ tokenBalance     = [t \in Token |-> 0]
  /\ liquidity        = [t \in Token |-> 0]
  /\ ethBalance = 0
  /\ now = 0
-----------------------------------------------------------------------------
(***************************************************************************)
(* The owner's transactions.  Each rejects what the code rejects.           *)
(***************************************************************************)
SetConfig(newConfig) ==
  /\ config' = newConfig
  /\ UNCHANGED <<authorizedNodes, nodesList, requestVars, moneyVars, now>>

UpdateRelayer(a) ==
  /\ a # ZeroAddress
  /\ SetConfig([config EXCEPT !.relayer = a])

UpdateFeePercentage(p) ==
  /\ p <= 1000
  /\ SetConfig([config EXCEPT !.feePercentage = p])

UpdateFeeLimits(low, high) ==
  /\ low < high
  /\ SetConfig([config EXCEPT !.minFee = low, !.maxFee = high])

UpdateClaimWindow(w) ==
  /\ w \in MinClaimWindow..MaxClaimWindow
  /\ SetConfig([config EXCEPT !.claimWindow = w])

UpdateMinSolverBond(b) == SetConfig([config EXCEPT !.minSolverBond = b])

UpdateSlashParams(bps, collector) ==
  /\ bps <= BpsDenominator
  /\ SetConfig([config EXCEPT !.slashBps = bps, !.slashCollector = collector])

\* Mutant: the push onto nodesList is forgotten.
AuthorizeNodeUnlisted(n) ==
  /\ n \notin authorizedNodes
  /\ authorizedNodes' = authorizedNodes \cup {n}
  /\ UNCHANGED <<config, nodesList, requestVars, moneyVars, now>>

\* Authorizing a node that is not authorized appends it, whether or not the
\* list already holds it.
AuthorizeNode(n) ==
  /\ n \notin authorizedNodes
  /\ Len(nodesList) < MaxListed
  /\ authorizedNodes' = authorizedNodes \cup {n}
  /\ nodesList' = Append(nodesList, n)
  /\ UNCHANGED <<config, requestVars, moneyVars, now>>

\* Mutant: revoking a node also drops its claims.
RevokeNodeAndClaims(n) ==
  /\ n \in authorizedNodes
  /\ authorizedNodes' = authorizedNodes \ {n}
  /\ requestClaim' = [r \in RequestId |-> IF requestClaim[r].solver = n
                                         THEN NoClaim ELSE requestClaim[r]]
  /\ UNCHANGED <<config, nodesList, bridgeNonce, bridgeRequests,
                 requestFeeEscrow, fheReaders, ledger, moneyVars, now>>

\* Revoking leaves nodesList, and the node's live claims, alone.
RevokeNode(n) ==
  /\ n \in authorizedNodes
  /\ authorizedNodes' = authorizedNodes \ {n}
  /\ UNCHANGED <<config, nodesList, requestVars, moneyVars, now>>

\* getAuthorizedNodes: nodesList without the entries not authorized now.
\* (ActiveNodes[i]: activeNodes when the loop has gone through i entries.)
GetAuthorizedNodes ==
  LET ActiveNodes[i \in 0..Len(nodesList)] ==
        IF i = 0 THEN <<>>
        ELSE IF nodesList[i] \in authorizedNodes
             THEN Append(ActiveNodes[i - 1], nodesList[i]) ELSE ActiveNodes[i - 1]
  IN  ActiveNodes[Len(nodesList)]
-----------------------------------------------------------------------------
(***************************************************************************)
(* Forfeiting an expired claim: claimBridge does it on the way to a new     *)
(* claim, releaseExpiredClaim does nothing else.  The slashed part goes to  *)
(* the collector, or stays in the contract when there is none.              *)
(***************************************************************************)
Slashed(r) == SlashAmount(requestClaim[r].bond, config.slashBps)

\* Mutant: the bond goes back whole although a part of it is slashed.
LeftoverWhole(r) == requestClaim[r].bond
Leftover(r) == requestClaim[r].bond - Slashed(r)

SentSlash(r) == IF config.slashCollector = ZeroAddress THEN 0 ELSE Slashed(r)

\* Mutant: the slash is sent although there is no collector.
EthOutAlways(r) == Slashed(r) + Leftover(r)
EthOut(r)    == SentSlash(r) + Leftover(r)

\* Both ETH transfers must succeed, or the transaction reverts.
ForfeitPays(r, eth) ==
  /\ EthOut(r) <= eth
  /\ SentSlash(r) > 0 => config.slashCollector \in AcceptsEth
  /\ Leftover(r) > 0 => requestClaim[r].solver \in AcceptsEth

\* Mutant: the whole bond is returned and the slash paid on top.
ForfeitedLedgerUnslashed(r) ==
  [ledger[r] EXCEPT
     !.bondReturned = ledger[r].bondReturned + requestClaim[r].bond,
     !.bondSlashed  = ledger[r].bondSlashed + SentSlash(r)]

ForfeitedLedger(r) ==
  [ledger[r] EXCEPT
     !.bondReturned = ledger[r].bondReturned + Leftover(r),
     !.bondSlashed  = ledger[r].bondSlashed + SentSlash(r),
     !.bondKept     = ledger[r].bondKept + (Slashed(r) - SentSlash(r))]
-----------------------------------------------------------------------------
(***************************************************************************)
(* EVM to Solana.                                                           *)
(***************************************************************************)
InitiateBridge(u, t, amount) ==
  LET r   == bridgeNonce + 1
      fee == CalculateFee(config, amount)
  IN  /\ amount # 0
      /\ bridgeNonce < MaxRequests
      /\ tokenBalance' = [tokenBalance EXCEPT ![t] = @ + amount]
      /\ bridgeNonce' = r
      /\ bridgeRequests' =
           [bridgeRequests EXCEPT ![r] =
              [sender |-> u, token |-> t, amount |-> amount - fee, fee |-> fee,
               finalized |-> FALSE]]
      /\ requestFeeEscrow' = [requestFeeEscrow EXCEPT ![r] = fee]
      /\ fheReaders' = [fheReaders EXCEPT ![r] = {u, config.relayer}]
      /\ ledger' = [ledger EXCEPT ![r].deposited = amount]
      /\ UNCHANGED <<adminVars, requestClaim, ethBalance, liquidity, now>>

\* Mutant: a paid request can be claimed again.
ClaimableWhenPaid(r) == Exists(r) /\ ~Live(r)

\* Open, or held by a claim that expired.
Claimable(r) == Exists(r) /\ ~bridgeRequests[r].finalized /\ ~Live(r)

\* An expired claim is forfeited first, with the ETH of the new claim already in.
ClaimBridge(n, r, value) ==
  LET entry == IF Claimed(r) THEN ForfeitedLedger(r) ELSE ledger[r]
      paid  == IF Claimed(r) THEN EthOut(r) ELSE 0
  IN  /\ n \in authorizedNodes
      /\ Claimable(r)
      /\ Claimed(r) => ForfeitPays(r, ethBalance + value)
      /\ value >= config.minSolverBond
      /\ requestClaim' =
           [requestClaim EXCEPT ![r] =
              [solver |-> n, claimedAt |-> now,
               deadline |-> now + config.claimWindow, bond |-> value]]
      /\ fheReaders' = [fheReaders EXCEPT ![r] = @ \cup {n}]
      /\ ethBalance' = ethBalance + value - paid
      /\ ledger' = [ledger EXCEPT ![r] =
                      [entry EXCEPT !.bondPosted = entry.bondPosted + value]]
      /\ UNCHANGED <<adminVars, bridgeNonce, bridgeRequests, requestFeeEscrow,
                     tokenBalance, liquidity, now>>

\* Mutant: a claim that expired can still be settled.
SettleableLate(r) ==
  Exists(r) /\ ~bridgeRequests[r].finalized /\ Claimed(r)

Settleable(r) ==
  /\ Exists(r) /\ ~bridgeRequests[r].finalized
  /\ Claimed(r) /\ now <= requestClaim[r].deadline

\* Mutants: the fee is left behind; the fee is computed again when paid.
PayoutWithoutFee(r) == bridgeRequests[r].amount
PayoutAtCurrentFee(r) ==
  bridgeRequests[r].amount + CalculateFee(config, bridgeRequests[r].amount)

Payout(r) == bridgeRequests[r].amount + requestFeeEscrow[r]

\* Both overloads of verifyAndSettle; the caller is config.relayer.  The code
\* pays whoever holds the claim when the transaction runs.
VerifyAndSettle(r) ==
  LET claim == requestClaim[r]
      token == bridgeRequests[r].token
  IN  /\ Settleable(r)
      /\ tokenBalance[token] >= Payout(r)
      /\ claim.bond <= ethBalance /\ claim.solver \in AcceptsEth
      /\ requestFeeEscrow' = [requestFeeEscrow EXCEPT ![r] = 0]
      /\ bridgeRequests' = [bridgeRequests EXCEPT ![r].finalized = TRUE]
      /\ tokenBalance' = [tokenBalance EXCEPT ![token] = @ - Payout(r)]
      /\ ethBalance' = ethBalance - claim.bond
      /\ requestClaim' = [requestClaim EXCEPT ![r] = NoClaim]
      /\ ledger' = [ledger EXCEPT ![r].paidOut = @ + Payout(r),
                                  ![r].payee = claim.solver,
                                  ![r].bondReturned = @ + claim.bond]
      /\ UNCHANGED <<adminVars, bridgeNonce, fheReaders, liquidity, now>>

ReleaseExpiredClaim(r) ==
  /\ Claimed(r) /\ Expired(r)
  /\ ForfeitPays(r, ethBalance)
  /\ requestClaim' = [requestClaim EXCEPT ![r] = NoClaim]
  /\ ethBalance' = ethBalance - EthOut(r)
  /\ ledger' = [ledger EXCEPT ![r] = ForfeitedLedger(r)]
  /\ UNCHANGED <<adminVars, bridgeNonce, bridgeRequests, requestFeeEscrow,
                 fheReaders, tokenBalance, liquidity, now>>
-----------------------------------------------------------------------------
(***************************************************************************)
(* Solana to EVM, and the owner's withdrawal: both spend the one balance    *)
(* the deposits are in.                                                     *)
(***************************************************************************)
SpendPool(t, amount) ==
  /\ amount # 0
  /\ tokenBalance[t] >= amount
  /\ tokenBalance' = [tokenBalance EXCEPT ![t] = @ - amount]
  /\ liquidity' = [liquidity EXCEPT ![t] = @ - amount]
  /\ UNCHANGED <<adminVars, requestVars, ethBalance, now>>

DeliverTokens(t, amount)     == SpendPool(t, amount)
EmergencyWithdraw(t, amount) == SpendPool(t, amount)

\* Liquidity for deliverTokens reaches the contract as a plain ERC-20 transfer.
ProvideLiquidity(t, amount) ==
  /\ liquidity[t] + amount <= MaxLiquidity
  /\ tokenBalance' = [tokenBalance EXCEPT ![t] = @ + amount]
  /\ liquidity' = [liquidity EXCEPT ![t] = @ + amount]
  /\ UNCHANGED <<adminVars, requestVars, ethBalance, now>>

Tick ==
  /\ now < MaxTime
  /\ now' = now + 1
  /\ UNCHANGED <<adminVars, requestVars, moneyVars>>

AdminNext ==
  \/ \E a \in NewRelayers : UpdateRelayer(a)
  \/ \E p \in FeePercentages : UpdateFeePercentage(p)
  \/ \E l \in FeeLimits : UpdateFeeLimits(l[1], l[2])
  \/ \E w \in ClaimWindows : UpdateClaimWindow(w)
  \/ \E b \in MinBonds : UpdateMinSolverBond(b)
  \/ \E s \in SlashParams : UpdateSlashParams(s[1], s[2])
  \/ \E n \in Node : AuthorizeNode(n)
  \/ \E n \in Revocable : RevokeNode(n)

RequestNext ==
  \/ \E u \in User, t \in Token, a \in Amounts : InitiateBridge(u, t, a)
  \/ \E n \in Node, r \in RequestId, v \in BondValues : ClaimBridge(n, r, v)
  \/ \E r \in RequestId : VerifyAndSettle(r)
  \/ \E r \in RequestId : ReleaseExpiredClaim(r)

PoolNext ==
  \E t \in Token, a \in TransferAmounts :
    \/ DeliverTokens(t, a)
    \/ EmergencyWithdraw(t, a)
    \/ ProvideLiquidity(t, a)

Next == AdminNext \/ RequestNext \/ PoolNext \/ Tick

Spec == Init /\ [][Next]_vars
-----------------------------------------------------------------------------
(***************************************************************************)
(* Properties.                                                              *)
(***************************************************************************)

\* Every variable has its type.
TypeOK ==
  /\ config \in Config
  /\ authorizedNodes \subseteq Node /\ nodesList \in Seq(Node)
  /\ bridgeNonce \in 0..MaxRequests
  /\ bridgeRequests \in [RequestId -> Request \cup {NoRequest}]
  /\ requestClaim \in [RequestId -> ClaimType]
  /\ requestFeeEscrow \in [RequestId -> Nat]
  /\ fheReaders \in [RequestId -> SUBSET Account]
  /\ ledger \in [RequestId -> Ledger]
  /\ tokenBalance \in [Token -> Nat]
  /\ liquidity \in [Token -> Int]
  /\ ethBalance \in Nat
  /\ now \in Nat

\* What the request table looks like between transactions: ids are given out in
\* order, an unclaimed request holds no bond, and a paid request is unclaimed.
\* releaseExpiredClaim relies on the last: it never looks at `finalized`.
RequestTableOK ==
  \A r \in RequestId :
    /\ Exists(r) <=> r <= bridgeNonce
    /\ ~Exists(r) => bridgeRequests[r] = NoRequest
    /\ ~Claimed(r) => requestClaim[r] = NoClaim
    /\ Claimed(r) => Exists(r) /\ ~bridgeRequests[r].finalized

\* A settled request has paid its solver the whole deposit, amount and fee,
\* once; until then nothing left and amount plus escrowed fee still make up the
\* deposit, whatever the owner does to the fees (NewRelayer.sol:360-368).
PayoutExact ==
  \A r \in RequestId :
    LET req == bridgeRequests[r]
        l   == ledger[r]
    IN  IF req.finalized
        THEN /\ l.paidOut = l.deposited
             /\ l.payee # ZeroAddress
             /\ requestFeeEscrow[r] = 0
        ELSE /\ l.paidOut = 0
             /\ l.payee = ZeroAddress
             /\ req.amount + requestFeeEscrow[r] = l.deposited

\* Every wei of every bond posted for a request was returned, slashed, kept for
\* want of a collector, or is the bond of the present claim: no reclaim, release
\* or settlement returns a bond twice or drops one (NewRelayer.sol:288-321,
\* 371-380, 389-406).
BondAccounted ==
  \A r \in RequestId :
    LET l == ledger[r]
    IN  l.bondPosted = l.bondReturned + l.bondSlashed + l.bondKept
                         + requestClaim[r].bond

\* The contract's ETH is the bonds of the present claims and the slashed ETH that
\* had no collector: a transfer of a bond never fails for want of ETH.
EthConservation ==
  ethBalance =
    SumFunction([r \in RequestId |-> requestClaim[r].bond + ledger[r].bondKept])

EscrowedFor(t, r) ==
  IF bridgeRequests[r].token = t /\ ~bridgeRequests[r].finalized
  THEN bridgeRequests[r].amount + requestFeeEscrow[r] ELSE 0

Escrowed(t) == SumFunction([r \in RequestId |-> EscrowedFor(t, r)])

\* The contract's tokens are the escrows of the unpaid requests plus what was
\* provided, less what deliverTokens and emergencyWithdraw took.
TokenConservation ==
  \A t \in Token : tokenBalance[t] = Escrowed(t) + liquidity[t]

\* A claim that has not reached its deadline ends in one way only: its own solver
\* is paid and gets his bond back.  No reclaim, release, revocation or
\* configuration change touches it before that.
LiveClaimProtected ==
  [][\A r \in RequestId :
       Live(r) /\ requestClaim'[r] # requestClaim[r] =>
         /\ ledger'[r].payee = requestClaim[r].solver
         /\ ledger'[r].bondReturned =
              ledger[r].bondReturned + requestClaim[r].bond]_vars

\* What the contract's state is to the abstract escrow.
EscrowPhase ==
  [r \in RequestId |->
     CASE ~Exists(r) -> "none"
       [] Exists(r) /\ bridgeRequests[r].finalized -> "paid"
       [] Exists(r) /\ ~bridgeRequests[r].finalized /\ Claimed(r) -> "claimed"
       [] OTHER -> "open"]
EscrowLocked ==
  [r \in RequestId |->
     IF bridgeRequests[r].finalized THEN requestFeeEscrow[r]
     ELSE bridgeRequests[r].amount + requestFeeEscrow[r]]
EscrowHolder == [r \in RequestId |-> requestClaim[r].solver]
EscrowExpiry == [r \in RequestId |-> requestClaim[r].deadline]
EscrowPayee  == [r \in RequestId |-> ledger[r].payee]

Escrow ==
  INSTANCE EscrowLifecycle WITH
    Solver <- Node, NoSolver <- ZeroAddress,
    phase <- EscrowPhase, holder <- EscrowHolder, expiry <- EscrowExpiry,
    locked <- EscrowLocked, payee <- EscrowPayee, clock <- now

\* The contract implements the escrow of the bridge: deposits locked and paid
\* once, claims exclusive until their deadline, only the holder paid.
ImplementsEscrow == Escrow!Spec

\* No authorized node is missing from the list getAuthorizedNodes returns,
\* however often nodes were revoked and authorized again.
NoNodeMissing ==
  authorizedNodes = {GetAuthorizedNodes[i] : i \in 1..Len(GetAuthorizedNodes)}
-----------------------------------------------------------------------------
(***************************************************************************)
(* What comments and docs say and the code does not do (violation runs).    *)
(***************************************************************************)

\* "net (post-fee) held in escrow" (NewRelayer.sol:61): the contract holds what
\* its unpaid requests are owed.
EscrowHeld == \A t \in Token : tokenBalance[t] >= Escrowed(t)
=============================================================================
