---------------------------- MODULE SolanaBridge ----------------------------
(***************************************************************************)
(* The Solana program of the bridge (contracts/programs/contracts/src).     *)
(*                                                                          *)
(* One action is one instruction: an instruction that returns an error      *)
(* leaves no trace, so it is a step that is not enabled.  A request account *)
(* is addressed by its payer and the id the payer chose; the bond of its    *)
(* claim is in a vault account addressed by the id alone, so requests of    *)
(* different payers may share one.                                          *)
(*                                                                          *)
(* The escrow account of a mint is the one owned by the program's signer    *)
(* PDA; if that owns several of a mint, they count as one.  initiate_bridge *)
(* asks only for the mint of the account it locks tokens in, not for its    *)
(* owner.  Encrypted destinations are opaque; of the computations queued    *)
(* with Arcium only which solver a destination is resealed to is kept.      *)
(***************************************************************************)
EXTENDS BridgeFee, FiniteSets, Functions

CONSTANTS
  Payer,         \* accounts that deposit
  Id,            \* request ids payers choose
  SolverKey,     \* accounts that claim
  Owner,         \* accounts that may initialize the configuration
  DefaultKey,    \* Pubkey::default()
  Mint,          \* SPL mints
  NativeMint,    \* the mint of wrapped SOL, one of them
  VaultPays      \* whether a bond can be paid out of its vault: the accounts of the
                 \* two instructions that do so demand a vault owned by the
                 \* System program, the runtime lets only the owner debit it

\* What the owner, the payers and the relayer may choose in an instance.
CONSTANTS
  Settings,      \* configurations init_config and set_config may be given
  Amounts,       \* amounts a payer may deposit
  ReleaseAmounts \* amounts deliver_tokens and deliver_tokens_sol may release

\* Bounds of the model.
CONSTANTS
  MaxTime,       \* last value of Clock::get()?.unix_timestamp
  MaxLiquidity   \* tokens provided besides the deposits, per mint

Setting ==
  [fee_bps: Nat, min_fee: Nat, max_fee: Nat, claim_window_secs: Nat,
   min_solver_bond: Nat, slash_bps: Nat]

BridgeConfig ==
  [owner: Owner \cup {DefaultKey}, fee_bps: Nat, min_fee: Nat, max_fee: Nat,
   claim_window_secs: Nat, min_solver_bond: Nat, slash_bps: Nat]

ASSUME KeyAssumption ==
  /\ DefaultKey \notin Payer \cup SolverKey \cup Owner
  /\ NativeMint \in Mint
  /\ VaultPays \in BOOLEAN

\* There are finitely many accounts, and an id is a u64.
ASSUME FinitenessAssumption == IsFiniteSet(Payer) /\ IsFiniteSet(Id)

ASSUME ChoiceAssumption ==
  /\ Settings \subseteq Setting
  /\ Amounts \subseteq Nat /\ ReleaseAmounts \subseteq Nat
  /\ MaxTime \in Nat /\ MaxLiquidity \in Nat

\* A request account's address: its payer and its id.
RequestKey == Payer \X Id

VARIABLES
  config,        \* the config account
  requests,      \* requests[k]: the request account at k
  escrow,        \* escrow[t]: tokens of mint t in the escrow account
  wsolOpen,      \* whether the escrow account of wrapped SOL exists
  bondVault,     \* bondVault[id]: lamports of bonds in the vault of id
  resealed,      \* resealed[k]: solvers k's destination was resealed to
  now            \* Clock::get()?.unix_timestamp

\* History, for the properties only.
VARIABLES
  ledger,        \* ledger[k]: everything that moved in or out on behalf of k
  liquidity      \* liquidity[t]: provided minus released

tokenVars == <<escrow, wsolOpen, liquidity>>
vars == <<config, requests, tokenVars, bondVault, resealed, now, ledger>>
-----------------------------------------------------------------------------
NoConfig == [owner |-> DefaultKey, fee_bps |-> 0, min_fee |-> 0, max_fee |-> 0,
             claim_window_secs |-> 0, min_solver_bond |-> 0, slash_bps |-> 0]

NoRequest == [payer |-> DefaultKey, token_mint |-> NativeMint,
              amount_locked |-> 0, fee_locked |-> 0, claimed |-> FALSE,
              solver |-> DefaultKey, claim_deadline |-> 0, bond_lamports |-> 0,
              finalized |-> FALSE]

BridgeRequest ==
  [payer: Payer \cup {DefaultKey}, token_mint: Mint, amount_locked: Nat,
   fee_locked: Nat, claimed: BOOLEAN, solver: SolverKey \cup {DefaultKey},
   claim_deadline: Nat, bond_lamports: Nat, finalized: BOOLEAN]

NoLedger == [transferred |-> 0, escrowed |-> FALSE, paidOut |-> 0,
             paidIn |-> NativeMint, payee |-> DefaultKey, bondPosted |-> 0,
             bondReturned |-> 0, bondSlashed |-> 0, bondStranded |-> 0]

\* transferred and escrowed: what the payer transferred, and whether to the escrow
\* account of the mint; paidOut and paidIn: what settlement paid, of which mint.
Ledger == [transferred: Nat, escrowed: BOOLEAN, paidOut: Nat, paidIn: Mint,
           payee: SolverKey \cup {DefaultKey}, bondPosted: Nat,
           bondReturned: Nat, bondSlashed: Nat, bondStranded: Nat]

Initialized == config.owner # DefaultKey
Exists(k)   == requests[k].payer # DefaultKey

\* Mutant: a claim expires at its deadline already.
ExpiredAtDeadline(k) == now >= requests[k].claim_deadline
Expired(k)  == now > requests[k].claim_deadline
Live(k)     == requests[k].claimed /\ now <= requests[k].claim_deadline

Init ==
  /\ config = NoConfig
  /\ requests  = [k \in RequestKey |-> NoRequest]
  /\ resealed  = [k \in RequestKey |-> {}]
  /\ ledger    = [k \in RequestKey |-> NoLedger]
  /\ escrow    = [t \in Mint |-> 0]
  /\ liquidity = [t \in Mint |-> 0]
  /\ bondVault = [id \in Id |-> 0]
  /\ wsolOpen = TRUE
  /\ now = 0
-----------------------------------------------------------------------------
(***************************************************************************)
(* Configuration.  Neither instruction checks a value it is given.  A field *)
(* set_config is given None for keeps its value, which is the same as       *)
(* being given that value.                                                  *)
(***************************************************************************)
Configured(owner, s) ==
  [owner |-> owner, fee_bps |-> s.fee_bps, min_fee |-> s.min_fee,
   max_fee |-> s.max_fee, claim_window_secs |-> s.claim_window_secs,
   min_solver_bond |-> s.min_solver_bond, slash_bps |-> s.slash_bps]

InitConfig(payer, s) ==
  /\ ~Initialized
  /\ config' = Configured(payer, s)
  /\ UNCHANGED <<requests, tokenVars, bondVault, resealed, now, ledger>>

SetConfig(s) ==
  /\ Initialized
  /\ config' = Configured(config.owner, s)
  /\ UNCHANGED <<requests, tokenVars, bondVault, resealed, now, ledger>>
-----------------------------------------------------------------------------
(***************************************************************************)
(* Deposits.                                                                *)
(***************************************************************************)
Fee(amount) ==
  CalculateFee([feePercentage |-> config.fee_bps, minFee |-> config.min_fee,
                maxFee |-> config.max_fee], amount)

SaturatingSub(a, b) == IF a < b THEN 0 ELSE a - b

\* The request account is created by the instruction: each address once.  Whether
\* the tokens went to the escrow account of the mint is up to the caller.
Lock(p, id, t, amount, escrowed) ==
  LET k == <<p, id>>
  IN  /\ Initialized
      /\ ~Exists(k)
      /\ escrow' = IF escrowed THEN [escrow EXCEPT ![t] = @ + amount] ELSE escrow
      /\ requests' =
           [requests EXCEPT ![k] =
              [payer |-> p, token_mint |-> t,
               amount_locked |-> SaturatingSub(amount, Fee(amount)),
               fee_locked |-> Fee(amount), claimed |-> FALSE,
               solver |-> DefaultKey, claim_deadline |-> 0,
               bond_lamports |-> 0, finalized |-> FALSE]]
      /\ ledger' = [ledger EXCEPT ![k].transferred = amount,
                                  ![k].escrowed = escrowed]
      /\ UNCHANGED <<config, wsolOpen, liquidity, bondVault, resealed, now>>

\* escrow_token is any account of the mint: the escrow account, if there is one,
\* or another.
InitiateBridge(p, id, t, amount, escrowed) ==
  /\ escrowed /\ t = NativeMint => wsolOpen
  /\ Lock(p, id, t, amount, escrowed)

\* Lamports are wrapped into the account of the signer PDA.
InitiateBridgeSol(p, id, lamports) ==
  /\ wsolOpen
  /\ Lock(p, id, NativeMint, lamports, TRUE)
-----------------------------------------------------------------------------
(***************************************************************************)
(* Claims.                                                                  *)
(***************************************************************************)
\* Mutant: a paid request can be claimed again.
ClaimableWhenPaid(k) == Exists(k) /\ (requests[k].claimed => Expired(k))

Claimable(k) ==
  Exists(k) /\ ~requests[k].finalized /\ (requests[k].claimed => Expired(k))

\* The solver pays the bond into the vault of the id.  An expired claim is
\* overwritten, its bond left where it is.
ClaimBridge(s, k) ==
  LET bond == config.min_solver_bond
  IN  /\ Initialized
      /\ Claimable(k)
      /\ bond > 0
      /\ bondVault' = [bondVault EXCEPT ![k[2]] = @ + bond]
      /\ requests' = [requests EXCEPT ![k].claimed = TRUE,
                        ![k].solver = s,
                        ![k].claim_deadline = now + config.claim_window_secs,
                        ![k].bond_lamports = bond]
      /\ resealed' = [resealed EXCEPT ![k] = @ \cup {s}]
      /\ ledger' = [ledger EXCEPT
                      ![k].bondPosted = @ + bond,
                      ![k].bondStranded = @ + requests[k].bond_lamports]
      /\ UNCHANGED <<config, tokenVars, now>>

\* Mutant: the vault is emptied, with the bonds of the other requests in it.
VaultEmptied(k) == [bondVault EXCEPT ![k[2]] = 0]

\* The vault after k's bond is taken out of it.
VaultWithout(k) == [bondVault EXCEPT ![k[2]] = @ - requests[k].bond_lamports]

\* Mutant: the bond is not reset.
UnclaimedKeepsBond(request) ==
  [request EXCEPT !.claimed = FALSE, !.solver = DefaultKey,
                  !.claim_deadline = 0]

\* The claim is cleared; what else happens to the request is up to the caller.
Unclaimed(request) ==
  [request EXCEPT !.claimed = FALSE, !.solver = DefaultKey,
                  !.claim_deadline = 0, !.bond_lamports = 0]

Slashed(k) == SlashAmount(requests[k].bond_lamports, config.slash_bps)

\* Mutant: the subtraction of the slash is not checked.
SlashUnchecked(k) == TRUE

\* checked_sub fails when slash_bps is above 10000.
SlashFits(k) == Slashed(k) <= requests[k].bond_lamports

ReleaseExpiredClaim(k) ==
  LET bond == requests[k].bond_lamports
  IN  /\ requests[k].claimed /\ Expired(k)
      /\ bond > 0 /\ SlashFits(k)
      /\ VaultPays /\ bondVault[k[2]] >= bond
      /\ bondVault' = VaultWithout(k)
      /\ requests' = [requests EXCEPT ![k] = Unclaimed(@)]
      /\ ledger' = [ledger EXCEPT
                      ![k].bondReturned = @ + (bond - Slashed(k)),
                      ![k].bondSlashed = @ + Slashed(k)]
      /\ UNCHANGED <<config, tokenVars, resealed, now>>

\* Mutant: settlement looks at the claim only, not at its deadline.
SettleableLate(k) == ~requests[k].finalized /\ requests[k].claimed

Settleable(k) ==
  /\ ~requests[k].finalized /\ requests[k].claimed
  /\ now <= requests[k].claim_deadline

\* Mutant: the fee is not paid to the solver.
PayoutWithoutFee(k) == requests[k].amount_locked
Payout(k) == requests[k].amount_locked + requests[k].fee_locked

\* Signed by config.owner, the relayer, who names the mint too: the two token
\* accounts have to be of that mint, the request's token_mint is not looked at.
VerifyAndSettleSpl(k, t) ==
  LET request == requests[k]
  IN  /\ Settleable(k)
      /\ escrow[t] >= Payout(k)
      /\ t = NativeMint => wsolOpen
      /\ VaultPays /\ bondVault[k[2]] >= request.bond_lamports
      /\ escrow' = [escrow EXCEPT ![t] = @ - Payout(k)]
      /\ bondVault' = VaultWithout(k)
      /\ requests' = [requests EXCEPT ![k] = [Unclaimed(@) EXCEPT !.finalized = TRUE]]
      /\ ledger' = [ledger EXCEPT ![k].paidOut = @ + Payout(k),
                                  ![k].paidIn = t,
                                  ![k].payee = request.solver,
                                  ![k].bondReturned = @ + request.bond_lamports]
      /\ UNCHANGED <<config, wsolOpen, liquidity, resealed, now>>
-----------------------------------------------------------------------------
(***************************************************************************)
(* EVM to Solana: the relayer releases tokens of the same escrow accounts.  *)
(***************************************************************************)
Release(t, amount) ==
  /\ Initialized
  /\ escrow[t] >= amount
  /\ escrow' = [escrow EXCEPT ![t] = @ - amount]
  /\ liquidity' = [liquidity EXCEPT ![t] = @ - amount]
  /\ UNCHANGED <<config, requests, bondVault, resealed, now, ledger>>

DeliverTokens(t, amount) ==
  /\ t = NativeMint => wsolOpen
  /\ Release(t, amount)
  /\ UNCHANGED wsolOpen

\* Mutant: the amount is tested, where the code tests the balance.
DeliverTokensSolTestsAmount(amount) ==
  /\ wsolOpen
  /\ Release(NativeMint, amount)
  /\ wsolOpen' = (amount # 0)

\* Whether the account is closed is decided on the balance read before the
\* transfer.
DeliverTokensSol(amount) ==
  /\ wsolOpen
  /\ Release(NativeMint, amount)
  /\ wsolOpen' = (escrow[NativeMint] # 0)

\* Liquidity reaches an escrow account as a plain transfer, and anyone may
\* create the signer PDA's account for wrapped SOL.
ProvideLiquidity(t, amount) ==
  /\ t = NativeMint => wsolOpen
  /\ liquidity[t] + amount <= MaxLiquidity
  /\ escrow' = [escrow EXCEPT ![t] = @ + amount]
  /\ liquidity' = [liquidity EXCEPT ![t] = @ + amount]
  /\ UNCHANGED <<config, requests, wsolOpen, bondVault, resealed, now, ledger>>

OpenWsolAccount ==
  /\ ~wsolOpen
  /\ wsolOpen' = TRUE
  /\ UNCHANGED <<config, requests, escrow, liquidity, bondVault, resealed, now,
                 ledger>>

Tick ==
  /\ now < MaxTime
  /\ now' = now + 1
  /\ UNCHANGED <<config, requests, tokenVars, bondVault, resealed, ledger>>

ConfigNext ==
  \/ \E o \in Owner, s \in Settings : InitConfig(o, s)
  \/ \E s \in Settings : SetConfig(s)

RequestNext ==
  \/ \E p \in Payer, id \in Id, t \in Mint, a \in Amounts, escrowed \in BOOLEAN :
       InitiateBridge(p, id, t, a, escrowed)
  \/ \E p \in Payer, id \in Id, a \in Amounts : InitiateBridgeSol(p, id, a)
  \/ \E s \in SolverKey, k \in RequestKey : ClaimBridge(s, k)
  \/ \E k \in RequestKey : ReleaseExpiredClaim(k)
  \/ \E k \in RequestKey, t \in Mint : VerifyAndSettleSpl(k, t)

PoolNext ==
  \/ \E t \in Mint, a \in ReleaseAmounts :
       DeliverTokens(t, a) \/ ProvideLiquidity(t, a)
  \/ \E a \in ReleaseAmounts : DeliverTokensSol(a)
  \/ OpenWsolAccount

Next == ConfigNext \/ RequestNext \/ PoolNext \/ Tick

Spec == Init /\ [][Next]_vars
-----------------------------------------------------------------------------
(***************************************************************************)
(* Properties.                                                              *)
(***************************************************************************)

\* Every variable has its type.
TypeOK ==
  /\ config \in BridgeConfig
  /\ requests \in [RequestKey -> BridgeRequest]
  /\ escrow \in [Mint -> Nat]
  /\ wsolOpen \in BOOLEAN
  /\ bondVault \in [Id -> Nat]
  /\ resealed \in [RequestKey -> SUBSET SolverKey]
  /\ ledger \in [RequestKey -> Ledger]
  /\ liquidity \in [Mint -> Int]
  /\ now \in Nat

\* What a request account looks like between instructions: an account nobody
\* claimed has no bond, and a paid one is unclaimed.  release_expired_claim
\* relies on the last, it never looks at `finalized`.
RequestTableOK ==
  \A k \in RequestKey :
    /\ ~Exists(k) => requests[k] = NoRequest
    /\ requests[k].claimed <=> requests[k].solver # DefaultKey
    /\ requests[k].claimed <=> requests[k].bond_lamports > 0
    /\ requests[k].claimed => ~requests[k].finalized

\* A settled request has paid its solver as many tokens as its payer transferred,
\* net amount and fee, once; until then it paid nothing, and the two still make up
\* what was transferred (deposit.rs:119-132, verify_and_settle.rs:104-126).  From
\* which account they came and of which mint they are is TokenConservation's.
PayoutExact ==
  \A k \in RequestKey :
    LET request == requests[k]
        l == ledger[k]
    IN  /\ request.amount_locked + request.fee_locked = l.transferred
        /\ l.paidOut = IF request.finalized THEN l.transferred ELSE 0
        /\ request.finalized <=> l.payee # DefaultKey

\* Every lamport of every bond posted for a request was returned, slashed, left
\* behind in the vault, or is the bond of the present claim.
BondAccounted ==
  \A k \in RequestKey :
    LET l == ledger[k]
    IN  l.bondPosted = l.bondReturned + l.bondSlashed + l.bondStranded
                         + requests[k].bond_lamports

\* A vault holds the bonds of all requests that share its id, and what reclaims
\* left behind: no settlement or release of one payer's request pays with the
\* bond of another's.
VaultConservation ==
  \A id \in Id :
    bondVault[id] =
      SumFunction([p \in Payer |-> requests[<<p, id>>].bond_lamports
                                     + ledger[<<p, id>>].bondStranded])

\* What k has in the escrow account of t: its tokens, if they were transferred
\* there, less its payout, if that was made from there.
Brought(t, k) ==
  IF requests[k].token_mint = t /\ ledger[k].escrowed THEN Payout(k) ELSE 0
Taken(t, k) ==
  IF requests[k].finalized /\ ledger[k].paidIn = t THEN Payout(k) ELSE 0
Held(t, k) == Brought(t, k) - Taken(t, k)

\* An escrow account holds the tokens transferred to it for requests of its mint,
\* less the payouts made in its mint, plus what was provided, less what was
\* released.  Neither deposit.rs:32-36 nor verify_and_settle.rs:36-53 makes the
\* first two those of the same requests: a request may be paid from what others
\* brought.
TokenConservation ==
  \A t \in Mint :
    escrow[t] = SumFunction([k \in RequestKey |-> Held(t, k)]) + liquidity[t]

\* The escrow account of wrapped SOL is never closed over a balance, although
\* the balance release_sol.rs:86 tests is out of date.
ClosedIsEmpty == ~wsolOpen => escrow[NativeMint] = 0

\* A claim that has not passed its deadline ends in one way only: its own solver
\* is paid and gets his bond back.
LiveClaimProtected ==
  [][\A k \in RequestKey :
       Live(k) /\ requests'[k] # requests[k] =>
         /\ ledger'[k].payee = requests[k].solver
         /\ ledger'[k].bondReturned =
              ledger[k].bondReturned + requests[k].bond_lamports]_vars

\* What the program's state is to the abstract escrow.
EscrowPhase ==
  [k \in RequestKey |->
     CASE ~Exists(k) -> "none"
       [] Exists(k) /\ requests[k].finalized -> "paid"
       [] Exists(k) /\ ~requests[k].finalized /\ requests[k].claimed -> "claimed"
       [] OTHER -> "open"]
EscrowLocked ==
  [k \in RequestKey |->
     IF requests[k].finalized THEN 0
     ELSE requests[k].amount_locked + requests[k].fee_locked]
EscrowHolder == [k \in RequestKey |-> requests[k].solver]
EscrowExpiry == [k \in RequestKey |-> requests[k].claim_deadline]
EscrowPayee  == [k \in RequestKey |-> ledger[k].payee]

Escrow ==
  INSTANCE EscrowLifecycle WITH
    RequestId <- RequestKey, Solver <- SolverKey, NoSolver <- DefaultKey,
    phase <- EscrowPhase, holder <- EscrowHolder, expiry <- EscrowExpiry,
    locked <- EscrowLocked, payee <- EscrowPayee, clock <- now

\* The program implements the escrow of the bridge, as the EVM contract does.
ImplementsEscrow == Escrow!Spec
-----------------------------------------------------------------------------
(***************************************************************************)
(* What comments say and the code does not do (violation runs).             *)
(***************************************************************************)

\* The checks of a claim are at "paridad EVM" (claim_bridge.rs:111): there the
\* bond of an expired claim is slashed and returned when the request is claimed
\* again, and none is left behind.
NoBondStranded == \A k \in RequestKey : ledger[k].bondStranded = 0

\* "Verifies off-chain and settles on-chain" (verify_and_settle.rs:11): a claim
\* in time, on a funded escrow, can be settled.
SettlementPossible ==
  \A k \in RequestKey, t \in Mint :
    Settleable(k) /\ wsolOpen /\ escrow[t] >= Payout(k) =>
      ENABLED VerifyAndSettleSpl(k, t)
=============================================================================
