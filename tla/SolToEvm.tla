------------------------------ MODULE SolToEvm ------------------------------
(***************************************************************************)
(* The Solana-to-EVM direction off the chains: the solver nodes             *)
(* (node/src/bridge-sol-to-evm) and the relayer's handler of POST           *)
(* verify-bridge/sol-to-evm (relayer/src/verification).                     *)
(*                                                                          *)
(* Nodes and relayer do not work together here.  A node claims on Solana    *)
(* and is to pay the user on the EVM from its own wallet, but never does:   *)
(* the destination it makes of what Arcium gives it is no address.  The     *)
(* POST that would follow is never sent and is not modelled.  The relayer,  *)
(* told of a deposit by its clients, pays the user from the contract's      *)
(* pool.  What a POST says of the deposit -- transaction, vault, mint,      *)
(* amount -- is checked against Solana and never compared with the request  *)
(* it names.                                                                *)
(*                                                                          *)
(* The relayer runs with what its package.json and src/abi/bridge.json give *)
(* it: receipts without a transactionHash and an IDL without                *)
(* verify_and_settle, so what the handler does behind the check of the      *)
(* delivery is never reached.                                               *)
(***************************************************************************)
EXTENDS Integers, FiniteSets, Functions

CONSTANTS
  RequestId, Node,
  Poster,      \* clients whose POST has every field the relayer reads
  Unaddressed, \* clients whose POST has the fields nodes know, and no recipient
  Amount,      \* Amount[c][r]: the deposit that c's POST for r names
  EvmDecimals, SolDecimals,
  Pool,        \* what the contract holds of the token at first
  MaxCrashes   \* bound on restarts, of the nodes and the relayer together

Client == Poster \cup Unaddressed

ASSUME SolToEvmAssumption ==
  /\ Poster \cap Unaddressed = {}
  /\ IsFiniteSet(RequestId) /\ IsFiniteSet(Poster)
  /\ Amount \in [Client -> [RequestId -> Nat]] /\ Pool \in Nat
  /\ EvmDecimals \in Nat /\ SolDecimals \in Nat /\ MaxCrashes \in Nat

VARIABLES
  claimed,   \* requests with a live claim on Solana
  stage,     \* stage[n][r]: n's status of r, "claimed" not shown in it
  record,    \* record[r]: status of the relayer's row of r
  calls,     \* calls[c][r]: where the relayer's handler of c's POST for r is
  delivered, \* delivered[r]: clients whose call for r the contract delivered
  pool,      \* what the contract holds now
  crashes

\* History, for the properties only.
VARIABLES
  claimers,  \* claimers[r]: nodes that ever claimed r
  found,     \* found[r]: clients whose call found its deposit on Solana
  uncaught   \* uncaught[r]: clients whose call threw in verifyDeposit

chainVars == <<claimed, claimers, delivered, pool>>
serviceVars == <<record, calls, found, uncaught>>
s2eVars == <<chainVars, stage, serviceVars, crashes>>
-----------------------------------------------------------------------------
Stage == {"none", "detected", "claimed", "decrypted", "transferred", "failed", "lost"}
Status == {"RECEIVED", "VERIFIED", "SETTLED", "FAILED"}
Point == {"none", "find", "insert", "update", "deposit", "verified", "balance",
          "deliver", "receipt", "failing", "failingLast", "error"}
Running == Point \ {"none", "error"}

\* pow10, for the differences of decimals that are not negative.
Pow10[n \in Nat] == IF n = 0 THEN 1 ELSE 10 * Pow10[n - 1]

\* adjustToEvmDecimals; the node converts in the same way.
EvmAmount(c, r) ==
  LET diff == EvmDecimals - SolDecimals
  IN IF diff >= 0 THEN Amount[c][r] * Pow10[diff] ELSE Amount[c][r] \div Pow10[-diff]

S2EInit ==
  /\ claimed   = {}
  /\ stage     = [n \in Node |-> [r \in RequestId |-> "none"]]
  /\ record    = [r \in RequestId |-> "none"]
  /\ calls     = [c \in Client |-> [r \in RequestId |-> "none"]]
  /\ delivered = [r \in RequestId |-> {}]
  /\ pool = Pool /\ crashes = 0
  /\ claimers  = [r \in RequestId |-> {}]
  /\ found     = [r \in RequestId |-> {}]
  /\ uncaught  = [r \in RequestId |-> {}]
-----------------------------------------------------------------------------
(* A solver node: onSolBridgeInitiated. *)

Advance(n, r, from, to) ==
  /\ stage[n][r] = from
  /\ stage' = [stage EXCEPT ![n][r] = to]

\* The log of the deposit reaches the node.
Detect(n, r) ==
  /\ Advance(n, r, "none", "detected")
  /\ UNCHANGED <<chainVars, serviceVars, crashes>>

\* claim_bridge accepts a claim where none is live; the node may fail to learn of
\* it.
ClaimRequest(n, r) ==
  /\ r \notin claimed
  /\ claimed' = claimed \cup {r}
  /\ claimers' = [claimers EXCEPT ![r] = @ \cup {n}]
  /\ \E outcome \in {"claimed", "failed"} : Advance(n, r, "detected", outcome)
  /\ UNCHANGED <<delivered, pool, serviceVars, crashes>>

WindowCloses(r) ==
  /\ r \in claimed
  /\ claimed' = claimed \ {r}
  /\ UNCHANGED <<claimers, delivered, pool, stage, serviceVars, crashes>>

\* Mutant: 24 digits are cut off, which leaves the 20 bytes of an address.
DestinationDigitsOfAddress == 64 - 24

\* The destination is made of what hex.slice(24 * 2) leaves of the 64 hex digits of
\* the decrypted number; ethers takes 40 for an address.
DestinationDigits == 64 - 24 * 2

IsAddress(digits) == digits = 40

\* The computation is final, and what it resealed for the node is decrypted.
ResolveDestination(n, r) ==
  /\ Advance(n, r, "claimed", "decrypted")
  /\ UNCHANGED <<chainVars, serviceVars, crashes>>

\* ethers refuses to send to what is no address; the transfer service answers with
\* the error, and the handler throws it.
TransferToken(n, r) ==
  /\ \E outcome \in IF IsAddress(DestinationDigits) THEN {"transferred", "failed"}
                                                     ELSE {"failed"} :
       Advance(n, r, "decrypted", outcome)
  /\ UNCHANGED <<chainVars, serviceVars, crashes>>

\* A throw on the way to the destination: a claim refused, a computation that fails.
HandlerThrows(n, r) ==
  /\ \E from \in {"detected", "claimed"} : Advance(n, r, from, "failed")
  /\ UNCHANGED <<chainVars, serviceVars, crashes>>

NodeCrash(n) ==
  /\ crashes < MaxCrashes /\ crashes' = crashes + 1
  /\ stage' = [stage EXCEPT ![n] = [r \in RequestId |->
                 IF stage[n][r] = "none" THEN "none" ELSE "lost"]]
  /\ UNCHANGED <<chainVars, serviceVars>>
-----------------------------------------------------------------------------
(* The relayer: handleSolToEvm. *)

At(c, r, point) == calls[c][r] = point
GoTo(c, r, point) == calls' = [calls EXCEPT ![c][r] = point]
Mark(r, status) == record' = [record EXCEPT ![r] = status]

\* The POST arrives.
ClientPosts(c, r) ==
  /\ At(c, r, "none")
  /\ GoTo(c, r, "find")
  /\ UNCHANGED <<chainVars, stage, record, found, uncaught, crashes>>

FindRecord(c, r) ==
  /\ At(c, r, "find")
  /\ GoTo(c, r, IF record[r] = "none" THEN "insert" ELSE "update")
  /\ UNCHANGED record

\* A POST that names no recipient is refused here.
AfterReceived(c) == IF c \in Unaddressed THEN "failingLast" ELSE "deposit"

\* Mutant: the POST of a row that is there already is taken as verified.
UpdateReceivedTrusting(c, r) ==
  /\ At(c, r, "update")
  /\ Mark(r, "RECEIVED")
  /\ GoTo(c, r, IF AfterReceived(c) = "deposit" THEN "verified" ELSE "failingLast")

UpdateReceived(c, r) ==
  /\ At(c, r, "update")
  /\ Mark(r, "RECEIVED")
  /\ GoTo(c, r, AfterReceived(c))

\* The columns an incomplete POST has no value for may not be null, and requestId
\* is unique: the insertion throws, and is not caught.
InsertReceived(c, r) ==
  /\ At(c, r, "insert")
  /\ IF c \in Poster /\ record[r] = "none"
     THEN Mark(r, "RECEIVED") /\ GoTo(c, r, AfterReceived(c))
     ELSE GoTo(c, r, "error") /\ UNCHANGED record

\* The vault of the POST received the amount of the POST in its transaction.
VerifyDeposit(c, r) ==
  /\ At(c, r, "deposit")
  /\ GoTo(c, r, "verified")
  /\ found' = [found EXCEPT ![r] = @ \cup {c}]
  /\ UNCHANGED <<chainVars, stage, record, uncaught, crashes>>

MarkVerified(c, r) ==
  /\ At(c, r, "verified")
  /\ Mark(r, "VERIFIED")
  /\ GoTo(c, r, "balance")

\* Mutant: a refusal is not recorded.
CheckBalanceUnrecorded(c, r) ==
  /\ At(c, r, "balance")
  /\ \E balance \in {pool, 0} :
       GoTo(c, r, IF balance < EvmAmount(c, r) \/ EvmAmount(c, r) = 0
                  THEN "error" ELSE "deliver")
  /\ UNCHANGED record

\* A balance that cannot be read is 0.
CheckBalance(c, r) ==
  /\ At(c, r, "balance")
  /\ \E balance \in {pool, 0} :
       GoTo(c, r, IF balance < EvmAmount(c, r) \/ EvmAmount(c, r) = 0
                  THEN "failingLast" ELSE "deliver")
  /\ UNCHANGED record

\* Mutant: it is not recorded either.
DeliveryFailsUnrecorded(c, r) ==
  /\ At(c, r, "deliver")
  /\ GoTo(c, r, "error")
  /\ UNCHANGED record

\* The transaction reverts, or cannot be sent.
DeliveryFails(c, r) ==
  /\ At(c, r, "deliver")
  /\ GoTo(c, r, "failingLast")
  /\ UNCHANGED record

\* The handler of a failed delivery marks the row, and the handler around it
\* marks it again.
MarkFailed(c, r) ==
  /\ At(c, r, "failing") \/ At(c, r, "failingLast")
  /\ Mark(r, "FAILED")
  /\ GoTo(c, r, IF At(c, r, "failing") THEN "failingLast" ELSE "error")

\* Mutant: nothing but the balance read before stops a delivery.
DeliverTokensUnchecked(c, r) ==
  /\ At(c, r, "deliver")
  /\ pool' = pool - EvmAmount(c, r)
  /\ delivered' = [delivered EXCEPT ![r] = @ \cup {c}]
  /\ \E outcome \in {"receipt", "failingLast"} : GoTo(c, r, outcome)
  /\ UNCHANGED <<claimed, claimers, stage, record, found, uncaught, crashes>>

\* The contract pays what it holds; the relayer may fail to learn of it.
DeliverTokens(c, r) ==
  /\ At(c, r, "deliver") /\ pool >= EvmAmount(c, r)
  /\ pool' = pool - EvmAmount(c, r)
  /\ delivered' = [delivered EXCEPT ![r] = @ \cup {c}]
  /\ \E outcome \in {"receipt", "failingLast"} : GoTo(c, r, outcome)
  /\ UNCHANGED <<claimed, claimers, stage, record, found, uncaught, crashes>>

\* verifyDeposit throws, and nothing catches it.
DepositThrows(c, r) ==
  /\ At(c, r, "deposit")
  /\ GoTo(c, r, "error")
  /\ uncaught' = [uncaught EXCEPT ![r] = @ \cup {c}]
  /\ UNCHANGED <<chainVars, stage, record, found, crashes>>

RelayerCrash ==
  /\ crashes < MaxCrashes /\ crashes' = crashes + 1
  /\ calls' = [c \in Client |-> [r \in RequestId |->
                 IF calls[c][r] \in Running THEN "error" ELSE calls[c][r]]]
  /\ UNCHANGED <<chainVars, stage, record, found, uncaught>>

\* What the event loop does for a call.
CallStep(c, r) ==
  \/ /\ \/ FindRecord(c, r) \/ InsertReceived(c, r) \/ UpdateReceived(c, r)
        \/ MarkVerified(c, r) \/ CheckBalance(c, r)
        \/ DeliveryFails(c, r) \/ MarkFailed(c, r)
     /\ UNCHANGED <<chainVars, stage, found, uncaught, crashes>>
  \/ VerifyDeposit(c, r) \/ DepositThrows(c, r) \/ DeliverTokens(c, r)

\* verifyEvmDelivery waits for the receipt of an undefined transaction: it throws,
\* or waits for ever.
WaitThrows(c, r) ==
  /\ At(c, r, "receipt")
  /\ GoTo(c, r, "failing")
  /\ UNCHANGED <<chainVars, stage, record, found, uncaught, crashes>>
-----------------------------------------------------------------------------
S2ENext ==
  \/ \E n \in Node, r \in RequestId :
       \/ Detect(n, r) \/ ClaimRequest(n, r) \/ ResolveDestination(n, r)
       \/ TransferToken(n, r) \/ HandlerThrows(n, r)
  \/ \E c \in Client, r \in RequestId :
       ClientPosts(c, r) \/ CallStep(c, r) \/ WaitThrows(c, r)
  \/ \E r \in RequestId : WindowCloses(r)
  \/ \E n \in Node : NodeCrash(n)
  \/ RelayerCrash

\* The relayer's event loop runs what is due.  Nothing is assumed of the chains, of
\* Arcium, of the nodes, or of the wait for a receipt.
S2ESpec ==
  /\ S2EInit /\ [][S2ENext]_s2eVars
  /\ \A c \in Client, r \in RequestId : WF_s2eVars(CallStep(c, r))
-----------------------------------------------------------------------------
(* Properties *)

\* Every variable has its type.
S2ETypeOK ==
  /\ claimed \subseteq RequestId
  /\ stage \in [Node -> [RequestId -> Stage]]
  /\ record \in [RequestId -> Status \cup {"none"}]
  /\ calls \in [Client -> [RequestId -> Point]]
  /\ delivered \in [RequestId -> SUBSET Client] /\ pool \in Nat /\ crashes \in 0..MaxCrashes
  /\ claimers \in [RequestId -> SUBSET Node]
  /\ found \in [RequestId -> SUBSET Client]
  /\ uncaught \in [RequestId -> SUBSET Client]

\* The contract delivers "after verification from Solana" (bridge-evm-functions.md:
\* 151): a repeated POST delivers again, but only a POST that names a recipient and
\* that verifyDeposit found on Solana, and no POST twice, whatever fails behind the
\* delivery; what the pool lacks is what these POSTs named, in the token's units.
DeliveredByPosts ==
  \A r \in RequestId : delivered[r] \subseteq found[r] /\ found[r] \subseteq Poster
PoolIsShort ==
  pool = Pool - SumFunction([p \in Poster \X RequestId |->
                   IF p[1] \in delivered[p[2]] THEN EvmAmount(p[1], p[2]) ELSE 0])
DeliveriesArePosted == DeliveredByPosts /\ PoolIsShort

\* A node resolves a destination only where Solana accepted its claim, and pays at
\* none: of the address the conversion keeps 8 bytes (destination-decrypt.service.ts:
\* 68-69), so every claim of a node ends with its handler failed, and users are paid
\* from the contract's pool alone.
NodesNeverPay ==
  \A n \in Node, r \in RequestId :
    /\ stage[n][r] # "transferred"
    /\ stage[n][r] = "decrypted" => n \in claimers[r]

\* What a row says once every call for it has been answered: FAILED, even of a
\* deposit that has been delivered; or still RECEIVED, and then verifyDeposit threw
\* in one of the calls (or a process restarted).
Answered(r) == \A c \in Client : calls[c][r] \in {"none", "error"}
RowsOfAnsweredCalls ==
  \A r \in RequestId :
    Answered(r) /\ crashes = 0 =>
      \/ record[r] \in {"none", "FAILED"}
      \/ record[r] = "RECEIVED" /\ uncaught[r] # {}

\* A row that is opened says FAILED in the end, unless a call for it threw where
\* nothing catches it, a process restarted, or a call waits for the receipt of its
\* delivery, which may be for ever.
RowsFail ==
  \A r \in RequestId :
    record[r] \in {"RECEIVED", "VERIFIED"} ~>
      \/ record[r] = "FAILED" \/ uncaught[r] # {} \/ crashes > 0
      \/ \E c \in Client : At(c, r, "receipt")
=============================================================================
