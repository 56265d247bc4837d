------------------------------ MODULE EvmToSol ------------------------------
(***************************************************************************)
(* The EVM-to-Solana direction as a whole: the contract, the solver nodes,  *)
(* the relayer's verification service and its other clients, time.          *)
(*                                                                          *)
(* Every action of SolverNode and VerificationService says what it does to  *)
(* the contract; here it is said what the one leaves of the other's state.  *)
(* The configuration of the contract does not change.                       *)
(***************************************************************************)
EXTENDS SolverNode, VerificationService

CONSTANTS
  MaxClients, \* bound on the nodes and other clients that take part
  MaxCrashes  \* bound on restarts, of the nodes and the relayer together

ASSUME CrashAssumption == MaxClients \in Nat /\ MaxCrashes \in Nat

\* History, for the properties only.
VARIABLE
  accepted    \* accepted[r]: clients whose POST the check on Solana passed

systemVars == <<vars, nodeVars, serviceVars, accepted>>

SystemInit ==
  Init /\ NodeInit /\ ServiceInit /\ accepted = [r \in RequestId |-> {}]
-----------------------------------------------------------------------------
NextAdmitted == CHOOSE n \in Node : n \notin authorizedNodes

\* The owner admits the nodes, in some order, before users deposit; anyone
\* releases an expired claim.
ChainStep ==
  /\ \/ \E n \in Node \ authorizedNodes : n = NextAdmitted /\ AuthorizeNode(n)
     \/ /\ authorizedNodes = Node
        /\ \E u \in User, t \in Token, a \in Amounts : InitiateBridge(u, t, a)
     \/ \E r \in RequestId : ReleaseExpiredClaim(r)
     \/ Tick
  /\ UNCHANGED <<nodeVars, serviceVars, accepted>>

\* Clients with a handler or a call; no more than MaxClients of them start one.
Active ==
  {c \in Client : \E r \in RequestId :
     ~At(c, r, "none") \/ (c \in Node /\ stage[c][r] # "none")}

TakesPart(c) == c \in Active \/ Cardinality(Active) < MaxClients

NodeStep(n, r) ==
  /\ TakesPart(n)
  /\ \/ Detect(n, r) \/ IsRequestClaimed(n, r) \/ ClaimBridgeRequest(n, r)
     \/ Decrypt(n, r) \/ UseTestDestination(n, r)
     \/ TransferSPLToken(n, r) \/ HandlerThrows(n, r)
  /\ UNCHANGED <<serviceVars, accepted>>

\* The POST gets lost, or it arrives.
PostLost(n, r) ==
  SubmitVerification(n, r) /\ UNCHANGED <<serviceVars, accepted>>

PostArrives(n, r) ==
  /\ Advance(n, r, "transferred", "submitted")
  /\ Receive(n, r)
  /\ UNCHANGED <<destination, transfers, nodeCrashes, claimers, timely, accepted>>

\* Nest answers a POST whose handler returns with 201, which the node takes for
\* success.
AnswerArrives(n, r) ==
  /\ At(n, r, "ok")
  /\ SubmissionEnds(n, r, TRUE)
  /\ UNCHANGED <<serviceVars, accepted>>

NoAnswer(n, r) ==
  SubmissionEnds(n, r, FALSE) /\ UNCHANGED <<serviceVars, accepted>>

\* Another client POSTs, at any time and for any request.
ClientPosts(c, r) ==
  TakesPart(c) /\ Receive(c, r) /\ UNCHANGED <<nodeVars, accepted>>

\* A node POSTs the transfer it made.  Another client may name any transfer:
\* one to an address of its own, of any amount, passes as well.
Arrived(c, r) ==
  IF c \in Node THEN {transfers[c][r] # "none"} ELSE BOOLEAN

RelayerStep(c, r) ==
  /\ \E arrived \in Arrived(c, r) : CallStep(c, r, arrived)
  /\ accepted' = [accepted EXCEPT ![r] =
                    IF At(c, r, "transfer") /\ At(c, r, "request")'
                    THEN @ \cup {c} ELSE @]
  /\ UNCHANGED nodeVars

Crash ==
  /\ nodeCrashes + relayerCrashes < MaxCrashes
  /\ \/ \E n \in Node : NodeCrash(n) /\ UNCHANGED serviceVars
     \/ RelayerCrash /\ UNCHANGED nodeVars
  /\ UNCHANGED accepted

SystemNext ==
  \/ ChainStep
  \/ \E n \in Node, r \in RequestId :
       \/ NodeStep(n, r)
       \/ PostLost(n, r) \/ PostArrives(n, r)
       \/ AnswerArrives(n, r) \/ NoAnswer(n, r)
  \/ \E c \in Poster, r \in RequestId : ClientPosts(c, r)
  \/ \E c \in Client, r \in RequestId : RelayerStep(c, r)
  \/ Crash

\* What a call awaits is answered or fails in the end, and the event loop runs
\* it on.  Nothing is assumed of nodes, clients, users or the clock.
CallsRun ==
  \A c \in Client, r \in RequestId : WF_systemVars(RelayerStep(c, r))

SystemSpec == SystemInit /\ [][SystemNext]_systemVars /\ CallsRun
-----------------------------------------------------------------------------
(***************************************************************************)
(* Properties.                                                              *)
(***************************************************************************)

\* Every variable has its type; a signature is polled MaxTries times at most.
SystemTypeOK ==
  /\ TypeOK
  /\ stage \in [Node -> [RequestId -> Stage]]
  /\ destination \in [Node -> [RequestId -> Place]]
  /\ transfers \in [Node -> [RequestId -> Place]]
  /\ claimers \in [RequestId -> SUBSET Node]
  /\ timely \in [Node -> SUBSET RequestId]
  /\ record \in [RequestId -> BridgeStatus \cup {"none"}]
  /\ calls \in [Client -> [RequestId -> [at: Point, tries: 0..(MaxTries - 1)]]]
  /\ accepted \in [RequestId -> SUBSET Client]
  /\ nodeCrashes \in 0..MaxCrashes /\ relayerCrashes \in 0..MaxCrashes

\* A row that says SETTLED, "on-chain payout/release executed"
\* (bridge-status.enum.ts:4), and a node that reports a request verified are
\* right: the contract has paid.
ReportedIsPaid ==
  \A r \in RequestId :
    record[r] = "SETTLED" \/ (\E n \in Node : stage[n][r] = "verified") =>
      bridgeRequests[r].finalized

\* No deposit is paid out unless some POST for it passed the check on Solana; and
\* each node whose POST did brought tokens for it to the user's destination,
\* whoever was paid and however nodes and relayer fail meanwhile.  More the relayer
\* does not enforce: it compares a POST with Solana, never with the request
\* (verification.service.ts:87-92), so another client's POST may have named a
\* transfer that has nothing to do with it.
PaidIsBacked ==
  \A r \in RequestId :
    bridgeRequests[r].finalized =>
      /\ accepted[r] # {}
      /\ \A n \in accepted[r] \cap Node : transfers[n][r] = "user"

\* Only a node that put up a bond for a request spends its own tokens on it: one
\* that finds it claimed by another goes on (bridge-processor.service.ts:52-58)
\* and is stopped by the access list of the destination alone.
OnlyClaimersTransfer ==
  \A n \in Node, r \in RequestId :
    transfers[n][r] # "none" => n \in claimers[r]

\* Unless the relayer restarts, every row that is opened is closed: each path of
\* the handler that does not settle marks it FAILED.
RowsClose ==
  \A r \in RequestId :
    record[r] \in {"RECEIVED", "VERIFIED"} ~>
      record[r] \in {"SETTLED", "FAILED"} \/ relayerCrashes > 0
-----------------------------------------------------------------------------
(***************************************************************************)
(* What a document says and the code does not do (violation run).           *)
(***************************************************************************)

\* "Bond is partially slashed if claim expires unfulfilled"
\* (docs-web/docs/bridge-evm-functions.md:77): a solver that delivered in time
\* keeps its bond.
SlashedIsUnfulfilled ==
  [][\A r \in RequestId :
       ledger'[r].bondSlashed > ledger[r].bondSlashed =>
         r \notin timely[requestClaim[r].solver]]_systemVars
=============================================================================
