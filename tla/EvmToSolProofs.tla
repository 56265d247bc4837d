--------------------------- MODULE EvmToSolProofs ---------------------------
(***************************************************************************)
(* The composition of contract, nodes and relayer: it runs the contract as  *)
(* NewRelayer says, so the contract's theorems hold in it, and its own      *)
(* safety invariants hold for every number of nodes and requests.           *)
(***************************************************************************)
EXTENDS EvmToSol, NewRelayerProofs

-----------------------------------------------------------------------------
(***************************************************************************)
(* The contract in the composition.                                         *)
(***************************************************************************)
LEMMA NodeOnContract ==
  ASSUME NEW n \in Node, NEW r \in RequestId, NodeStep(n, r)
  PROVE  RequestNext \/ UNCHANGED vars
  <1>1. CASE ClaimBridgeRequest(n, r)
    BY <1>1 DEF ClaimBridgeRequest, RequestNext
  <1>2. CASE ~ClaimBridgeRequest(n, r)
    BY <1>2 DEF NodeStep, Detect, IsRequestClaimed, Decrypt, UseTestDestination,
                TransferSPLToken, HandlerThrows
  <1>. QED BY <1>1, <1>2

LEMMA RelayerOnContract ==
  ASSUME NEW c \in Client, NEW r \in RequestId, RelayerStep(c, r)
  PROVE  RequestNext \/ UNCHANGED vars
  <1>1. CASE Settle(c, r)
    BY <1>1 DEF Settle, RequestNext
  <1>2. CASE ~Settle(c, r)
    BY <1>2 DEF RelayerStep, CallStep, FindRecord, InsertReceived, UpdateReceived,
                VerifyTransfer, NotFound, GetBridgeRequest, GetClaim, MarkVerified,
                ChainCallFails, MarkSettled, MarkFailed
  <1>. QED BY <1>1, <1>2

LEMMA ChainOnContract == ChainStep => Next
  BY DEF ChainStep, Next, AdminNext, RequestNext

LEMMA ContractStep == [SystemNext]_systemVars => [Next]_vars
  <1>. SUFFICES ASSUME [SystemNext]_systemVars PROVE [Next]_vars
    OBVIOUS
  <1>1. CASE ChainStep
    BY <1>1, ChainOnContract
  <1>2. ASSUME NEW n \in Node, NEW r \in RequestId, NodeStep(n, r)
        PROVE  [Next]_vars
    BY <1>2, NodeOnContract DEF Next
  <1>3. ASSUME NEW n \in Client, NEW r \in RequestId, RelayerStep(n, r)
        PROVE  [Next]_vars
    BY <1>3, RelayerOnContract DEF Next
  <1>4. ASSUME NEW n \in Node, NEW r \in RequestId,
               \/ PostLost(n, r) \/ PostArrives(n, r)
               \/ AnswerArrives(n, r) \/ NoAnswer(n, r)
        PROVE  [Next]_vars
    BY <1>4 DEF PostLost, PostArrives, AnswerArrives, NoAnswer, Receive,
                SubmitVerification, SubmissionEnds
  <1>5. ASSUME NEW c \in Poster, NEW r \in RequestId, ClientPosts(c, r)
        PROVE  [Next]_vars
    BY <1>5 DEF ClientPosts, Receive
  <1>6. CASE Crash
    BY <1>6 DEF Crash, NodeCrash, RelayerCrash
  <1>7. CASE UNCHANGED systemVars
    BY <1>7 DEF systemVars
  <1>. QED BY <1>1, <1>2, <1>3, <1>4, <1>5, <1>6, <1>7 DEF SystemNext

\* In the composition the contract behaves as the contract's specification says:
\* nodes, relayer, crashes and lost messages add nothing to what transactions do.
THEOREM ContractRefined == SystemSpec => Spec
  <1>1. SystemInit => Init
    BY DEF SystemInit
  <1>. QED BY <1>1, ContractStep, PTL DEF SystemSpec, Spec

LEMMA ContractInv == SystemSpec => []IInv
  BY ContractRefined, InvHolds, PTL

\* Nodes, relayer, restarts and lost messages together are the abstract escrow: the
\* whole direction pays once, in time and to the holder.
THEOREM SystemImplementsEscrow == SystemSpec => ImplementsEscrow
  BY ContractRefined, Refinement, PTL

\* However the parts fail, the contract's money adds up and its claims are funded.
THEOREM SystemConserves ==
  SystemSpec => [](/\ PayoutExact /\ BondAccounted /\ EthConservation
                   /\ TokenConservation /\ BondsCovered)
  BY ContractRefined, PayoutCorrect, BondCorrect, EthConserved, TokensConserved,
     ClaimsAreFunded, PTL
-----------------------------------------------------------------------------
(***************************************************************************)
(* Types.                                                                   *)
(***************************************************************************)
NodeTypes ==
  /\ stage \in [Node -> [RequestId -> Stage]]
  /\ destination \in [Node -> [RequestId -> Place]]
  /\ transfers \in [Node -> [RequestId -> Place]]
  /\ claimers \in [RequestId -> SUBSET Node]
  /\ timely \in [Node -> SUBSET RequestId]

ServiceTypes ==
  /\ accepted \in [RequestId -> SUBSET Client]
  /\ record \in [RequestId -> BridgeStatus \cup {"none"}]
  /\ calls \in [Client -> [RequestId -> [at: Point, tries: 0..(MaxTries - 1)]]]

CrashTypes ==
  nodeCrashes \in 0..MaxCrashes /\ relayerCrashes \in 0..MaxCrashes

FlowTypes == NodeTypes /\ ServiceTypes /\ CrashTypes

LEMMA FlowTypesInit == SystemInit => FlowTypes
  BY ServiceAssumption, CrashAssumption
  DEF SystemInit, NodeInit, ServiceInit, FlowTypes, NodeTypes, ServiceTypes,
      CrashTypes, Stage, Place, Point, NoCall

\* A handler that advances stays a handler.
LEMMA AdvanceTypes ==
  ASSUME NodeTypes, NEW n \in Node, NEW r \in RequestId,
         NEW from \in Stage, NEW to \in Stage, Advance(n, r, from, to)
  PROVE  stage' \in [Node -> [RequestId -> Stage]]
  BY DEF NodeTypes, Advance

LEMMA NodeStepTypes ==
  ASSUME FlowTypes, NEW n \in Node, NEW r \in RequestId, NodeStep(n, r)
  PROVE  FlowTypes'
  <1>. USE DEF FlowTypes
  <1>1. ServiceTypes' /\ relayerCrashes' = relayerCrashes /\ nodeCrashes' = nodeCrashes
    BY DEF NodeStep, serviceVars, ServiceTypes, Detect, IsRequestClaimed,
           ClaimBridgeRequest, Decrypt, UseTestDestination, TransferSPLToken,
           HandlerThrows
  <1>2. stage' \in [Node -> [RequestId -> Stage]]
    <2>1. \E from \in Stage, to \in Stage : Advance(n, r, from, to)
      BY Zenon DEF NodeStep, Detect, IsRequestClaimed, ClaimBridgeRequest, Decrypt,
             UseTestDestination, TransferSPLToken, HandlerThrows, Stage
    <2>. QED BY <2>1, AdvanceTypes
  <1>3. destination' \in [Node -> [RequestId -> Place]]
    <2>1. \/ destination' = destination
          \/ \E p \in Place : destination' = [destination EXCEPT ![n][r] = p]
      BY Zenon DEF NodeStep, Detect, IsRequestClaimed, ClaimBridgeRequest, Decrypt,
             UseTestDestination, TransferSPLToken, HandlerThrows, Place
    <2>2. ASSUME NEW p \in Place, destination' = [destination EXCEPT ![n][r] = p]
          PROVE  destination' \in [Node -> [RequestId -> Place]]
      BY <2>2 DEF NodeTypes
    <2>. QED BY <2>1, <2>2 DEF NodeTypes
  <1>4. transfers' \in [Node -> [RequestId -> Place]]
    <2>1. \/ transfers' = transfers
          \/ transfers' = [transfers EXCEPT ![n][r] = destination[n][r]]
      BY Zenon DEF NodeStep, Detect, IsRequestClaimed, ClaimBridgeRequest, Decrypt,
             UseTestDestination, TransferSPLToken, HandlerThrows
    <2>2. destination[n][r] \in Place
      BY DEF NodeTypes
    <2>3. CASE transfers' = [transfers EXCEPT ![n][r] = destination[n][r]]
      BY <2>2, <2>3 DEF NodeTypes
    <2>. QED BY <2>1, <2>3 DEF NodeTypes
  <1>5. claimers' \in [RequestId -> SUBSET Node]
    <2>1. \/ claimers' = claimers
          \/ claimers' = [claimers EXCEPT ![r] = claimers[r] \cup {n}]
      BY DEF NodeStep, Detect, IsRequestClaimed, ClaimBridgeRequest, Decrypt,
             UseTestDestination, TransferSPLToken, HandlerThrows
    <2>. QED BY <2>1 DEF NodeTypes
  <1>6. timely' \in [Node -> SUBSET RequestId]
    <2>1. \/ timely' = timely
          \/ timely' = [timely EXCEPT ![n] = timely[n] \cup {r}]
      BY DEF NodeStep, Detect, IsRequestClaimed, ClaimBridgeRequest, Decrypt,
             UseTestDestination, TransferSPLToken, HandlerThrows
    <2>2. CASE timely' = [timely EXCEPT ![n] = timely[n] \cup {r}]
      BY <2>2 DEF NodeTypes
    <2>. QED BY <2>1, <2>2 DEF NodeTypes
  <1>. QED BY <1>1, <1>2, <1>3, <1>4, <1>5, <1>6 DEF NodeTypes, CrashTypes

LEMMA GoToTypes ==
  ASSUME ServiceTypes, NEW c \in Client, NEW r \in RequestId, NEW point \in Point,
         GoTo(c, r, point)
  PROVE  calls' \in [Client -> [RequestId -> [at: Point, tries: 0..(MaxTries - 1)]]]
  BY ServiceAssumption DEF ServiceTypes, GoTo

LEMMA CallStepTypes ==
  ASSUME FlowTypes, NEW c \in Client, NEW r \in RequestId, RelayerStep(c, r)
  PROVE  FlowTypes'
  <1>. USE DEF FlowTypes
  <1>1. NodeTypes' /\ CrashTypes'
    BY DEF RelayerStep, CallStep, FindRecord, InsertReceived, UpdateReceived,
           VerifyTransfer, NotFound, GetBridgeRequest, GetClaim, MarkVerified, Settle,
           ChainCallFails, MarkSettled, MarkFailed, nodeVars, NodeTypes, CrashTypes
  <1>2. record' \in [RequestId -> BridgeStatus \cup {"none"}]
    BY DEF RelayerStep, CallStep, FindRecord, InsertReceived, UpdateReceived,
           VerifyTransfer, NotFound, GetBridgeRequest, GetClaim, MarkVerified, Settle,
           ChainCallFails, MarkSettled, MarkFailed, Mark, ServiceTypes, BridgeStatus
  <1>3. \/ \E point \in Point : GoTo(c, r, point)
        \/ /\ calls[c][r].tries + 1 < MaxTries
           /\ calls' = [calls EXCEPT ![c][r].tries = calls[c][r].tries + 1]
    BY DEF RelayerStep, CallStep, FindRecord, InsertReceived, UpdateReceived,
           VerifyTransfer, NotFound, GetBridgeRequest, GetClaim, MarkVerified, Settle,
           ChainCallFails, MarkSettled, MarkFailed, Point
  <1>4. calls' \in [Client -> [RequestId -> [at: Point, tries: 0..(MaxTries - 1)]]]
    <2>1. CASE \E point \in Point : GoTo(c, r, point)
      BY <2>1, GoToTypes
    <2>2. CASE /\ calls[c][r].tries + 1 < MaxTries
               /\ calls' = [calls EXCEPT ![c][r].tries = calls[c][r].tries + 1]
      BY <2>2, ServiceAssumption DEF ServiceTypes
    <2>. QED BY <1>3, <2>1, <2>2
  <1>5. accepted' \in [RequestId -> SUBSET Client]
    BY DEF RelayerStep, ServiceTypes
  <1>. QED BY <1>1, <1>2, <1>4, <1>5 DEF ServiceTypes

LEMMA PostTypes ==
  ASSUME FlowTypes, NEW n \in Node, NEW r \in RequestId,
         \/ PostLost(n, r) \/ PostArrives(n, r)
         \/ AnswerArrives(n, r) \/ NoAnswer(n, r)
  PROVE  FlowTypes'
  <1>. USE DEF FlowTypes
  <1>1. /\ destination' = destination /\ transfers' = transfers
        /\ claimers' = claimers /\ timely' = timely /\ record' = record
        /\ nodeCrashes' = nodeCrashes /\ relayerCrashes' = relayerCrashes
        /\ accepted' = accepted
    BY DEF PostLost, PostArrives, AnswerArrives, NoAnswer, SubmitVerification,
           SubmissionEnds, Receive, serviceVars
  <1>2. stage' \in [Node -> [RequestId -> Stage]]
    <2>1. \E from \in Stage, to \in Stage : Advance(n, r, from, to)
      BY DEF PostLost, PostArrives, AnswerArrives, NoAnswer, SubmitVerification,
             SubmissionEnds, Stage
    <2>. QED BY <2>1, AdvanceTypes
  <1>3. calls' \in [Client -> [RequestId -> [at: Point, tries: 0..(MaxTries - 1)]]]
    <2>1. CASE PostArrives(n, r)
      BY <2>1, GoToTypes DEF PostArrives, Receive, Point, Client
    <2>2. CASE ~PostArrives(n, r)
      BY <2>2 DEF PostLost, AnswerArrives, NoAnswer, serviceVars, ServiceTypes
    <2>. QED BY <2>1, <2>2
  <1>. QED BY <1>1, <1>2, <1>3 DEF NodeTypes, ServiceTypes, CrashTypes

LEMMA ClientTypes ==
  ASSUME FlowTypes, NEW c \in Poster, NEW r \in RequestId, ClientPosts(c, r)
  PROVE  FlowTypes'
  <1>. USE DEF FlowTypes
  <1>1. calls' \in [Client -> [RequestId -> [at: Point, tries: 0..(MaxTries - 1)]]]
    BY GoToTypes DEF ClientPosts, Receive, Point, Client
  <1>. QED BY <1>1 DEF ClientPosts, Receive, nodeVars, NodeTypes, ServiceTypes, CrashTypes

LEMMA CrashStepTypes == FlowTypes /\ Crash => FlowTypes'
  <1>. SUFFICES ASSUME FlowTypes, Crash PROVE FlowTypes'
    OBVIOUS
  <1>. USE DEF FlowTypes
  <1>1. CrashTypes'
    BY CrashAssumption DEF Crash, NodeCrash, RelayerCrash, CrashTypes, serviceVars, nodeVars
  <1>2. NodeTypes'
    <2>1. CASE RelayerCrash /\ UNCHANGED nodeVars
      BY <2>1 DEF NodeTypes, nodeVars
    <2>2. ASSUME NEW n \in Node, NodeCrash(n)
          PROVE  NodeTypes'
      <3>1. "lost" \in Stage /\ "none" \in Stage /\ "none" \in Place
        BY DEF Stage, Place
      <3>2. stage' \in [Node -> [RequestId -> Stage]]
        BY <2>2, <3>1 DEF NodeCrash, NodeTypes
      <3>3. destination' \in [Node -> [RequestId -> Place]]
        BY <2>2, <3>1 DEF NodeCrash, NodeTypes
      <3>. QED BY <2>2, <3>2, <3>3 DEF NodeCrash, NodeTypes
    <2>. QED BY <2>1, <2>2 DEF Crash
  <1>3. ServiceTypes'
    BY ServiceAssumption DEF Crash, NodeCrash, RelayerCrash, ServiceTypes, serviceVars, Point
  <1>. QED BY <1>1, <1>2, <1>3

LEMMA FlowTypesStep == FlowTypes /\ [SystemNext]_systemVars => FlowTypes'
  <1>. SUFFICES ASSUME FlowTypes, [SystemNext]_systemVars PROVE FlowTypes'
    OBVIOUS
  <1>1. CASE ChainStep \/ UNCHANGED systemVars
    BY <1>1 DEF ChainStep, systemVars, nodeVars, serviceVars, FlowTypes, NodeTypes,
                ServiceTypes, CrashTypes
  <1>. QED BY <1>1, NodeStepTypes, CallStepTypes, PostTypes, ClientTypes,
             CrashStepTypes DEF SystemNext

\* Every variable of the composition keeps its type; a signature is polled
\* MaxTries times at most, whatever MaxTries is.
THEOREM SystemTypeCorrect == SystemSpec => []SystemTypeOK
  <1>1. SystemSpec => []FlowTypes
    BY FlowTypesInit, FlowTypesStep, PTL DEF SystemSpec
  <1>2. IInv /\ FlowTypes => SystemTypeOK
    BY DEF IInv, FlowTypes, NodeTypes, ServiceTypes, CrashTypes, SystemTypeOK
  <1>. QED BY <1>1, <1>2, ContractInv, PTL
-----------------------------------------------------------------------------
(***************************************************************************)
(* The safety invariants of the composition.                                *)
(*                                                                          *)
(* First one lemma per variable, on how a step may change it for one node   *)
(* and one request; the invariants then follow from these and the types.    *)
(***************************************************************************)
FlowInv == IInv /\ FlowTypes

LEMMA FlowInvHolds == SystemSpec => []FlowInv
  <1>1. SystemSpec => []FlowTypes
    BY FlowTypesInit, FlowTypesStep, PTL DEF SystemSpec
  <1>. QED BY <1>1, ContractInv, PTL DEF FlowInv
-----------------------------------------------------------------------------
(***************************************************************************)
(* What one step changes.                                                   *)
(***************************************************************************)
LEMMA TransfersStep ==
  ASSUME FlowInv, [SystemNext]_systemVars, NEW n \in Node, NEW r \in RequestId
  PROVE  \/ transfers'[n][r] = transfers[n][r]
         \/ /\ stage[n][r] = "decrypted"
            /\ transfers'[n][r] = destination[n][r]
            /\ calls' = calls
  <1>1. ASSUME NEW m \in Node, NEW q \in RequestId, TransferSPLToken(m, q),
               UNCHANGED serviceVars
        PROVE  \/ transfers'[n][r] = transfers[n][r]
               \/ /\ stage[n][r] = "decrypted"
                  /\ transfers'[n][r] = destination[n][r]
                  /\ calls' = calls
    <2>1. CASE m = n /\ q = r
      BY <1>1, <2>1 DEF TransferSPLToken, Advance, FlowInv, FlowTypes, NodeTypes,
                        serviceVars
    <2>2. CASE ~(m = n /\ q = r)
      BY <1>1, <2>2 DEF TransferSPLToken, FlowInv, FlowTypes, NodeTypes
    <2>. QED BY <2>1, <2>2
  <1>2. \/ UNCHANGED transfers
        \/ \E m \in Node, q \in RequestId : TransferSPLToken(m, q) /\ UNCHANGED serviceVars
    BY DEF SystemNext, systemVars, ChainStep, NodeStep, RelayerStep, nodeVars, PostLost,
           PostArrives, AnswerArrives, NoAnswer, SubmitVerification, SubmissionEnds,
           ClientPosts, Crash, NodeCrash, RelayerCrash, Detect, IsRequestClaimed,
           ClaimBridgeRequest, Decrypt, UseTestDestination, HandlerThrows
  <1>. QED BY <1>1, <1>2

\* A handler of n gets to know a destination by decryption only.
LEMMA DestinationStep ==
  ASSUME FlowInv, [SystemNext]_systemVars, ~TestDestination,
         NEW n \in Node, NEW r \in RequestId
  PROVE  \/ destination'[n][r] = destination[n][r]
         \/ destination'[n][r] = "none" /\ stage'[n][r] \in {"none", "lost"}
         \/ destination'[n][r] = "user" /\ n \in fheReaders[r]
  <1>. DEFINE Goal == \/ destination'[n][r] = destination[n][r]
                      \/ destination'[n][r] = "none" /\ stage'[n][r] \in {"none", "lost"}
                      \/ destination'[n][r] = "user" /\ n \in fheReaders[r]
  <1>1. ASSUME NEW m \in Node, NEW q \in RequestId, Decrypt(m, q)
        PROVE  Goal
    <2>1. CASE m = n /\ q = r
      BY <1>1, <2>1 DEF Decrypt, FlowInv, FlowTypes, NodeTypes
    <2>2. CASE ~(m = n /\ q = r)
      BY <1>1, <2>2 DEF Decrypt, FlowInv, FlowTypes, NodeTypes
    <2>. QED BY <2>1, <2>2
  <1>2. ASSUME NEW m \in Node, NodeCrash(m)
        PROVE  Goal
    <2>1. CASE m = n
      BY <1>2, <2>1 DEF NodeCrash, FlowInv, FlowTypes, NodeTypes
    <2>2. CASE m # n
      BY <1>2, <2>2 DEF NodeCrash, FlowInv, FlowTypes, NodeTypes
    <2>. QED BY <2>1, <2>2
  <1>3. \/ UNCHANGED destination
        \/ \E m \in Node, q \in RequestId : Decrypt(m, q)
        \/ \E m \in Node : NodeCrash(m)
    BY DEF SystemNext, systemVars, ChainStep, NodeStep, RelayerStep, nodeVars, PostLost,
           PostArrives, AnswerArrives, NoAnswer, SubmitVerification, SubmissionEnds,
           ClientPosts, Crash, RelayerCrash, Detect, IsRequestClaimed,
           ClaimBridgeRequest, UseTestDestination, TransferSPLToken, HandlerThrows
  <1>. HIDE DEF Goal
  <1>4. UNCHANGED destination => Goal
    BY DEF Goal
  <1>. QED BY <1>1, <1>2, <1>3, <1>4 DEF Goal

\* A handler goes on to the transfer with the destination it has.
LEMMA DecryptedStep ==
  ASSUME FlowInv, [SystemNext]_systemVars, NEW n \in Node, NEW r \in RequestId,
         stage'[n][r] = "decrypted"
  PROVE  \/ stage[n][r] = "decrypted" /\ destination'[n][r] = destination[n][r]
         \/ destination'[n][r] # "none"
  <1>1. ASSUME NEW m \in Node, NEW q \in RequestId, NodeStep(m, q)
        PROVE  \/ stage[n][r] = "decrypted" /\ destination'[n][r] = destination[n][r]
               \/ destination'[n][r] # "none"
    <2>1. CASE Decrypt(m, q) \/ UseTestDestination(m, q)
      <3>1. CASE m = n /\ q = r
        BY <2>1, <3>1 DEF Decrypt, UseTestDestination, FlowInv, FlowTypes, NodeTypes
      <3>2. CASE ~(m = n /\ q = r)
        BY <2>1, <3>2 DEF Decrypt, UseTestDestination, Advance, FlowInv, FlowTypes,
                          NodeTypes
      <3>. QED BY <3>1, <3>2
    <2>2. CASE ~(Decrypt(m, q) \/ UseTestDestination(m, q))
      <3>1. /\ UNCHANGED destination
            /\ \E from, to : Advance(m, q, from, to) /\ to # "decrypted"
        BY <1>1, <2>2 DEF NodeStep, Detect, IsRequestClaimed, ClaimBridgeRequest,
                          TransferSPLToken, HandlerThrows
      <3>. QED BY <3>1 DEF Advance, FlowInv, FlowTypes, NodeTypes
    <2>. QED BY <2>1, <2>2
  <1>2. ASSUME NEW m \in Node, NEW q \in RequestId,
               \/ PostLost(m, q) \/ PostArrives(m, q)
               \/ AnswerArrives(m, q) \/ NoAnswer(m, q)
        PROVE  stage[n][r] = "decrypted" /\ destination'[n][r] = destination[n][r]
    <2>1. /\ UNCHANGED destination
          /\ \E from, to : Advance(m, q, from, to) /\ to # "decrypted"
      BY <1>2 DEF PostLost, PostArrives, AnswerArrives, NoAnswer, SubmitVerification,
                  SubmissionEnds
    <2>. QED BY <2>1 DEF Advance, FlowInv, FlowTypes, NodeTypes
  <1>3. ASSUME NEW m \in Node, NodeCrash(m)
        PROVE  stage[n][r] = "decrypted" /\ destination'[n][r] = destination[n][r]
    BY <1>3 DEF NodeCrash, FlowInv, FlowTypes, NodeTypes
  <1>4. CASE UNCHANGED <<stage, destination>>
    BY <1>4
  <1>5. \/ UNCHANGED <<stage, destination>>
        \/ \E m \in Node : NodeCrash(m)
        \/ \E m \in Node, q \in RequestId :
             \/ NodeStep(m, q) \/ PostLost(m, q) \/ PostArrives(m, q)
             \/ AnswerArrives(m, q) \/ NoAnswer(m, q)
    BY DEF SystemNext, systemVars, ChainStep, RelayerStep, ClientPosts, nodeVars, Crash, RelayerCrash
  <1>. QED BY <1>1, <1>2, <1>3, <1>4, <1>5

\* The access list of a request gains a node only with that node's claim, since
\* neither depositors nor the relayer are nodes.
LEMMA AccessStep ==
  ASSUME FlowInv, [SystemNext]_systemVars,
         Node \cap (User \cup RelayerAccount) = {},
         NEW n \in Node, NEW r \in RequestId
  PROVE  /\ n \in claimers[r] => n \in claimers'[r]
         /\ n \in fheReaders'[r] => n \in fheReaders[r] \/ n \in claimers'[r]
  <1>. DEFINE Goal == /\ n \in claimers[r] => n \in claimers'[r]
                      /\ n \in fheReaders'[r] => n \in fheReaders[r] \/ n \in claimers'[r]
  <1>1. ASSUME NEW m \in Node, NEW q \in RequestId, ClaimBridgeRequest(m, q)
        PROVE  Goal
    <2>1. /\ claimers' = [claimers EXCEPT ![q] = claimers[q] \cup {m}]
          /\ fheReaders' = [fheReaders EXCEPT ![q] = fheReaders[q] \cup {m}]
      BY <1>1 DEF ClaimBridgeRequest, ClaimBridge
    <2>2. /\ claimers \in [RequestId -> SUBSET Node]
          /\ fheReaders \in [RequestId -> SUBSET Account]
      BY DEF FlowInv, IInv, TypeOK, FlowTypes, NodeTypes
    <2>. QED BY <2>1, <2>2
  <1>2. ASSUME NEW u \in User, NEW t \in Token, NEW a \in Amounts,
               InitiateBridge(u, t, a), UNCHANGED nodeVars
        PROVE  Goal
    <2>1. fheReaders' = [fheReaders EXCEPT ![bridgeNonce + 1] = {u, config.relayer}]
      BY <1>2 DEF InitiateBridge
    <2>2. /\ config.relayer \in RelayerAccount
          /\ fheReaders \in [RequestId -> SUBSET Account]
      BY DEF FlowInv, IInv, TypeOK, Config
    <2>. QED BY <1>2, <2>1, <2>2 DEF nodeVars
  <1>3. CASE UNCHANGED <<claimers, fheReaders>>
    BY <1>3
  <1>4. \/ UNCHANGED <<claimers, fheReaders>>
        \/ \E m \in Node, q \in RequestId : ClaimBridgeRequest(m, q)
        \/ \E u \in User, t \in Token, a \in Amounts :
             InitiateBridge(u, t, a) /\ UNCHANGED nodeVars
    <2>1. CASE ChainStep
      BY <2>1 DEF ChainStep, AuthorizeNode, ReleaseExpiredClaim, Tick, nodeVars, requestVars
    <2>2. ASSUME NEW m \in Client, NEW q \in RequestId, RelayerStep(m, q)
          PROVE  UNCHANGED <<claimers, fheReaders>>
      BY <2>2 DEF RelayerStep, CallStep, FindRecord, InsertReceived, UpdateReceived,
                  VerifyTransfer, NotFound, GetBridgeRequest, GetClaim, MarkVerified,
                  Settle, VerifyAndSettle, ChainCallFails, MarkSettled, MarkFailed,
                  nodeVars, vars, requestVars
    <2>3. CASE ~ChainStep /\ ~\E m \in Client, q \in RequestId : RelayerStep(m, q)
      BY <2>3 DEF SystemNext, systemVars, NodeStep, nodeVars, PostLost, PostArrives,
             AnswerArrives, NoAnswer, SubmitVerification, SubmissionEnds, Receive,
             ClientPosts, Crash, NodeCrash, RelayerCrash, Detect, IsRequestClaimed, Decrypt,
             UseTestDestination, TransferSPLToken, HandlerThrows, vars, requestVars
    <2>. QED BY <2>1, <2>2, <2>3
  <1>. HIDE DEF Goal
  <1>5. QED BY <1>1, <1>2, <1>3, <1>4 DEF Goal

\* The points of a call that come after the transfer was found on Solana.
Checked == {"request", "claim", "verified", "settle"}

\* Where a call may get to, and what holds then.
LEMMA PointStep ==
  ASSUME FlowInv, [SystemNext]_systemVars, NEW c \in Client, NEW r \in RequestId
  PROVE  /\ calls'[c][r].at \in Checked =>
              calls[c][r].at \in Checked \/ c \in accepted'[r]
         /\ calls'[c][r].at \in {"settled", "ok"} =>
              calls[c][r].at \in {"settled", "ok"} \/ bridgeRequests'[r].finalized
  <1>. DEFINE Goal == /\ calls'[c][r].at \in Checked =>
                           calls[c][r].at \in Checked \/ c \in accepted'[r]
                      /\ calls'[c][r].at \in {"settled", "ok"} =>
                           calls[c][r].at \in {"settled", "ok"} \/ bridgeRequests'[r].finalized
  <1>1. ASSUME NEW m \in Client, NEW q \in RequestId, RelayerStep(m, q)
        PROVE  Goal
    <2>1. CASE m = c /\ q = r
      <3>1. CASE Settle(c, r)
        <4>1. calls[c][r].at = "settle"
          BY <3>1 DEF Settle, At
        <4>2. bridgeRequests'[r].finalized
          BY <3>1 DEF Settle, VerifyAndSettle, FlowInv, IInv, TypeOK, Request, Exists,
                      NoRequest
        <4>. QED BY <4>1, <4>2 DEF Checked
      <3>2. CASE NotFound(c, r)
        <4>1. calls \in [Client -> [RequestId -> [at: Point, tries: 0..(MaxTries - 1)]]]
          BY DEF FlowInv, FlowTypes, ServiceTypes
        <4>2. \/ GoTo(c, r, "failing")
              \/ calls' = [calls EXCEPT ![c][r].tries = calls[c][r].tries + 1]
          BY <3>2 DEF NotFound
        <4>3. calls'[c][r].at = "failing" \/ calls'[c][r].at = calls[c][r].at
          <5>1. CASE GoTo(c, r, "failing")
            BY <4>1, <5>1 DEF GoTo
          <5>2. CASE calls' = [calls EXCEPT ![c][r].tries = calls[c][r].tries + 1]
            <6>1. calls'[c][r] = [calls[c][r] EXCEPT !.tries = calls[c][r].tries + 1]
              BY <4>1, <5>2
            <6>2. calls[c][r] \in [at: Point, tries: 0..(MaxTries - 1)]
              BY <4>1
            <6>. QED BY <6>1, <6>2
          <5>. QED BY <4>2, <5>1, <5>2
        <4>4. calls[c][r].at = "transfer"
          BY <3>2 DEF NotFound, At
        <4>. QED BY <4>3, <4>4 DEF Checked
      <3>3. CASE ~Settle(c, r) /\ ~NotFound(c, r)
        <4>1. \E from, to \in Point :
                /\ At(c, r, from) /\ GoTo(c, r, to)
                /\ to \in Checked =>
                     from \in Checked \/ (from = "transfer" /\ to = "request")
                /\ to \in {"settled", "ok"} => from \in {"settled", "ok"}
          BY <1>1, <2>1, <3>3, Zenon
          DEF RelayerStep, CallStep, FindRecord, InsertReceived, UpdateReceived,
              VerifyTransfer, GetBridgeRequest, GetClaim, MarkVerified,
              ChainCallFails, MarkSettled, MarkFailed, Point, Checked
        <4>2. PICK from, to \in Point :
                /\ At(c, r, from) /\ GoTo(c, r, to)
                /\ to \in Checked =>
                     from \in Checked \/ (from = "transfer" /\ to = "request")
                /\ to \in {"settled", "ok"} => from \in {"settled", "ok"}
          BY <4>1
        <4>3. calls[c][r].at = from /\ calls'[c][r].at = to
          BY <4>2 DEF At, GoTo, FlowInv, FlowTypes, ServiceTypes
        <4>4. calls[c][r].at = "transfer" /\ calls'[c][r].at = "request" =>
                c \in accepted'[r]
          BY <1>1, <2>1 DEF RelayerStep, At, FlowInv, FlowTypes, ServiceTypes
        <4>. QED BY <4>2, <4>3, <4>4
      <3>. QED BY <3>1, <3>2, <3>3
    <2>2. CASE ~(m = c /\ q = r)
      <3>1. calls'[c][r] = calls[c][r]
        BY <1>1, <2>2 DEF RelayerStep, CallStep, FindRecord, InsertReceived,
             UpdateReceived, VerifyTransfer, NotFound, GetBridgeRequest, GetClaim,
             MarkVerified, Settle, ChainCallFails, MarkSettled, MarkFailed, GoTo,
             FlowInv, FlowTypes, ServiceTypes
      <3>. QED BY <3>1
    <2>. QED BY <2>1, <2>2
  <1>2. ASSUME NEW m \in Client, NEW q \in RequestId, Receive(m, q)
        PROVE  Goal
    BY <1>2 DEF Receive, GoTo, Checked, FlowInv, FlowTypes, ServiceTypes
  <1>3. RelayerCrash => Goal
    BY DEF RelayerCrash, Checked, FlowInv, FlowTypes, ServiceTypes
  <1>4. UNCHANGED calls => Goal
    OBVIOUS
  <1>5. \/ UNCHANGED calls
        \/ RelayerCrash
        \/ \E m \in Client, q \in RequestId : RelayerStep(m, q) \/ Receive(m, q)
    BY DEF Client, SystemNext, systemVars, serviceVars, ChainStep, NodeStep, PostLost,
           PostArrives, AnswerArrives, NoAnswer, ClientPosts, Crash
  <1>. HIDE DEF Goal
  <1>6. Goal
    BY <1>1, <1>2, <1>3, <1>4, <1>5
  <1>. QED BY <1>6 DEF Goal

\* The check on Solana passes a node's POST only when the node transferred.
LEMMA AcceptedStep ==
  ASSUME FlowInv, [SystemNext]_systemVars, NEW r \in RequestId
  PROVE  /\ accepted[r] \subseteq accepted'[r]
         /\ \A n \in Node : n \in accepted'[r] =>
              n \in accepted[r] \/ transfers[n][r] # "none"
  <1>. DEFINE Goal == /\ accepted[r] \subseteq accepted'[r]
                      /\ \A n \in Node : n \in accepted'[r] =>
                           n \in accepted[r] \/ transfers[n][r] # "none"
  <1>1. ASSUME NEW c \in Client, NEW q \in RequestId, RelayerStep(c, q)
        PROVE  Goal
    <2>1. CASE At(c, q, "transfer") /\ At(c, q, "request")'
      <3>1. accepted' = [accepted EXCEPT ![q] = accepted[q] \cup {c}]
        BY <1>1, <2>1 DEF RelayerStep
      <3>2. PICK arrived \in Arrived(c, q) : CallStep(c, q, arrived)
        BY <1>1 DEF RelayerStep
      <3>3. VerifyTransfer(c, q, arrived) /\ arrived
        <4>1. calls[c][q].at = "transfer" /\ calls'[c][q].at = "request"
          BY <2>1 DEF At
        <4>2. \/ VerifyTransfer(c, q, arrived) \/ NotFound(c, q)
              \/ ChainCallFails(c, q)
          BY <3>2, <4>1 DEF CallStep, FindRecord, InsertReceived, UpdateReceived,
                            GetBridgeRequest, GetClaim, MarkVerified, Settle,
                            MarkSettled, MarkFailed, At
        <4>3. ~ChainCallFails(c, q)
          BY <4>1 DEF ChainCallFails, GoTo, FlowInv, FlowTypes, ServiceTypes
        <4>4. ~NotFound(c, q)
          <5>1. ~GoTo(c, q, "failing")
            BY <4>1 DEF GoTo, FlowInv, FlowTypes, ServiceTypes
          <5>2. calls' # [calls EXCEPT ![c][q].tries = calls[c][q].tries + 1]
            <6>1. SUFFICES ASSUME calls' = [calls EXCEPT ![c][q].tries = calls[c][q].tries + 1]
                           PROVE  FALSE
              OBVIOUS
            <6>2. calls'[c][q] = [calls[c][q] EXCEPT !.tries = calls[c][q].tries + 1]
              BY <6>1 DEF FlowInv, FlowTypes, ServiceTypes
            <6>3. calls[c][q] \in [at: Point, tries: 0..(MaxTries - 1)]
              BY DEF FlowInv, FlowTypes, ServiceTypes
            <6>4. calls'[c][q].at = calls[c][q].at
              BY <6>2, <6>3
            <6>. QED BY <4>1, <6>4
          <5>. QED BY <5>1, <5>2 DEF NotFound
        <4>5. VerifyTransfer(c, q, arrived)
          BY <4>2, <4>3, <4>4
        <4>6. ~arrived => GoTo(c, q, "failing")
          BY <4>5 DEF VerifyTransfer
        <4>7. ~GoTo(c, q, "failing")
          BY <4>1 DEF GoTo, FlowInv, FlowTypes, ServiceTypes
        <4>. QED BY <4>5, <4>6, <4>7
      <3>4. c \in Node => transfers[c][q] # "none"
        BY <3>2, <3>3 DEF Arrived
      <3>. QED BY <3>1, <3>4 DEF FlowInv, FlowTypes, ServiceTypes
    <2>2. CASE ~(At(c, q, "transfer") /\ At(c, q, "request")')
      BY <1>1, <2>2 DEF RelayerStep, FlowInv, FlowTypes, ServiceTypes
    <2>. QED BY <2>1, <2>2
  <1>2. \/ UNCHANGED accepted
        \/ \E c \in Client, q \in RequestId : RelayerStep(c, q)
    BY DEF SystemNext, systemVars, ChainStep, NodeStep, PostLost, PostArrives,
           AnswerArrives, NoAnswer, ClientPosts, Crash
  <1>. HIDE DEF Goal
  <1>3. UNCHANGED accepted => Goal
    BY DEF Goal
  <1>4. Goal
    BY <1>1, <1>2, <1>3
  <1>. QED BY <1>4 DEF Goal

\* A request is marked paid by the settlement of a call alone, and stays paid.
LEMMA PaidStep ==
  ASSUME FlowInv, [SystemNext]_systemVars, NEW r \in RequestId
  PROVE  /\ bridgeRequests[r].finalized => bridgeRequests'[r].finalized
         /\ bridgeRequests'[r].finalized =>
              bridgeRequests[r].finalized \/ \E m \in Client : calls[m][r].at = "settle"
  <1>. DEFINE Goal == /\ bridgeRequests[r].finalized => bridgeRequests'[r].finalized
                      /\ bridgeRequests'[r].finalized =>
                           bridgeRequests[r].finalized \/ \E m \in Client : calls[m][r].at = "settle"
  <1>1. ASSUME NEW u \in User, NEW t \in Token, NEW a \in Amounts, InitiateBridge(u, t, a)
        PROVE  Goal
    <2>1. CASE r = bridgeNonce + 1
      <3>1. bridgeRequests[r] = NoRequest
        BY <2>1 DEF FlowInv, IInv, SafetyInv, RequestTableOK, TypeOK, RequestId
      <3>2. ~bridgeRequests'[r].finalized
        BY <1>1, <2>1 DEF InitiateBridge, FlowInv, IInv, TypeOK
      <3>. QED BY <3>1, <3>2 DEF NoRequest
    <2>2. CASE r # bridgeNonce + 1
      BY <1>1, <2>2 DEF InitiateBridge, FlowInv, IInv, TypeOK
    <2>. QED BY <2>1, <2>2
  <1>2. ASSUME NEW m \in Client, NEW q \in RequestId, Settle(m, q)
        PROVE  Goal
    <2>1. bridgeRequests' = [bridgeRequests EXCEPT ![q].finalized = TRUE]
      BY <1>2 DEF Settle, VerifyAndSettle
    <2>2. calls[m][q].at = "settle"
      BY <1>2 DEF Settle, At
    <2>3. CASE q = r
      BY <2>1, <2>2, <2>3 DEF FlowInv, IInv, TypeOK, Request, NoRequest
    <2>4. CASE q # r
      BY <2>1, <2>4 DEF FlowInv, IInv, TypeOK
    <2>. QED BY <2>3, <2>4
  <1>3. UNCHANGED bridgeRequests => Goal
    OBVIOUS
  <1>4. \/ UNCHANGED bridgeRequests
        \/ \E m \in Client, q \in RequestId : Settle(m, q)
        \/ \E u \in User, t \in Token, a \in Amounts : InitiateBridge(u, t, a)
    <2>1. CASE ChainStep
      BY <2>1 DEF ChainStep, AuthorizeNode, ReleaseExpiredClaim, Tick, requestVars
    <2>2. ASSUME NEW m \in Client, NEW q \in RequestId, RelayerStep(m, q), ~Settle(m, q)
          PROVE  UNCHANGED bridgeRequests
      BY <2>2 DEF RelayerStep, CallStep, FindRecord, InsertReceived, UpdateReceived,
                  VerifyTransfer, NotFound, GetBridgeRequest, GetClaim, MarkVerified,
                  ChainCallFails, MarkSettled, MarkFailed, vars, requestVars
    <2>3. CASE ~ChainStep /\ ~\E m \in Client, q \in RequestId : RelayerStep(m, q)
      BY <2>3 DEF SystemNext, systemVars, NodeStep, PostLost, PostArrives,
             AnswerArrives, NoAnswer, SubmitVerification, SubmissionEnds, Receive,
             ClientPosts, Crash, NodeCrash, RelayerCrash, Detect, IsRequestClaimed,
             ClaimBridgeRequest, ClaimBridge, Decrypt,
             UseTestDestination, TransferSPLToken, HandlerThrows, vars, requestVars
    <2>. QED BY <2>1, <2>2, <2>3
  <1>. HIDE DEF Goal
  <1>5. Goal
    BY <1>1, <1>2, <1>3, <1>4
  <1>. QED BY <1>5 DEF Goal

\* SETTLED is written by a call whose transaction was mined.
LEMMA RecordStep ==
  ASSUME FlowInv, [SystemNext]_systemVars, NEW r \in RequestId, record'[r] = "SETTLED"
  PROVE  record[r] = "SETTLED" \/ \E m \in Client : calls[m][r].at = "settled"
  <1>1. ASSUME NEW m \in Client, NEW q \in RequestId, RelayerStep(m, q)
        PROVE  record[r] = "SETTLED" \/ calls[m][r].at = "settled"
    <2>1. \/ UNCHANGED record
          \/ \E status \in {"RECEIVED", "VERIFIED", "FAILED"} : Mark(q, status)
          \/ Mark(q, "SETTLED") /\ calls[m][q].at = "settled"
      BY <1>1, Zenon DEF RelayerStep, CallStep, FindRecord, InsertReceived, UpdateReceived,
                  VerifyTransfer, NotFound, GetBridgeRequest, GetClaim, MarkVerified,
                  Settle, ChainCallFails, MarkSettled, MarkFailed, At
    <2>. QED BY <2>1 DEF Mark, FlowInv, FlowTypes, ServiceTypes
  <1>2. \/ UNCHANGED record
        \/ \E m \in Client, q \in RequestId : RelayerStep(m, q)
    BY DEF SystemNext, systemVars, serviceVars, ChainStep, NodeStep, PostLost,
           PostArrives, AnswerArrives, NoAnswer, Receive, ClientPosts, Crash, RelayerCrash
  <1>. QED BY <1>1, <1>2

\* A node takes a request for verified when its call was answered.
LEMMA VerifiedStep ==
  ASSUME FlowInv, [SystemNext]_systemVars, NEW n \in Node, NEW r \in RequestId,
         stage'[n][r] = "verified"
  PROVE  stage[n][r] = "verified" \/ calls[n][r].at = "ok"
  <1>1. ASSUME NEW m \in Node, NEW q \in RequestId,
               \/ NodeStep(m, q) \/ PostLost(m, q) \/ PostArrives(m, q) \/ NoAnswer(m, q)
        PROVE  stage[n][r] = "verified"
    <2>. DEFINE Other == \E from, to \in Stage : Advance(m, q, from, to) /\ to # "verified"
    <2>1. NodeStep(m, q) => Other
      BY DEF Stage, NodeStep, Detect, IsRequestClaimed, ClaimBridgeRequest, Decrypt,
                  UseTestDestination, TransferSPLToken, HandlerThrows
    <2>2. PostLost(m, q) \/ PostArrives(m, q) \/ NoAnswer(m, q) => Other
      BY DEF Stage, PostLost, PostArrives, NoAnswer, SubmitVerification, SubmissionEnds
    <2>3. Other
      BY <1>1, <2>1, <2>2
    <2>. QED BY <2>3 DEF Advance, FlowInv, FlowTypes, NodeTypes
  <1>2. ASSUME NEW m \in Node, NEW q \in RequestId, AnswerArrives(m, q)
        PROVE  stage[n][r] = "verified" \/ calls[n][r].at = "ok"
    <2>1. At(m, q, "ok") /\ \E from, to : Advance(m, q, from, to)
      BY <1>2 DEF AnswerArrives, SubmissionEnds
    <2>. QED BY <2>1 DEF At, Advance, FlowInv, FlowTypes, NodeTypes
  <1>3. ASSUME NEW m \in Node, NodeCrash(m)
        PROVE  stage[n][r] = "verified"
    BY <1>3 DEF NodeCrash, FlowInv, FlowTypes, NodeTypes
  <1>4. \/ UNCHANGED stage
        \/ \E m \in Node : NodeCrash(m)
        \/ \E m \in Node, q \in RequestId :
             \/ NodeStep(m, q) \/ PostLost(m, q) \/ PostArrives(m, q)
             \/ NoAnswer(m, q) \/ AnswerArrives(m, q)
    BY DEF SystemNext, systemVars, ChainStep, RelayerStep, ClientPosts, nodeVars, Crash, RelayerCrash
  <1>. QED BY <1>1, <1>2, <1>3, <1>4
-----------------------------------------------------------------------------
(***************************************************************************)
(* Who transfers.                                                           *)
(***************************************************************************)
AccessInv ==
  \A n \in Node, r \in RequestId :
    /\ n \in fheReaders[r] => n \in claimers[r]
    /\ destination[n][r] # "none" => n \in claimers[r]
    /\ transfers[n][r] # "none" => n \in claimers[r]

\* Provided that no test destination is configured, and that no account is both
\* a node's and a depositor's or the relayer's, only a node that claimed a
\* request transfers tokens for it: the path from the access list through the
\* decrypted destination to the transfer has no other entrance.
THEOREM ClaimersTransfer ==
  ASSUME ~TestDestination, Node \cap (User \cup RelayerAccount) = {}
  PROVE  SystemSpec => []OnlyClaimersTransfer
  <1>1. SystemInit => AccessInv
    BY DEF SystemInit, Init, NodeInit, AccessInv
  <1>2. FlowInv /\ AccessInv /\ [SystemNext]_systemVars => AccessInv'
    <2>. SUFFICES ASSUME FlowInv, AccessInv, [SystemNext]_systemVars,
                         NEW n \in Node, NEW r \in RequestId
                  PROVE  /\ n \in fheReaders'[r] => n \in claimers'[r]
                         /\ destination'[n][r] # "none" => n \in claimers'[r]
                         /\ transfers'[n][r] # "none" => n \in claimers'[r]
      BY DEF AccessInv
    <2>1. /\ n \in claimers[r] => n \in claimers'[r]
          /\ n \in fheReaders'[r] => n \in fheReaders[r] \/ n \in claimers'[r]
      BY AccessStep
    <2>2. \/ destination'[n][r] = destination[n][r]
          \/ destination'[n][r] = "none"
          \/ n \in fheReaders[r]
      BY DestinationStep
    <2>3. transfers'[n][r] = transfers[n][r] \/ transfers'[n][r] = destination[n][r]
      BY TransfersStep
    <2>. QED BY <2>1, <2>2, <2>3 DEF AccessInv
  <1>3. AccessInv => OnlyClaimersTransfer
    BY DEF AccessInv, OnlyClaimersTransfer
  <1>. QED BY <1>1, <1>2, <1>3, FlowInvHolds, PTL DEF SystemSpec
-----------------------------------------------------------------------------
(***************************************************************************)
(* What is paid passed the check on Solana.                                 *)
(***************************************************************************)
DeliveryInv ==
  /\ \A n \in Node, r \in RequestId :
       /\ destination[n][r] # "test" /\ transfers[n][r] # "test"
       /\ stage[n][r] = "decrypted" => destination[n][r] # "none"
       /\ n \in accepted[r] => transfers[n][r] # "none"
  /\ \A c \in Client, r \in RequestId :
       calls[c][r].at \in Checked => c \in accepted[r]

LEMMA DeliveryInit == SystemInit => DeliveryInv /\ PaidIsBacked
  <1>. SUFFICES ASSUME SystemInit PROVE DeliveryInv /\ PaidIsBacked
    OBVIOUS
  <1>1. DeliveryInv
    BY DEF SystemInit, NodeInit, ServiceInit, NoCall, DeliveryInv, Checked
  <1>2. PaidIsBacked
    BY DEF SystemInit, Init, NoRequest, PaidIsBacked
  <1>. QED BY <1>1, <1>2

LEMMA DeliveryStep ==
  ASSUME ~TestDestination, FlowInv, DeliveryInv, PaidIsBacked,
         [SystemNext]_systemVars
  PROVE  DeliveryInv' /\ PaidIsBacked'
  \* A transfer that reached a user is not undone, only repeated.
  <1>1. ASSUME NEW n \in Node, NEW r \in RequestId
        PROVE  /\ transfers'[n][r] # "test"
               /\ transfers[n][r] # "none" => transfers'[n][r] # "none"
               /\ transfers[n][r] # "none" => transfers[n][r] = "user"
               /\ transfers'[n][r] # "none" => transfers'[n][r] = "user"
    <2>1. \/ transfers'[n][r] = transfers[n][r]
          \/ stage[n][r] = "decrypted" /\ transfers'[n][r] = destination[n][r]
      BY TransfersStep
    <2>2. transfers[n][r] \in Place /\ destination[n][r] \in Place
      BY DEF FlowInv, FlowTypes, NodeTypes
    <2>. QED BY <2>1, <2>2 DEF DeliveryInv, Place
  <1>2. ASSUME NEW n \in Node, NEW r \in RequestId
        PROVE  /\ destination'[n][r] # "test"
               /\ stage'[n][r] = "decrypted" => destination'[n][r] # "none"
    <2>1. destination'[n][r] # "test"
      BY DestinationStep DEF DeliveryInv
    <2>2. stage'[n][r] = "decrypted" =>
            \/ stage[n][r] = "decrypted" /\ destination'[n][r] = destination[n][r]
            \/ destination'[n][r] # "none"
      BY DecryptedStep
    <2>. QED BY <2>1, <2>2 DEF DeliveryInv
  <1>3. ASSUME NEW n \in Node, NEW r \in RequestId, n \in accepted'[r]
        PROVE  transfers'[n][r] # "none"
    BY <1>1, <1>3, AcceptedStep DEF DeliveryInv
  <1>4. ASSUME NEW c \in Client, NEW r \in RequestId, calls'[c][r].at \in Checked
        PROVE  c \in accepted'[r]
    <2>1. calls[c][r].at \in Checked \/ c \in accepted'[r]
      BY <1>4, PointStep
    <2>2. accepted[r] \subseteq accepted'[r]
      BY AcceptedStep
    <2>. QED BY <2>1, <2>2 DEF DeliveryInv
  <1>5. DeliveryInv'
    BY <1>1, <1>2, <1>3, <1>4 DEF DeliveryInv
  <1>6. ASSUME NEW r \in RequestId, bridgeRequests'[r].finalized
        PROVE  /\ accepted'[r] # {}
               /\ \A n \in accepted'[r] \cap Node : transfers'[n][r] = "user"
    <2>1. bridgeRequests[r].finalized \/ \E c \in Client : calls[c][r].at = "settle"
      BY <1>6, PaidStep
    <2>2. accepted[r] # {}
      <3>1. CASE bridgeRequests[r].finalized
        BY <3>1 DEF PaidIsBacked
      <3>2. ASSUME NEW c \in Client, calls[c][r].at = "settle"
            PROVE  c \in accepted[r]
        BY <3>2 DEF DeliveryInv, Checked
      <3>. QED BY <2>1, <3>1, <3>2
    <2>3. accepted[r] \subseteq accepted'[r]
      BY AcceptedStep
    <2>4. ASSUME NEW n \in accepted'[r] \cap Node
          PROVE  transfers'[n][r] = "user"
      BY <1>1, <1>3
    <2>. QED BY <2>2, <2>3, <2>4
  <1>7. PaidIsBacked'
    BY <1>6 DEF PaidIsBacked
  <1>. QED BY <1>5, <1>7

\* Provided that no test destination is configured, and whatever other clients
\* POST: a deposit is paid out only after the check on Solana passed some POST for
\* it, and every node whose POST it passed brought tokens to the decrypted
\* destination.  Where only nodes POST, what is paid was therefore delivered; the
\* relayer's check alone does not give that, since it compares the POST with Solana
\* and not with the request.
THEOREM BackedWhenPaid ==
  ASSUME ~TestDestination
  PROVE  SystemSpec => []PaidIsBacked
  BY DeliveryInit, DeliveryStep, FlowInvHolds, PTL DEF SystemSpec
-----------------------------------------------------------------------------
(***************************************************************************)
(* What is reported is paid.                                                *)
(***************************************************************************)
AnswerInv ==
  \A c \in Client, r \in RequestId :
    calls[c][r].at \in {"settled", "ok"} => bridgeRequests[r].finalized

LEMMA ReportInit == SystemInit => AnswerInv /\ ReportedIsPaid
  BY DEF SystemInit, NodeInit, ServiceInit, NoCall, AnswerInv, ReportedIsPaid

LEMMA ReportStep ==
  ASSUME FlowInv, AnswerInv, ReportedIsPaid, [SystemNext]_systemVars
  PROVE  AnswerInv' /\ ReportedIsPaid'
  <1>1. ASSUME NEW r \in RequestId, bridgeRequests[r].finalized
        PROVE  bridgeRequests'[r].finalized
    BY <1>1, PaidStep
  <1>2. ASSUME NEW n \in Client, NEW r \in RequestId, calls'[n][r].at \in {"settled", "ok"}
        PROVE  bridgeRequests'[r].finalized
    <2>1. calls[n][r].at \in {"settled", "ok"} \/ bridgeRequests'[r].finalized
      BY <1>2, PointStep
    <2>. QED BY <2>1, <1>1 DEF AnswerInv
  <1>3. ASSUME NEW r \in RequestId, record'[r] = "SETTLED"
        PROVE  bridgeRequests'[r].finalized
    <2>1. record[r] = "SETTLED" \/ \E m \in Client : calls[m][r].at = "settled"
      BY <1>3, RecordStep
    <2>. QED BY <2>1, <1>1 DEF AnswerInv, ReportedIsPaid
  <1>4. ASSUME NEW n \in Node, NEW r \in RequestId, stage'[n][r] = "verified"
        PROVE  bridgeRequests'[r].finalized
    <2>1. stage[n][r] = "verified" \/ calls[n][r].at = "ok"
      BY <1>4, VerifiedStep
    <2>. QED BY <2>1, <1>1 DEF AnswerInv, ReportedIsPaid, Client
  <1>5. AnswerInv'
    BY <1>2 DEF AnswerInv
  <1>6. ReportedIsPaid'
    BY <1>3, <1>4 DEF ReportedIsPaid
  <1>. QED BY <1>5, <1>6

\* However calls for one request interleave on its row and whatever restarts: a
\* row at SETTLED and a node that reports a request verified are right, the
\* contract has paid.
THEOREM PaidWhenReported == SystemSpec => []ReportedIsPaid
  BY ReportInit, ReportStep, FlowInvHolds, PTL DEF SystemSpec
=============================================================================
