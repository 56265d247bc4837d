--------------------------- MODULE SolToEvmProofs ---------------------------
(***************************************************************************)
(* Theorems about the Solana-to-EVM direction, for every set of requests,   *)
(* nodes and clients, and every number of restarts.                         *)
(*                                                                          *)
(* Nodes and relayer share no state but the deposit they are about, so the  *)
(* invariant has a part for each.  CallMoves says what one step of the      *)
(* relayer does for one call; the parts of the invariant need that lemma    *)
(* only.                                                                    *)
(***************************************************************************)
EXTENDS SolToEvm, BridgeLemmas

\* The types the parts of the invariant need (the pool's comes with PoolInv).
Types ==
  /\ stage \in [Node -> [RequestId -> Stage]]
  /\ record \in [RequestId -> Status \cup {"none"}]
  /\ calls \in [Client -> [RequestId -> Point]]
  /\ delivered \in [RequestId -> SUBSET Client] /\ crashes \in Nat
  /\ claimers \in [RequestId -> SUBSET Node]
  /\ found \in [RequestId -> SUBSET Client]
  /\ uncaught \in [RequestId -> SUBSET Client]

\* A node that is past its claim has claimed, and none is past its transfer.
NodeInv ==
  \A n \in Node, r \in RequestId :
    /\ stage[n][r] \in {"claimed", "decrypted"} => n \in claimers[r]
    /\ stage[n][r] # "transferred"

\* A call that checks the deposit names a recipient, and one that is past the check
\* found it.
Past == {"verified", "balance", "deliver", "receipt"}
CallInv ==
  /\ \A c \in Client, r \in RequestId :
       /\ calls[c][r] = "deposit" => c \in Poster
       /\ calls[c][r] \in Past => c \in found[r]
  /\ \A r \in RequestId : found[r] \subseteq Poster

\* A call whose delivery was made found the deposit, and is past the delivery.
PastDelivery == {"receipt", "failing", "failingLast", "error"}
Delivered(r) == {c \in found[r] : calls[c][r] \in PastDelivery}
DeliveryInv == \A r \in RequestId : delivered[r] \subseteq Delivered(r)

\* An open row has a call that will mark it, or one of its calls threw.
AfterRow == Running \ {"find", "insert", "update"}
LateCall(r) == \E c \in Client : calls[c][r] \in AfterRow \ {"deposit", "verified"}
OpenCall(r) == \E c \in Client : calls[c][r] \in AfterRow
RowInv ==
  crashes = 0 =>
    \A r \in RequestId :
      /\ record[r] # "SETTLED"
      /\ record[r] = "VERIFIED" => LateCall(r)
      /\ record[r] = "RECEIVED" => OpenCall(r) \/ uncaught[r] # {}

IInv == Types /\ NodeInv /\ CallInv /\ DeliveryInv /\ RowInv
-----------------------------------------------------------------------------
LEMMA InvInit == S2EInit => IInv
  <1>. SUFFICES ASSUME S2EInit PROVE IInv
    OBVIOUS
  <1>1. Types
    BY SolToEvmAssumption DEF S2EInit, Types, Stage, Status, Point
  <1>2. NodeInv /\ CallInv /\ RowInv
    BY DEF S2EInit, NodeInv, CallInv, RowInv, Past, Client
  <1>3. DeliveryInv
    BY DEF S2EInit, DeliveryInv
  <1>4. QED
    BY <1>1, <1>2, <1>3 DEF IInv
-----------------------------------------------------------------------------
(***************************************************************************)
(* The nodes.                                                               *)
(***************************************************************************)

\* A status changes for one request of one node.
LEMMA AdvanceFacts ==
  ASSUME Types, NEW n \in Node, NEW r \in RequestId, NEW from, NEW to \in Stage,
         Advance(n, r, from, to)
  PROVE  /\ stage' \in [Node -> [RequestId -> Stage]]
         /\ stage[n][r] = from /\ stage'[n][r] = to
         /\ \A m \in Node, q \in RequestId :
              m # n \/ q # r => stage'[m][q] = stage[m][q]
  BY DEF Advance, Types

\* The steps that leave what the relayer keeps alone.
NodeNext ==
  \/ \E n \in Node, r \in RequestId :
       \/ Detect(n, r) \/ ClaimRequest(n, r) \/ ResolveDestination(n, r)
       \/ TransferToken(n, r) \/ HandlerThrows(n, r)
  \/ \E r \in RequestId : WindowCloses(r)

NodeGoal ==
  /\ NodeInv
  /\ stage \in [Node -> [RequestId -> Stage]]
  /\ claimers \in [RequestId -> SUBSET Node]

\* The conversion leaves 16 of the 40 digits of an address.
LEMMA NoAddress == ~IsAddress(DestinationDigits)
  BY DEF IsAddress, DestinationDigits

LEMMA NodeStep ==
  ASSUME Types, NodeInv, NodeNext \/ (\E n \in Node : NodeCrash(n))
  PROVE  NodeGoal'
  <1>. USE DEF Stage
  <1>1. ASSUME NEW n \in Node, NEW r \in RequestId,
               \/ Detect(n, r) \/ HandlerThrows(n, r) \/ ResolveDestination(n, r)
               \/ TransferToken(n, r) \/ ClaimRequest(n, r)
        PROVE  NodeGoal'
    <2>1. /\ claimers' \in [RequestId -> SUBSET Node]
          /\ \A q \in RequestId : claimers[q] \subseteq claimers'[q]
      <3>1. CASE ClaimRequest(n, r)
        <4>1. claimers' = [claimers EXCEPT ![r] = @ \cup {n}]
          BY <3>1 DEF ClaimRequest
        <4>2. claimers \in [RequestId -> SUBSET Node]
          BY DEF Types
        <4>3. QED
          BY <4>1, <4>2
      <3>2. CASE ~ClaimRequest(n, r)
        <4>1. UNCHANGED chainVars
          BY <1>1, <3>2 DEF Detect, HandlerThrows, ResolveDestination, TransferToken
        <4>2. QED
          BY <4>1 DEF chainVars, Types
      <3>3. QED
        BY <3>1, <3>2
    <2>2. PICK from \in Stage, to \in Stage :
            /\ Advance(n, r, from, to)
            /\ \/ to \in {"detected", "failed"}
               \/ from = "claimed" /\ to = "decrypted"
               \/ to = "claimed" /\ n \in claimers'[r]
      BY <1>1, NoAddress DEF Detect, HandlerThrows, ResolveDestination, TransferToken,
                             ClaimRequest, Types
    <2>3. /\ stage' \in [Node -> [RequestId -> Stage]]
          /\ stage[n][r] = from /\ stage'[n][r] = to
          /\ \A m \in Node, q \in RequestId :
               m # n \/ q # r => stage'[m][q] = stage[m][q]
      BY <2>2, AdvanceFacts
    <2>4. /\ to \in {"claimed", "decrypted"} => n \in claimers'[r]
          /\ to # "transferred"
      BY <2>1, <2>2, <2>3 DEF NodeInv
    <2>. HIDE DEF Stage
    <2>5. NodeInv'
      BY <2>1, <2>3, <2>4 DEF NodeInv
    <2>6. QED
      BY <2>1, <2>3, <2>5 DEF NodeGoal
  <1>2. ASSUME NEW n \in Node, NodeCrash(n)
        PROVE  NodeGoal'
    <2>1. /\ stage' \in [Node -> [RequestId -> Stage]]
          /\ \A q \in RequestId : stage'[n][q] \in {"none", "lost"}
          /\ \A m \in Node \ {n} : stage'[m] = stage[m]
      BY <1>2 DEF NodeCrash, Types
    <2>2. claimers' = claimers
      BY <1>2 DEF NodeCrash, chainVars
    <2>3. QED
      BY <2>1, <2>2 DEF NodeInv, NodeGoal, Types
  <1>3. ASSUME NEW r \in RequestId, WindowCloses(r)
        PROVE  NodeGoal'
    BY <1>3 DEF WindowCloses, NodeGoal, NodeInv, Types
  <1>4. QED
    BY <1>1, <1>2, <1>3 DEF NodeNext
-----------------------------------------------------------------------------
(***************************************************************************)
(* The relayer.                                                             *)
(***************************************************************************)

RelayerNext ==
  \E c \in Client, r \in RequestId : ClientPosts(c, r) \/ CallStep(c, r) \/ WaitThrows(c, r)

\* What a step for c's call for r does to the call, the row and the deliveries.
Moves(c, r, from, to) ==
  /\ calls[c][r] = from /\ calls'[c][r] = to
Kept(r) ==
  /\ record'[r] = record[r]
  /\ found'[r] = found[r] /\ uncaught'[r] = uncaught[r]
  /\ delivered'[r] = delivered[r]

Marked(r, status) ==
  /\ record'[r] = status
  /\ found'[r] = found[r] /\ uncaught'[r] = uncaught[r]
  /\ delivered'[r] = delivered[r]

\* What a POST or a step of the relayer does for one call.
CallMove(c, r) ==
  \/ /\ \E from \in {"none", "find"}, to \in {"find", "insert", "update"} :
          Moves(c, r, from, to)
     /\ Kept(r)
  \/ Moves(c, r, "insert", "error") /\ Kept(r)
  \/ /\ \E from \in {"insert", "update"}, to \in {"deposit", "failingLast"} :
          Moves(c, r, from, to) /\ (to = "deposit" => c \in Poster)
     /\ Marked(r, "RECEIVED")
  \/ /\ Moves(c, r, "deposit", "verified")
     /\ record'[r] = record[r] /\ delivered'[r] = delivered[r]
     /\ uncaught'[r] = uncaught[r] /\ found'[r] = found[r] \cup {c}
  \/ /\ Moves(c, r, "deposit", "error")
     /\ record'[r] = record[r] /\ delivered'[r] = delivered[r]
     /\ found'[r] = found[r] /\ uncaught'[r] = uncaught[r] \cup {c}
  \/ Moves(c, r, "verified", "balance") /\ Marked(r, "VERIFIED")
  \/ /\ \E to \in {"deliver", "failingLast"} : Moves(c, r, "balance", to)
     /\ Kept(r)
  \/ Moves(c, r, "deliver", "failingLast") /\ Kept(r)
  \/ /\ \E to \in {"receipt", "failingLast"} : Moves(c, r, "deliver", to)
     /\ record'[r] = record[r]
     /\ found'[r] = found[r] /\ uncaught'[r] = uncaught[r]
     /\ delivered'[r] = delivered[r] \cup {c}
  \/ /\ \E from \in {"failing", "failingLast"}, to \in {"failingLast", "error"} :
          Moves(c, r, from, to)
     /\ Marked(r, "FAILED")
  \/ Moves(c, r, "receipt", "failing") /\ Kept(r)

\* The rest of what a step for one call says: nothing else changes.
CallFrame(c, r) ==
  /\ calls' \in [Client -> [RequestId -> Point]]
  /\ record' \in [RequestId -> Status \cup {"none"}]
  /\ delivered' \in [RequestId -> SUBSET Client]
  /\ found' \in [RequestId -> SUBSET Client]
  /\ uncaught' \in [RequestId -> SUBSET Client]
  /\ crashes' = crashes
  /\ \A d \in Client, q \in RequestId : d # c \/ q # r => calls'[d][q] = calls[d][q]
  /\ \A q \in RequestId \ {r} : Kept(q)

LEMMA GoToFacts ==
  ASSUME Types, NEW c \in Client, NEW r \in RequestId, NEW to \in Point,
         GoTo(c, r, to)
  PROVE  /\ calls' \in [Client -> [RequestId -> Point]]
         /\ calls'[c][r] = to
         /\ \A d \in Client, q \in RequestId :
              d # c \/ q # r => calls'[d][q] = calls[d][q]
  BY DEF GoTo, Types

LEMMA MarkFacts ==
  ASSUME Types, NEW r \in RequestId, NEW status \in Status, Mark(r, status)
  PROVE  /\ record' \in [RequestId -> Status \cup {"none"}]
         /\ record'[r] = status
         /\ \A q \in RequestId \ {r} : record'[q] = record[q]
  BY DEF Mark, Types

\* Steps that change the call alone.
LEMMA QuietMove ==
  ASSUME Types, NEW c \in Client, NEW r \in RequestId,
         NEW from \in Point, NEW to \in Point,
         calls[c][r] = from, GoTo(c, r, to),
         UNCHANGED <<record, found, uncaught, delivered, crashes>>
  PROVE  CallFrame(c, r) /\ Moves(c, r, from, to) /\ Kept(r)
  BY GoToFacts DEF CallFrame, Moves, Kept, Types

\* Steps that mark the row too.
LEMMA MarkingMove ==
  ASSUME Types, NEW c \in Client, NEW r \in RequestId,
         NEW from \in Point, NEW to \in Point, NEW status \in Status,
         calls[c][r] = from, GoTo(c, r, to), Mark(r, status),
         UNCHANGED <<found, uncaught, delivered, crashes>>
  PROVE  CallFrame(c, r) /\ Moves(c, r, from, to) /\ Marked(r, status)
  BY GoToFacts, MarkFacts DEF CallFrame, Moves, Kept, Marked, Types

LEMMA CallMoves ==
  ASSUME Types, NEW c \in Client, NEW r \in RequestId,
         ClientPosts(c, r) \/ CallStep(c, r) \/ WaitThrows(c, r)
  PROVE  CallFrame(c, r) /\ CallMove(c, r)
  <1>. DEFINE Goal == CallFrame(c, r) /\ CallMove(c, r)
              rest == <<found, uncaught, delivered, crashes>>
  <1>. USE DEF Point, Status
  <1>1. ClientPosts(c, r) => Goal
    BY QuietMove DEF ClientPosts, At, chainVars, CallMove
  <1>2. FindRecord(c, r) /\ UNCHANGED rest => Goal
    BY QuietMove DEF FindRecord, At, CallMove
  <1>3. UpdateReceived(c, r) /\ UNCHANGED rest => Goal
    <2>1. AfterReceived(c) \in {"deposit", "failingLast"}
          /\ (AfterReceived(c) = "deposit" => c \in Poster)
      BY DEF AfterReceived, Client
    <2>2. QED
      BY <2>1, MarkingMove DEF UpdateReceived, At, CallMove
  <1>4. InsertReceived(c, r) /\ UNCHANGED rest => Goal
    <2>1. AfterReceived(c) \in {"deposit", "failingLast"}
          /\ (AfterReceived(c) = "deposit" => c \in Poster)
      BY DEF AfterReceived, Client
    <2>2. CASE c \in Poster /\ record[r] = "none"
      BY <2>1, <2>2, MarkingMove DEF InsertReceived, At, CallMove
    <2>3. CASE ~(c \in Poster /\ record[r] = "none")
      BY <2>3, QuietMove DEF InsertReceived, At, CallMove
    <2>4. QED
      BY <2>2, <2>3
  <1>5. VerifyDeposit(c, r) => Goal
    <2>1. SUFFICES ASSUME VerifyDeposit(c, r) PROVE Goal
      OBVIOUS
    <2>2. /\ calls[c][r] = "deposit" /\ GoTo(c, r, "verified")
          /\ UNCHANGED <<record, uncaught, delivered, crashes>>
          /\ found' \in [RequestId -> SUBSET Client]
          /\ found'[r] = found[r] \cup {c}
          /\ \A q \in RequestId \ {r} : found'[q] = found[q]
      BY <2>1 DEF VerifyDeposit, At, Types, chainVars
    <2>3. CallFrame(c, r) /\ Moves(c, r, "deposit", "verified")
      BY <2>2, GoToFacts DEF CallFrame, Moves, Kept, Types
    <2>4. QED
      BY <2>2, <2>3 DEF CallMove
  <1>6. MarkVerified(c, r) /\ UNCHANGED rest => Goal
    BY MarkingMove DEF MarkVerified, At, CallMove
  <1>7. CheckBalance(c, r) /\ UNCHANGED rest => Goal
    <2>1. SUFFICES ASSUME CheckBalance(c, r), UNCHANGED rest PROVE Goal
      OBVIOUS
    <2>2. PICK to \in {"deliver", "failingLast"} : GoTo(c, r, to)
      BY <2>1 DEF CheckBalance
    <2>3. QED
      BY <2>1, <2>2, QuietMove DEF CheckBalance, At, CallMove
  <1>8. DeliveryFails(c, r) /\ UNCHANGED rest => Goal
    BY QuietMove DEF DeliveryFails, At, CallMove
  <1>9. MarkFailed(c, r) /\ UNCHANGED rest => Goal
    <2>1. SUFFICES ASSUME MarkFailed(c, r), UNCHANGED rest PROVE Goal
      OBVIOUS
    <2>2. PICK from \in {"failing", "failingLast"}, to \in {"failingLast", "error"} :
            calls[c][r] = from /\ GoTo(c, r, to)
      BY <2>1 DEF MarkFailed, At
    <2>3. QED
      BY <2>1, <2>2, MarkingMove DEF MarkFailed, CallMove
  <1>10. DeliverTokens(c, r) => Goal
    <2>1. SUFFICES ASSUME DeliverTokens(c, r) PROVE Goal
      OBVIOUS
    <2>2. PICK to \in {"receipt", "failingLast"} : GoTo(c, r, to)
      BY <2>1 DEF DeliverTokens
    <2>3. /\ calls[c][r] = "deliver" /\ UNCHANGED <<record, found, uncaught, crashes>>
          /\ delivered' \in [RequestId -> SUBSET Client]
          /\ delivered'[r] = delivered[r] \cup {c}
          /\ \A q \in RequestId \ {r} : delivered'[q] = delivered[q]
      BY <2>1 DEF DeliverTokens, At, Types
    <2>4. CallFrame(c, r) /\ Moves(c, r, "deliver", to)
      BY <2>2, <2>3, GoToFacts DEF CallFrame, Moves, Kept, Types
    <2>5. QED
      BY <2>2, <2>3, <2>4 DEF CallMove
  <1>11. DepositThrows(c, r) => Goal
    <2>1. SUFFICES ASSUME DepositThrows(c, r) PROVE Goal
      OBVIOUS
    <2>2. /\ calls[c][r] = "deposit" /\ GoTo(c, r, "error")
          /\ UNCHANGED <<record, found, delivered, crashes>>
          /\ uncaught' \in [RequestId -> SUBSET Client]
          /\ uncaught'[r] = uncaught[r] \cup {c}
          /\ \A q \in RequestId \ {r} : uncaught'[q] = uncaught[q]
      BY <2>1 DEF DepositThrows, At, Types, chainVars
    <2>3. CallFrame(c, r) /\ Moves(c, r, "deposit", "error")
      BY <2>2, GoToFacts DEF CallFrame, Moves, Kept, Types
    <2>4. QED
      BY <2>2, <2>3 DEF CallMove
  <1>12. WaitThrows(c, r) => Goal
    BY QuietMove DEF WaitThrows, At, chainVars, CallMove
  <1>. HIDE DEF Goal
  <1>13. CallStep(c, r) => Goal
    BY <1>2, <1>3, <1>4, <1>5, <1>6, <1>7, <1>8, <1>9, <1>10, <1>11
    DEF CallStep, chainVars
  <1>14. Goal
    BY <1>1, <1>12, <1>13
  <1>. QED
    BY <1>14 DEF Goal

\* A call is past the check of the deposit only where it found it.
LEMMA CallInvMove ==
  ASSUME Types, CallInv, NEW c \in Client, NEW r \in RequestId,
         CallFrame(c, r), CallMove(c, r)
  PROVE  CallInv'
  <1>1. /\ calls'[c][r] = "deposit" => c \in Poster
        /\ calls'[c][r] \in Past => c \in found'[r]
        /\ found[r] \subseteq found'[r]
        /\ found'[r] \subseteq Poster
    BY DEF CallInv, CallMove, Moves, Kept, Marked, Past
  <1>2. \A d \in Client : d # c => calls'[d][r] = calls[d][r]
    BY DEF CallFrame
  <1>3. \A d \in Client, q \in RequestId : q # r =>
          /\ calls'[d][q] = calls[d][q]
          /\ found'[q] = found[q]
    BY DEF CallFrame, Kept
  <1>4. \A q \in RequestId : q # r => found'[q] = found[q]
    BY DEF CallFrame, Kept
  <1>5. QED
    BY <1>1, <1>2, <1>3, <1>4 DEF CallInv

\* A call that delivers is past its check, and none comes back from a delivery.
LEMMA DeliveryInvMove ==
  ASSUME Types, CallInv, DeliveryInv, NEW c \in Client, NEW r \in RequestId,
         CallFrame(c, r), CallMove(c, r)
  PROVE  DeliveryInv'
  <1>1. ASSUME NEW q \in RequestId, q # r
        PROVE  delivered'[q] \subseteq Delivered(q)'
    <2>1. Delivered(q)' = Delivered(q) /\ delivered'[q] = delivered[q]
      BY <1>1 DEF Delivered, CallFrame, Kept, Types
    <2>2. QED
      BY <2>1 DEF DeliveryInv
  <1>2. Delivered(r) \subseteq Delivered(r)'
    <2>1. ASSUME NEW d \in Delivered(r)
          PROVE  d \in Delivered(r)'
      <3>1. d \in Client /\ d \in found[r] /\ calls[d][r] \in PastDelivery
        BY DEF Delivered, Types
      <3>2. d \in found'[r]
        BY <3>1 DEF CallMove, Kept, Marked
      <3>3. calls'[d][r] \in PastDelivery
        <4>1. CASE d # c
          BY <3>1, <4>1 DEF CallFrame
        <4>2. CASE d = c
          BY <3>1, <4>2 DEF CallMove, Moves, PastDelivery
        <4>3. QED
          BY <4>1, <4>2
      <3>4. QED
        BY <3>2, <3>3 DEF Delivered
    <2>2. QED
      BY <2>1
  <1>3. delivered'[r] \subseteq Delivered(r)'
    <2>1. CASE delivered'[r] = delivered[r]
      BY <1>2, <2>1 DEF DeliveryInv
    <2>2. CASE delivered'[r] # delivered[r]
      <3>1. /\ calls[c][r] = "deliver" /\ calls'[c][r] \in PastDelivery
            /\ found'[r] = found[r] /\ delivered'[r] = delivered[r] \cup {c}
        BY <2>2 DEF CallMove, Moves, Kept, Marked, PastDelivery
      <3>2. c \in found[r]
        BY <3>1 DEF CallInv, Past
      <3>3. c \in Delivered(r)'
        BY <3>1, <3>2 DEF Delivered
      <3>4. QED
        BY <1>2, <3>1, <3>3 DEF DeliveryInv
    <2>3. QED
      BY <2>1, <2>2
  <1>4. QED
    BY <1>1, <1>3 DEF DeliveryInv

\* A call leaves a row open only by throwing.
LEMMA RowInvMove ==
  ASSUME Types, RowInv, NEW c \in Client, NEW r \in RequestId,
         CallFrame(c, r), CallMove(c, r)
  PROVE  RowInv'
  <1>. SUFFICES ASSUME crashes = 0 PROVE RowInv'
    BY DEF RowInv, CallFrame
  <1>. USE DEF AfterRow, Running, Point
  <1>1. ASSUME NEW q \in RequestId, q # r
        PROVE  /\ record'[q] # "SETTLED"
               /\ record'[q] = "VERIFIED" => LateCall(q)'
               /\ record'[q] = "RECEIVED" => OpenCall(q)' \/ uncaught'[q] # {}
    <2>1. record'[q] = record[q] /\ uncaught'[q] = uncaught[q]
          /\ (OpenCall(q)' <=> OpenCall(q)) /\ (LateCall(q)' <=> LateCall(q))
      BY <1>1 DEF CallFrame, Kept, OpenCall, LateCall
    <2>2. QED
      BY <2>1 DEF RowInv
  <1>2. /\ record'[r] # "SETTLED"
        /\ record'[r] = "VERIFIED" => LateCall(r)'
        /\ record'[r] = "RECEIVED" => OpenCall(r)' \/ uncaught'[r] # {}
    <2>1. /\ record[r] # "SETTLED"
          /\ record[r] = "VERIFIED" => LateCall(r)
          /\ record[r] = "RECEIVED" => OpenCall(r) \/ uncaught[r] # {}
      BY DEF RowInv
    <2>2. /\ calls'[c][r] \in AfterRow => OpenCall(r)'
          /\ calls'[c][r] \in AfterRow \ {"deposit", "verified"} => LateCall(r)'
      BY DEF OpenCall, LateCall
    <2>3. /\ calls[c][r] \notin AfterRow /\ OpenCall(r) => OpenCall(r)'
          /\ calls[c][r] \notin AfterRow \ {"deposit", "verified"} /\ LateCall(r)
               => LateCall(r)'
      BY DEF OpenCall, LateCall, CallFrame
    <2>4. record'[r] # "SETTLED"
      BY <2>1 DEF CallMove, Kept, Marked
    <2>5. record'[r] = "VERIFIED" => LateCall(r)'
      <3>1. CASE calls'[c][r] \in AfterRow \ {"deposit", "verified"}
        BY <2>2, <3>1
      <3>2. CASE calls'[c][r] \notin AfterRow \ {"deposit", "verified"}
        <4>1. \/ record'[r] \in {"FAILED", "RECEIVED"}
              \/ /\ record'[r] = record[r]
                 /\ calls[c][r] \notin AfterRow \ {"deposit", "verified"}
          BY <3>2 DEF CallMove, Moves, Kept, Marked
        <4>2. QED
          BY <2>1, <2>3, <4>1
      <3>3. QED
        BY <3>1, <3>2
    <2>6. record'[r] = "RECEIVED" => OpenCall(r)' \/ uncaught'[r] # {}
      <3>1. CASE calls'[c][r] \in AfterRow
        BY <2>2, <3>1
      <3>2. CASE calls'[c][r] \notin AfterRow
        <4>1. \/ record'[r] = "FAILED"
              \/ uncaught'[r] = uncaught[r] \cup {c}
              \/ /\ record'[r] = record[r] /\ uncaught'[r] = uncaught[r]
                 /\ calls[c][r] \notin AfterRow
          BY <3>2 DEF CallMove, Moves, Kept, Marked
        <4>2. QED
          BY <2>1, <2>3, <4>1
      <3>3. QED
        BY <3>1, <3>2
    <2>7. QED
      BY <2>4, <2>5, <2>6
  <1>3. QED
    BY <1>1, <1>2 DEF RowInv
-----------------------------------------------------------------------------
\* What the relayer keeps, as a node's step sees it.
relayerVars == <<calls, record, found, uncaught, delivered, crashes>>

RelayerInv ==
  /\ calls \in [Client -> [RequestId -> Point]]
  /\ record \in [RequestId -> Status \cup {"none"}]
  /\ delivered \in [RequestId -> SUBSET Client] /\ crashes \in Nat
  /\ found \in [RequestId -> SUBSET Client]
  /\ uncaught \in [RequestId -> SUBSET Client]
  /\ CallInv /\ DeliveryInv /\ RowInv

LEMMA InvParts == IInv <=> NodeGoal /\ RelayerInv
  BY DEF IInv, NodeGoal, RelayerInv, Types

LEMMA RelayerKept == RelayerInv /\ UNCHANGED relayerVars => RelayerInv'
  BY DEF RelayerInv, relayerVars, CallInv, DeliveryInv, RowInv, Delivered, OpenCall,
         LateCall

LEMMA RelayerMove ==
  ASSUME IInv, NEW c \in Client, NEW r \in RequestId,
         CallFrame(c, r), CallMove(c, r)
  PROVE  RelayerInv'
  <1>0. CallInv'
    BY CallInvMove DEF IInv
  <1>1. CallInv' /\ DeliveryInv' /\ RowInv'
    BY <1>0, DeliveryInvMove, RowInvMove DEF IInv
  <1>2. QED
    BY <1>1 DEF RelayerInv, CallFrame, IInv, Types

\* A restart answers the running calls, which is as good as a failure.
LEMMA RelayerRestarts ==
  ASSUME IInv, RelayerCrash
  PROVE  RelayerInv'
  <1>. USE DEF IInv
  <1>1. /\ calls' \in [Client -> [RequestId -> Point]]
        /\ \A c \in Client, r \in RequestId :
             calls'[c][r] = IF calls[c][r] \in Running THEN "error" ELSE calls[c][r]
        /\ UNCHANGED <<record, found, uncaught, delivered>>
        /\ crashes' \in Nat /\ crashes' # 0
    BY DEF RelayerCrash, Types, chainVars, Point
  <1>2. CallInv'
    BY <1>1 DEF CallInv, Past, Running, Point
  <1>3. DeliveryInv'
    <2>1. \A r \in RequestId : Delivered(r) \subseteq Delivered(r)'
      BY <1>1 DEF Delivered, PastDelivery, Types
    <2>2. QED
      BY <1>1, <2>1 DEF DeliveryInv
  <1>4. RowInv'
    BY <1>1 DEF RowInv
  <1>5. QED
    BY <1>1, <1>2, <1>3, <1>4 DEF RelayerInv, Types

LEMMA InvStep == IInv /\ [S2ENext]_s2eVars => IInv'
  <1>. SUFFICES ASSUME IInv, [S2ENext]_s2eVars PROVE (NodeGoal /\ RelayerInv)'
    BY DEF IInv, NodeGoal, RelayerInv, Types
  <1>. DEFINE Goal == (NodeGoal /\ RelayerInv)'
  <1>0. Types /\ NodeInv /\ NodeGoal /\ RelayerInv
    BY InvParts DEF IInv
  <1>1. ASSUME NodeNext
        PROVE  Goal
    <2>1. UNCHANGED relayerVars
      BY <1>1 DEF NodeNext, Detect, ClaimRequest, ResolveDestination, TransferToken,
                  HandlerThrows, WindowCloses, chainVars, serviceVars, relayerVars
    <2>2. QED
      BY <1>0, <1>1, <2>1, NodeStep, RelayerKept
  <1>2. ASSUME NEW n \in Node, NodeCrash(n)
        PROVE  Goal
    <2>1. /\ UNCHANGED <<calls, record, found, uncaught, delivered>>
          /\ crashes' \in Nat /\ crashes' # 0
      BY <1>0, <1>2 DEF NodeCrash, chainVars, serviceVars, Types
    <2>2. RelayerInv'
      BY <1>0, <2>1 DEF RelayerInv, CallInv, DeliveryInv, RowInv, Delivered
    <2>3. QED
      BY <1>0, <1>2, <2>2, NodeStep
  <1>3. ASSUME NEW c \in Client, NEW r \in RequestId,
               ClientPosts(c, r) \/ CallStep(c, r) \/ WaitThrows(c, r)
        PROVE  Goal
    <2>1. UNCHANGED <<stage, claimers>>
      BY <1>3 DEF ClientPosts, CallStep, WaitThrows, DeliverTokens, DepositThrows,
                  VerifyDeposit, chainVars
    <2>2. NodeGoal'
      BY <1>0, <2>1 DEF NodeGoal, NodeInv
    <2>3. QED
      BY <1>0, <1>3, <2>2, CallMoves, RelayerMove
  <1>4. ASSUME RelayerCrash
        PROVE  Goal
    <2>1. UNCHANGED <<stage, claimers>>
      BY <1>4 DEF RelayerCrash, chainVars
    <2>2. NodeGoal'
      BY <1>0, <2>1 DEF NodeGoal, NodeInv
    <2>3. QED
      BY <1>4, <2>2, RelayerRestarts
  <1>5. ASSUME UNCHANGED s2eVars
        PROVE  Goal
    <2>1. UNCHANGED relayerVars /\ UNCHANGED <<stage, claimers>>
      BY <1>5 DEF s2eVars, chainVars, serviceVars, relayerVars
    <2>2. NodeGoal'
      BY <1>0, <2>1 DEF NodeGoal, NodeInv
    <2>3. QED
      BY <1>0, <2>1, <2>2, RelayerKept
  <1>. HIDE DEF Goal
  <1>6. QED
    <2>1. Goal
      BY <1>1, <1>2, <1>3, <1>4, <1>5 DEF S2ENext, NodeNext
    <2>2. QED
      BY <2>1 DEF Goal

THEOREM S2EInvHolds == S2ESpec => []IInv
  BY InvInit, InvStep, PTL DEF S2ESpec

\* Whatever Arcium reseals and however many nodes claim and restart, no node pays a
\* user: it resolves a destination only after its own claim, and the transfer to what
\* the conversion leaves of it is refused.
THEOREM S2ENodesNeverPay == S2ESpec => []NodesNeverPay
  <1>1. IInv => NodesNeverPay
    BY DEF IInv, NodeInv, NodesNeverPay
  <1>2. QED
    BY <1>1, S2EInvHolds, PTL

\* Nothing is delivered for a POST but one that names a recipient and that
\* verifyDeposit found on Solana, whatever is posted again, fails or restarts.
THEOREM S2EDeliveredByPosts == S2ESpec => []DeliveredByPosts
  <1>1. IInv => DeliveredByPosts
    BY DEF IInv, CallInv, DeliveryInv, Delivered, DeliveredByPosts
  <1>2. QED
    BY <1>1, S2EInvHolds, PTL

\* Once its calls are answered, a row says FAILED, or a call threw where nothing
\* catches it: no order of calls leaves it open otherwise.
THEOREM S2ERows == S2ESpec => []RowsOfAnsweredCalls
  <1>1. ASSUME IInv, crashes = 0, NEW r \in RequestId, Answered(r)
        PROVE  \/ record[r] \in {"none", "FAILED"}
               \/ record[r] = "RECEIVED" /\ uncaught[r] # {}
    <2>1. ~OpenCall(r) /\ ~LateCall(r)
      BY <1>1 DEF Answered, OpenCall, LateCall, AfterRow, Running
    <2>2. record[r] \in Status \cup {"none"}
      BY <1>1 DEF IInv, Types
    <2>3. QED
      BY <1>1, <2>1, <2>2 DEF IInv, RowInv, Status
  <1>2. IInv => RowsOfAnsweredCalls
    BY <1>1 DEF RowsOfAnsweredCalls
  <1>3. QED
    BY <1>2, S2EInvHolds, PTL
-----------------------------------------------------------------------------
(***************************************************************************)
(* The pool.                                                                *)
(***************************************************************************)

\* Powers of ten are positive: by induction, once the function is known to exist.
LEMMA Pow10Type == \A n \in Nat : Pow10[n] \in Nat \ {0}
  <1>. DEFINE V == Nat
              base == 1
              next == [q \in Nat \X V |-> 10 * q[2]]
              Is(f) == f = [n \in Nat |-> IF n = 0 THEN 1 ELSE 10 * f[n - 1]]
  <1>1. \E f : Is(f)
    <2>1. base \in V /\ next \in [Nat \X V -> V]
      OBVIOUS
    <2>2. \A n \in Nat, v \in V : next[<<n, v>>] = 10 * v
      OBVIOUS
    <2>. HIDE DEF V, base, next
    <2>3. PICK f \in [Nat -> V] : Recurs(f, base, next)
      BY <2>1, PrimitiveRecursion
    <2>4. f[0] = 1 /\ \A n \in Nat : f[n + 1] = 10 * f[n]
      BY <2>2, <2>3 DEF Recurs, base
    <2>5. \A n \in Nat : f[n] = IF n = 0 THEN 1 ELSE 10 * f[n - 1]
      <3>1. \A n \in Nat : n # 0 => n - 1 \in Nat /\ (n - 1) + 1 = n
        OBVIOUS
      <3>. QED BY <2>4, <3>1
    <2>6. Is(f)
      BY <2>3, <2>5
    <2>. QED BY <2>6
  <1>2. Pow10 = CHOOSE f : Is(f)
    BY DEF Pow10
  <1>3. Is(Pow10)
    <2>. HIDE DEF Is
    <2>. QED BY <1>1, <1>2
  <1>. DEFINE X == {n \in Nat : Pow10[n] \in Nat \ {0}}
  <1>4. 0 \in X
    BY <1>3
  <1>5. ASSUME NEW n \in X PROVE n + 1 \in X
    <2>1. Pow10[n + 1] = 10 * Pow10[n]
      <3>1. n + 1 \in Nat /\ n + 1 # 0 /\ (n + 1) - 1 = n
        OBVIOUS
      <3>. QED BY <1>3, <3>1
    <2>. QED BY <2>1
  <1>6. X = Nat
    <2>. HIDE DEF X
    <2>1. X \in SUBSET Nat
      BY DEF X
    <2>. QED BY <1>4, <1>5, <2>1, NatInd
  <1>. QED BY <1>6

LEMMA QuotientType ==
  ASSUME NEW a \in Nat, NEW b \in Nat \ {0}
  PROVE  a \div b \in Nat
  OBVIOUS

LEMMA EvmAmountType ==
  ASSUME NEW c \in Client, NEW r \in RequestId
  PROVE  EvmAmount(c, r) \in Nat
  <1>. DEFINE diff == EvmDecimals - SolDecimals
  <1>1. diff \in Int /\ Amount[c][r] \in Nat
    BY SolToEvmAssumption
  <1>2. CASE diff >= 0
    <2>1. Pow10[diff] \in Nat
      BY <1>1, <1>2, Pow10Type
    <2>2. Amount[c][r] * Pow10[diff] \in Nat
      BY <1>1, <2>1, ProductType
    <2>. QED BY <1>2, <2>2 DEF EvmAmount
  <1>3. CASE ~(diff >= 0)
    <2>1. -diff \in Nat
      BY <1>1, <1>3
    <2>2. Pow10[-diff] \in Nat \ {0}
      BY <2>1, Pow10Type
    <2>3. Amount[c][r] \div Pow10[-diff] \in Nat
      BY <1>1, <2>2, QuotientType
    <2>. QED BY <1>3, <2>3 DEF EvmAmount
  <1>. QED BY <1>2, <1>3

\* What each call has cost the pool.
Post == Poster \X RequestId
Cost(p) == IF p[1] \in delivered[p[2]] THEN EvmAmount(p[1], p[2]) ELSE 0
Deliveries == [p \in Post |-> Cost(p)]

PoolInv ==
  /\ claimed \subseteq RequestId /\ crashes \in 0..MaxCrashes /\ pool \in Nat
  /\ PoolIsShort

\* The amount of a call does not change.
LEMMA CostType ==
  ASSUME NEW p \in Post
  PROVE  /\ EvmAmount(p[1], p[2]) \in Nat
         /\ Cost(p) = IF p[1] \in delivered[p[2]] THEN EvmAmount(p[1], p[2]) ELSE 0
         /\ Cost(p)' = IF p[1] \in delivered'[p[2]] THEN EvmAmount(p[1], p[2]) ELSE 0
  <1>1. p[1] \in Client /\ p[2] \in RequestId
    BY DEF Post, Client
  <1>. QED BY <1>1, EvmAmountType DEF Cost, EvmAmount

LEMMA DeliveriesSummable ==
  Summable(Deliveries, Post) /\ Summable(Deliveries', Post)
  <1>1. IsFiniteSet(Post)
    BY SolToEvmAssumption, FS_Product DEF Post
  <1>2. \A p \in Post : Cost(p) \in Int /\ Cost(p)' \in Int
    BY CostType
  <1>3. /\ Deliveries \in [Post -> Int]
        /\ Deliveries' \in [Post -> Int]
    BY <1>2 DEF Deliveries
  <1>. QED BY <1>1, <1>3 DEF Summable

\* A delivery takes the amount of its call, and the contract holds as much.
LEMMA PoolDelivery ==
  ASSUME Types, CallInv, DeliveryInv, PoolInv,
         NEW c \in Client, NEW r \in RequestId, DeliverTokens(c, r)
  PROVE  PoolInv'
  <1>. DEFINE amount == EvmAmount(c, r)
              post == <<c, r>>
  <1>1. amount \in Nat /\ pool \in Nat /\ Pool \in Nat
    BY EvmAmountType, SolToEvmAssumption DEF PoolInv
  <1>2. /\ pool >= amount /\ pool' = pool - amount
        /\ delivered'[r] = delivered[r] \cup {c}
        /\ \A q \in RequestId \ {r} : delivered'[q] = delivered[q]
    BY DEF DeliverTokens, Types
  <1>3. post \in Post /\ c \notin delivered[r]
    <2>1. calls[c][r] = "deliver"
      BY DEF DeliverTokens, At
    <2>2. c \in Poster
      BY <2>1 DEF CallInv, Past
    <2>3. c \notin delivered[r]
      BY <2>1 DEF DeliveryInv, Delivered, PastDelivery
    <2>. QED BY <2>2, <2>3 DEF Post
  <1>4. Deliveries[post] = 0 /\ Deliveries'[post] = amount
    <2>1. Cost(post) = 0 /\ Cost(post)' = amount
      BY <1>2, <1>3, CostType
    <2>. QED BY <1>3, <2>1 DEF Deliveries
  <1>5. \A p \in Post \ {post} : Deliveries[p] = Deliveries'[p]
    <2>1. ASSUME NEW p \in Post, p # post
          PROVE  p[1] \in delivered[p[2]] <=> p[1] \in delivered'[p[2]]
      <3>1. p[1] # c \/ p[2] # r
        BY <2>1 DEF Post
      <3>. QED BY <1>2, <3>1 DEF Post
    <2>2. ASSUME NEW p \in Post, p # post
          PROVE  Cost(p) = Cost(p)'
      BY <2>1, <2>2, CostType
    <2>. QED BY <2>2 DEF Deliveries
  <1>. HIDE DEF amount, post
  <1>6. SumFunction(Deliveries') =
          SumFunction(Deliveries) - Deliveries[post] + Deliveries'[post]
    BY <1>3, <1>5, DeliveriesSummable, SumUpdate
  <1>7. SumFunction(Deliveries) \in Int
    BY DeliveriesSummable, SumType
  <1>8. pool = Pool - SumFunction(Deliveries)
    BY DEF PoolInv, PoolIsShort, Deliveries, Cost, Post
  <1>9. pool' = Pool - SumFunction(Deliveries')
    BY <1>1, <1>2, <1>4, <1>6, <1>7, <1>8
  <1>10. PoolIsShort'
    BY <1>9 DEF PoolIsShort, Deliveries, Cost, Post
  <1>11. pool' \in Nat
    BY <1>1, <1>2
  <1>. QED BY <1>10, <1>11 DEF PoolInv, DeliverTokens

LEMMA PoolKept ==
  ASSUME PoolInv, UNCHANGED <<pool, delivered>>, claimed' \subseteq RequestId,
         crashes' \in 0..MaxCrashes
  PROVE  PoolInv'
  BY DEF PoolInv, PoolIsShort, EvmAmount

LEMMA PoolStep == IInv /\ PoolInv /\ [S2ENext]_s2eVars => PoolInv'
  <1>. SUFFICES ASSUME IInv, PoolInv, [S2ENext]_s2eVars PROVE PoolInv'
    OBVIOUS
  <1>1. Types /\ CallInv /\ DeliveryInv
    BY DEF IInv
  <1>2. CASE \E c \in Client, r \in RequestId : DeliverTokens(c, r)
    BY <1>1, <1>2, PoolDelivery
  <1>3. CASE ~\E c \in Client, r \in RequestId : DeliverTokens(c, r)
    <2>1. UNCHANGED <<pool, delivered>>
      BY <1>3 DEF S2ENext, Detect, ClaimRequest, ResolveDestination, TransferToken,
         HandlerThrows, ClientPosts, CallStep, VerifyDeposit, DepositThrows,
         WaitThrows, WindowCloses, NodeCrash, RelayerCrash, s2eVars, chainVars
    <2>2. claimed' \subseteq RequestId
      BY <1>3 DEF S2ENext, Detect, ClaimRequest, ResolveDestination, TransferToken,
         HandlerThrows, ClientPosts, CallStep, VerifyDeposit, DepositThrows,
         WaitThrows, WindowCloses, NodeCrash, RelayerCrash, s2eVars, chainVars, PoolInv
    <2>3. crashes' \in 0..MaxCrashes
      <3>1. crashes' = crashes \/ (crashes < MaxCrashes /\ crashes' = crashes + 1)
        BY <1>3 DEF S2ENext, Detect, ClaimRequest, ResolveDestination, TransferToken,
           HandlerThrows, ClientPosts, CallStep, VerifyDeposit, DepositThrows,
           WaitThrows, WindowCloses, NodeCrash, RelayerCrash, s2eVars
      <3>. QED BY <3>1, SolToEvmAssumption DEF PoolInv
    <2>. QED BY <2>1, <2>2, <2>3, PoolKept
  <1>. QED BY <1>2, <1>3

LEMMA PoolInit == S2EInit => PoolInv
  <1>. SUFFICES ASSUME S2EInit PROVE PoolInv
    OBVIOUS
  <1>2. SumFunction(Deliveries) = 0
    <2>1. ASSUME NEW p \in Post PROVE Cost(p) = 0
      BY CostType DEF S2EInit, Post
    <2>2. \A p \in Post : Deliveries[p] = 0
      BY <2>1 DEF Deliveries
    <2>. QED BY <2>2, DeliveriesSummable, SumZero
  <1>3. PoolIsShort
    <2>1. pool = Pool /\ Pool \in Nat
      BY SolToEvmAssumption DEF S2EInit
    <2>2. pool = Pool - SumFunction(Deliveries)
      BY <1>2, <2>1
    <2>. QED BY <2>2 DEF PoolIsShort, Deliveries, Cost, Post
  <1>. QED BY <1>3, SolToEvmAssumption DEF S2EInit, PoolInv

LEMMA PoolHolds == S2ESpec => []PoolInv
  BY S2EInvHolds, PoolInit, PoolStep, PTL DEF S2ESpec

\* Every reachable state is well typed: the pool is never overdrawn.
THEOREM S2ETypeCorrect == S2ESpec => []S2ETypeOK
  <1>1. IInv /\ PoolInv => S2ETypeOK
    BY DEF IInv, Types, PoolInv, S2ETypeOK
  <1>. QED BY <1>1, S2EInvHolds, PoolHolds, PTL

\* What the pool lacks is what the POSTs named that verifyDeposit found and that were
\* delivered, each once, in whatever decimals the token has.
THEOREM S2EDeliveriesArePosted == S2ESpec => []DeliveriesArePosted
  <1>1. PoolInv => PoolIsShort
    BY DEF PoolInv
  <1>. QED BY <1>1, PoolHolds, S2EDeliveredByPosts, PTL DEF DeliveriesArePosted
=============================================================================
