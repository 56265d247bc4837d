------------------------ MODULE VerificationService ------------------------
(***************************************************************************)
(* The relayer's handler of POST verify-bridge/evm-to-sol                   *)
(* (relayer/src/verification, with its repository and chain clients).       *)
(*                                                                          *)
(* A call is the handler of one client's POST for one request.  Calls run   *)
(* interleaved, a step being the code between two awaits, and share the     *)
(* database row of their request.  The row survives a restart of the        *)
(* relayer, calls do not, and nothing resumes them.                         *)
(*                                                                          *)
(* A client is a solver node or anyone else who may POST.  What a           *)
(* POST says of the transfer -- signature, destination, amount, token -- is *)
(* checked against Solana and against nothing else: it is not compared with *)
(* the request, and the DTO's constraints are not enforced.                 *)
(*                                                                          *)
(* Of the row only `status` is kept.  The repository's mark methods find    *)
(* the row and save it: rows are never deleted and the status is written    *)
(* whatever it was, so the two count as one step.                           *)
(***************************************************************************)
EXTENDS NewRelayer

CONSTANTS
  Poster,         \* clients that are no nodes
  MaxTries        \* `tries` of getTxWithRetry

ASSUME ServiceAssumption ==
  Poster \cap Node = {} /\ MaxTries \in Nat \ {0}

Client == Node \cup Poster

VARIABLES
  record,         \* record[r]: status of the row of r
  calls,          \* calls[c][r]: the handler of c's POST for r
  relayerCrashes  \* restarts so far

serviceVars == <<record, calls, relayerCrashes>>
-----------------------------------------------------------------------------
BridgeStatus == {"RECEIVED", "VERIFIED", "SETTLED", "FAILED"}

\* What the call does next, or how it was answered; `tries` counts the polls of
\* getTxWithRetry.
Point == {"none", "find", "insert", "update", "transfer", "request", "claim",
          "verified", "settle", "settled", "failing", "ok", "error"}
Running == Point \ {"none", "ok", "error"}

NoCall == [at |-> "none", tries |-> 0]

ServiceInit ==
  /\ record = [r \in RequestId |-> "none"]
  /\ calls  = [c \in Client |-> [r \in RequestId |-> NoCall]]
  /\ relayerCrashes = 0

At(c, r, point) == calls[c][r].at = point
GoTo(c, r, point) == calls' = [calls EXCEPT ![c][r] = [at |-> point, tries |-> 0]]

Mark(r, status) == record' = [record EXCEPT ![r] = status]
-----------------------------------------------------------------------------
\* The POST arrives.
Receive(c, r) ==
  /\ At(c, r, "none")
  /\ GoTo(c, r, "find")
  /\ UNCHANGED <<vars, record, relayerCrashes>>

\* upsertReceived looks for the row, and later saves a new one or the one found.
FindRecord(c, r) ==
  /\ At(c, r, "find")
  /\ GoTo(c, r, IF record[r] = "none" THEN "insert" ELSE "update")
  /\ UNCHANGED <<vars, record, relayerCrashes>>

UpdateReceived(c, r) ==
  /\ At(c, r, "update")
  /\ \/ Mark(r, "RECEIVED") /\ GoTo(c, r, "transfer")
     \/ c \in Poster /\ GoTo(c, r, "error") /\ UNCHANGED record
  /\ UNCHANGED <<vars, relayerCrashes>>

\* requestId is a unique index, so the second of two inserts throws; so does a
\* column the POST of another client leaves empty.  Neither is caught.
InsertReceived(c, r) ==
  /\ At(c, r, "insert")
  /\ \/ record[r] = "none" /\ Mark(r, "RECEIVED") /\ GoTo(c, r, "transfer")
     \/ /\ record[r] # "none" \/ c \in Poster
        /\ GoTo(c, r, "error") /\ UNCHANGED record
  /\ UNCHANGED <<vars, relayerCrashes>>

\* Mutant: one try more.
NotFoundOneMore(c, r) ==
  /\ At(c, r, "transfer")
  /\ IF calls[c][r].tries < MaxTries
     THEN calls' = [calls EXCEPT ![c][r].tries = @ + 1]
     ELSE GoTo(c, r, "failing")
  /\ UNCHANGED <<vars, record, relayerCrashes>>

\* Solana does not know the transaction, or not yet: the next try, or failure.
NotFound(c, r) ==
  /\ At(c, r, "transfer")
  /\ IF calls[c][r].tries + 1 < MaxTries
     THEN calls' = [calls EXCEPT ![c][r].tries = @ + 1]
     ELSE GoTo(c, r, "failing")
  /\ UNCHANGED <<vars, record, relayerCrashes>>

\* `arrived`: the POST is well-formed and its signature is that of a transfer of
\* the POST's amount to the POST's destination.
VerifyTransfer(c, r, arrived) ==
  /\ At(c, r, "transfer")
  /\ GoTo(c, r, IF arrived THEN "request" ELSE "failing")
  /\ UNCHANGED <<vars, record, relayerCrashes>>

GetBridgeRequest(c, r) ==
  /\ At(c, r, "request")
  /\ GoTo(c, r, IF Exists(r) /\ ~bridgeRequests[r].finalized THEN "claim"
                ELSE "failing")
  /\ UNCHANGED <<vars, record, relayerCrashes>>

\* Whose claim it is is not compared with who transferred.
GetClaim(c, r) ==
  /\ At(c, r, "claim")
  /\ GoTo(c, r, IF Claimed(r) /\ now <= requestClaim[r].deadline THEN "verified"
                ELSE "failing")
  /\ UNCHANGED <<vars, record, relayerCrashes>>

MarkVerified(c, r) ==
  /\ At(c, r, "verified")
  /\ Mark(r, "VERIFIED")
  /\ GoTo(c, r, "settle")
  /\ UNCHANGED <<vars, relayerCrashes>>

\* The transaction pays; the relayer may fail to learn of it.
Settle(c, r) ==
  /\ At(c, r, "settle")
  /\ VerifyAndSettle(r)
  /\ \E outcome \in {"settled", "failing"} : GoTo(c, r, outcome)
  /\ UNCHANGED <<record, relayerCrashes>>

\* Mutant: the throw is not caught, as that of verifyDeposit in the handler of the
\* other direction is not.
ChainCallUncaught(c, r) ==
  /\ \E point \in {"transfer", "request", "claim", "settle"} : At(c, r, point)
  /\ GoTo(c, r, "error")
  /\ UNCHANGED <<vars, record, relayerCrashes>>

\* A read throws or gives nothing, or the transaction reverts.
ChainCallFails(c, r) ==
  /\ \E point \in {"transfer", "request", "claim", "settle"} : At(c, r, point)
  /\ GoTo(c, r, "failing")
  /\ UNCHANGED <<vars, record, relayerCrashes>>

MarkSettled(c, r) ==
  /\ At(c, r, "settled")
  /\ Mark(r, "SETTLED")
  /\ GoTo(c, r, "ok")
  /\ UNCHANGED <<vars, relayerCrashes>>

\* Mutant: the failure of a call is recorded as the success of another.
MarkFailedSettled(c, r) ==
  /\ At(c, r, "failing")
  /\ Mark(r, "SETTLED")
  /\ GoTo(c, r, "ok")
  /\ UNCHANGED <<vars, relayerCrashes>>

MarkFailed(c, r) ==
  /\ At(c, r, "failing")
  /\ Mark(r, "FAILED")
  /\ GoTo(c, r, "error")
  /\ UNCHANGED <<vars, relayerCrashes>>

RelayerCrash ==
  /\ relayerCrashes' = relayerCrashes + 1
  /\ calls' = [c \in Client |-> [r \in RequestId |->
                 IF calls[c][r].at \in Running
                 THEN [at |-> "error", tries |-> 0] ELSE calls[c][r]]]
  /\ UNCHANGED <<vars, record>>

\* What the event loop does for a call once the awaited answer is there.
CallStep(c, r, arrived) ==
  \/ FindRecord(c, r) \/ InsertReceived(c, r) \/ UpdateReceived(c, r)
  \/ VerifyTransfer(c, r, arrived) \/ NotFound(c, r)
  \/ GetBridgeRequest(c, r) \/ GetClaim(c, r) \/ MarkVerified(c, r)
  \/ Settle(c, r) \/ ChainCallFails(c, r)
  \/ MarkSettled(c, r) \/ MarkFailed(c, r)
=============================================================================
