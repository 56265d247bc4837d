----------------------------- MODULE SolverNode -----------------------------
(***************************************************************************)
(* A solver node of the EVM-to-Solana direction                             *)
(* (node/src/bridge-evm-to-sol).                                            *)
(*                                                                          *)
(* Each BridgeInitiated event starts a handler; the handlers of a node run  *)
(* interleaved, and a step of one is the code between two awaits.  Nodes    *)
(* know nothing of each other but what the contract shows.  Nothing is      *)
(* persisted: a restart loses every handler and its status.                 *)
(*                                                                          *)
(* On Solana only where a transfer went is kept; the amount is always the   *)
(* request's, which the node converts as the relayer does.                  *)
(***************************************************************************)
EXTENDS NewRelayer

CONSTANT
  TestDestination  \* whether TEST_SOLANA_DESTINATION is configured

ASSUME NodeAssumption == TestDestination \in BOOLEAN

VARIABLES
  stage,        \* stage[n][r]: where n's handler of request r is
  destination,  \* destination[n][r]: solDest, whose address n obtained
  transfers,    \* transfers[n][r]: to whom n transferred on Solana for r
  nodeCrashes   \* restarts so far

\* History, for the properties only.
VARIABLES
  claimers,     \* claimers[r]: nodes that ever claimed r
  timely        \* timely[n]: requests delivered under n's own live claim

nodeVars == <<stage, destination, transfers, nodeCrashes, claimers, timely>>
-----------------------------------------------------------------------------
\* The status map shows "detected" until the claim is settled, and "transferred"
\* from the transfer until the relayer has verified it.
Stage == {"none", "detected", "claiming", "claimed", "decrypted", "transferred",
          "submitted", "verified", "unverified", "failed", "lost"}
Finished == {"verified", "unverified", "failed", "lost"}
Place == {"none", "user", "test"}

NodeInit ==
  /\ stage       = [n \in Node |-> [r \in RequestId |-> "none"]]
  /\ destination = [n \in Node |-> [r \in RequestId |-> "none"]]
  /\ transfers   = [n \in Node |-> [r \in RequestId |-> "none"]]
  /\ claimers    = [r \in RequestId |-> {}]
  /\ timely      = [n \in Node |-> {}]
  /\ nodeCrashes = 0

\* n's handler of r goes from one stage to another.
Advance(n, r, from, to) ==
  /\ stage[n][r] = from
  /\ stage' = [stage EXCEPT ![n][r] = to]
-----------------------------------------------------------------------------
\* The event reaches the node, at any time after the deposit.
Detect(n, r) ==
  /\ Exists(r)
  /\ Advance(n, r, "none", "detected")
  /\ UNCHANGED <<vars, destination, transfers, nodeCrashes, claimers, timely>>

\* A node that reads another's live claim goes on as if the claim were its own.
IsRequestClaimed(n, r) ==
  /\ Advance(n, r, "detected", IF Live(r) THEN "claimed" ELSE "claiming")
  /\ UNCHANGED <<vars, destination, transfers, nodeCrashes, claimers, timely>>

\* The claim is mined some time after the read; its receipt may not be seen.
ClaimBridgeRequest(n, r) ==
  /\ \E outcome \in {"claimed", "failed"} : Advance(n, r, "claiming", outcome)
  /\ \E bond \in BondValues : ClaimBridge(n, r, bond)
  /\ claimers' = [claimers EXCEPT ![r] = @ \cup {n}]
  /\ UNCHANGED <<destination, transfers, nodeCrashes, timely>>

\* Mutant: the gateway does not look at the access list.
DecryptUnlisted(n, r) ==
  /\ Advance(n, r, "claimed", "decrypted")
  /\ destination' = [destination EXCEPT ![n][r] = "user"]
  /\ UNCHANGED <<vars, transfers, nodeCrashes, claimers, timely>>

\* The user's destination, for an account the contract gave access.
Decrypt(n, r) ==
  /\ n \in fheReaders[r]
  /\ Advance(n, r, "claimed", "decrypted")
  /\ destination' = [destination EXCEPT ![n][r] = "user"]
  /\ UNCHANGED <<vars, transfers, nodeCrashes, claimers, timely>>

\* Mutant: a destination for tests is used in production.
UseTestDestinationAlways(n, r) ==
  /\ Advance(n, r, "claimed", "decrypted")
  /\ destination' = [destination EXCEPT ![n][r] = "test"]
  /\ UNCHANGED <<vars, transfers, nodeCrashes, claimers, timely>>

\* The decryption failed: the fallback, if there is one.
UseTestDestination(n, r) ==
  /\ TestDestination
  /\ Advance(n, r, "claimed", "decrypted")
  /\ destination' = [destination EXCEPT ![n][r] = "test"]
  /\ UNCHANGED <<vars, transfers, nodeCrashes, claimers, timely>>

\* Neither the claim nor its deadline is looked at again.  The transfer may
\* arrive although its confirmation fails.
TransferSPLToken(n, r) ==
  /\ \E outcome \in {"transferred", "failed"} : Advance(n, r, "decrypted", outcome)
  /\ transfers' = [transfers EXCEPT ![n][r] = destination[n][r]]
  /\ timely' =
       IF Live(r) /\ requestClaim[r].solver = n /\ destination[n][r] = "user"
       THEN [timely EXCEPT ![n] = @ \cup {r}] ELSE timely
  /\ UNCHANGED <<vars, destination, nodeCrashes, claimers>>

\* A call of the handler throws: a revert, a failed RPC, a token with no mapping.
\* The catch ends it; nothing is retried.
HandlerThrows(n, r) ==
  /\ \/ \E from \in {"detected", "claiming", "decrypted"} : Advance(n, r, from, "failed")
     \/ ~TestDestination /\ Advance(n, r, "claimed", "failed")
  /\ UNCHANGED <<vars, destination, transfers, nodeCrashes, claimers, timely>>

\* The one POST of the handler is sent.
SubmitVerification(n, r) ==
  /\ Advance(n, r, "transferred", "submitted")
  /\ UNCHANGED <<vars, destination, transfers, nodeCrashes, claimers, timely>>

\* It is answered, or after thirty seconds it is not: then it is only logged.
SubmissionEnds(n, r, success) ==
  /\ Advance(n, r, "submitted", IF success THEN "verified" ELSE "unverified")
  /\ UNCHANGED <<vars, destination, transfers, nodeCrashes, claimers, timely>>

\* The node restarts: handlers, status map and events not yet delivered are lost.
NodeCrash(n) ==
  /\ nodeCrashes' = nodeCrashes + 1
  /\ stage' = [stage EXCEPT ![n] =
                 [r \in RequestId |-> IF Exists(r) THEN "lost" ELSE "none"]]
  /\ destination' = [destination EXCEPT ![n] = [r \in RequestId |-> "none"]]
  /\ UNCHANGED <<vars, transfers, claimers, timely>>
=============================================================================
