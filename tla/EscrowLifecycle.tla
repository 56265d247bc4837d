--------------------------- MODULE EscrowLifecycle ---------------------------
(***************************************************************************)
(* What an escrow of the bridge promises, on whichever chain it lives, with *)
(* fees, bonds, configuration and balances left out:                        *)
(*   - a request's deposit is locked until it is paid, whole, exactly once; *)
(*   - one solver at a time holds a request, and nobody takes it from him   *)
(*     before his deadline;                                                 *)
(*   - only the holder is paid, and only while his deadline has not passed. *)
(* At the deadline itself both payment and loss of the claim are allowed:   *)
(* NewRelayer.sol is that permissive, the Solana program is stricter.       *)
(***************************************************************************)
EXTENDS Integers

CONSTANTS
  RequestId,  \* the requests there may be
  Solver,     \* the accounts that may hold a request
  NoSolver    \* holder of a request nobody holds, not a Solver

VARIABLES
  phase,   \* phase[r]: "none", "open", "claimed" or "paid"
  holder,  \* holder[r]: the solver that holds r, or NoSolver
  expiry,  \* expiry[r]: deadline of the holder's claim
  locked,  \* locked[r]: tokens held for r
  payee,   \* payee[r]: the solver r was paid to, or NoSolver
  clock    \* the chain's time

vars == <<phase, holder, expiry, locked, payee, clock>>

Phase == {"none", "open", "claimed", "paid"}

Init ==
  /\ phase  = [r \in RequestId |-> "none"]
  /\ holder = [r \in RequestId |-> NoSolver]
  /\ expiry = [r \in RequestId |-> 0]
  /\ locked = [r \in RequestId |-> 0]
  /\ payee  = [r \in RequestId |-> NoSolver]
  /\ clock \in Nat

\* Any deposit may be locked.
Open(r) ==
  /\ phase[r] = "none"
  /\ locked'[r] \in Nat
  /\ phase'  = [phase EXCEPT ![r] = "open"]
  /\ locked' = [locked EXCEPT ![r] = locked'[r]]
  /\ UNCHANGED <<holder, expiry, payee, clock>>

MayChangeHands(r) ==
  \/ phase[r] = "open"
  \/ phase[r] = "claimed" /\ clock >= expiry[r]

\* Any deadline that has not passed may be given.
Claim(r, s) ==
  /\ MayChangeHands(r)
  /\ expiry'[r] \in Nat /\ expiry'[r] >= clock
  /\ phase'  = [phase EXCEPT ![r] = "claimed"]
  /\ holder' = [holder EXCEPT ![r] = s]
  /\ expiry' = [expiry EXCEPT ![r] = expiry'[r]]
  /\ UNCHANGED <<locked, payee, clock>>

Release(r) ==
  /\ phase[r] = "claimed" /\ clock >= expiry[r]
  /\ phase'  = [phase EXCEPT ![r] = "open"]
  /\ holder' = [holder EXCEPT ![r] = NoSolver]
  /\ expiry' = [expiry EXCEPT ![r] = 0]
  /\ UNCHANGED <<locked, payee, clock>>

Pay(r) ==
  /\ phase[r] = "claimed" /\ clock <= expiry[r]
  /\ phase'  = [phase EXCEPT ![r] = "paid"]
  /\ payee'  = [payee EXCEPT ![r] = holder[r]]
  /\ holder' = [holder EXCEPT ![r] = NoSolver]
  /\ expiry' = [expiry EXCEPT ![r] = 0]
  /\ locked' = [locked EXCEPT ![r] = 0]
  /\ UNCHANGED clock

AdvanceClock ==
  /\ clock' \in Nat /\ clock' > clock
  /\ UNCHANGED <<phase, holder, expiry, locked, payee>>

Next ==
  \/ \E r \in RequestId :
       \/ Open(r)
       \/ \E s \in Solver : Claim(r, s)
       \/ Release(r)
       \/ Pay(r)
  \/ AdvanceClock

Spec == Init /\ [][Next]_vars
=============================================================================
