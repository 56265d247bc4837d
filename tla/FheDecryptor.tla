---------------------------- MODULE FheDecryptor ----------------------------
(***************************************************************************)
(* How a solver node decrypts destinations (node/src/fhe): the FHE instance *)
(* made while the node already receives events, the authorization a node    *)
(* signs for its key pair, kept in memory and in a file, and the            *)
(* decryptions that share it.                                               *)
(*                                                                          *)
(* A decryption is a call of decryptSolanaAddress, which comes when the     *)
(* node has put up its bond.  Calls run interleaved, a step being the code  *)
(* between two awaits.  A signature is its key pair, named by the start of  *)
(* the process that generated it, and the time it is valid from; the node   *)
(* decrypts for one contract, so the map in memory has one entry.           *)
(*                                                                          *)
(* Reading the file takes its content at one step and gives it to the call  *)
(* at a later one.  Writing empties it first; of two writes at once either  *)
(* may be what is left, or a mixture.                                       *)
(***************************************************************************)
EXTENDS Integers, FiniteSets

CONSTANTS
  Decryption,
  Validity,    \* how long a signature is valid: durationDays
  MaxStarts,   \* bound on starts of the process
  MaxDays      \* bound on time

ASSUME FheDecryptorAssumption ==
  /\ Validity \in Nat \ {0}
  /\ MaxStarts \in Nat \ {0} /\ MaxDays \in Nat

VARIABLES
  process,     \* start: how many there were; fhe: the instance; keypair: of the instance
  memory,      \* signatureCache: the one signature in it, or none
  storage,     \* FileStringStorage: loaded, and the copy of the file
  file,        \* signatures.json: "absent", "text" or "garbage", and its signatures
  decryptions, \* decryptions[d]: where the call is, the signature it has made,
               \* and what it has read of the file or is writing to it
  day

fheVars == <<process, memory, storage, file, decryptions, day>>
-----------------------------------------------------------------------------
NoSignature == [key |-> 0, from |-> 0]
Signature == [key : 1..MaxStarts, from : 0..MaxDays]
IsValid(s) == s # NoSignature /\ day < s.from + Validity

File == [state : {"absent", "text", "garbage"}, signatures : SUBSET Signature]
NoFile == [state |-> "absent", signatures |-> {}]

Step == {"none", "fetch", "load", "read", "parse", "create", "sign", "save", "persist",
         "write", "decrypt", "done", "notReady", "refused", "failed", "lost"}
Ended == {"done", "notReady", "refused", "failed", "lost"}
NoDecryption == [at |-> "none", signature |-> NoSignature, content |-> NoFile]

FheInit ==
  /\ process = [start |-> 1, fhe |-> "starting", keypair |-> 0]
  /\ memory = NoSignature
  /\ storage = [loaded |-> FALSE, cache |-> {}]
  /\ \E state \in {"absent", "text", "garbage"} :
       file = [state |-> state, signatures |-> {}]
  /\ decryptions = [d \in Decryption |-> NoDecryption]
  /\ day = 0

At(d, step) == decryptions[d].at = step
With(d, step, s, content) ==
  decryptions' = [decryptions EXCEPT
                    ![d] = [at |-> step, signature |-> s, content |-> content]]
Goto(d, step, s) == With(d, step, s, NoFile)
-----------------------------------------------------------------------------
(* The process *)

\* initialize, against its 30 seconds: a failure is logged, and the node goes on
\* without an instance.
Initialized ==
  /\ process.fhe = "starting"
  /\ \/ process' = [process EXCEPT !.fhe = "ready", !.keypair = process.start]
     \/ process' = [process EXCEPT !.fhe = "off"]
  /\ memory' = NoSignature
  /\ UNCHANGED <<storage, file, decryptions, day>>

\* A restart: the file is what it is, emptied where a write was on its way.
Restart ==
  /\ process.start < MaxStarts
  /\ process' = [start |-> process.start + 1, fhe |-> "starting", keypair |-> 0]
  /\ memory' = NoSignature
  /\ storage' = [loaded |-> FALSE, cache |-> {}]
  /\ decryptions' = [d \in Decryption |->
       IF decryptions[d].at \in Ended \cup {"none"} THEN decryptions[d]
       ELSE [NoDecryption EXCEPT !.at = "lost"]]
  /\ UNCHANGED <<file, day>>

DayPasses ==
  /\ day < MaxDays /\ day' = day + 1
  /\ UNCHANGED <<process, memory, storage, file, decryptions>>
-----------------------------------------------------------------------------
(* The file *)

Writing(d) == decryptions[d].at \in {"create", "write"}
Emptied == file' = [state |-> "garbage", signatures |-> {}]
Written(d, signatures) ==
  \E state \in IF \E e \in Decryption \ {d} : Writing(e)
               THEN {"text", "garbage"} ELSE {"text"} :
    file' = [state |-> state, signatures |-> IF state = "text" THEN signatures ELSE {}]

\* Mutant: the key of the storage leaves out the public key.
StoredForAny(cache) ==
  {s \in cache : IsValid(s)}

\* The signature that storage has for the key pair of the process.
Stored(cache) ==
  {s \in cache : s.key = process.keypair /\ IsValid(s)}

\* Mutant: an entry is added, not replaced.
PutBeside(cache, s) == cache \cup {s}

Put(cache, s) == {t \in cache : t.key # s.key} \cup {s}

-----------------------------------------------------------------------------
(* decryptSolanaAddress *)

Begin(d) ==
  /\ At(d, "none")
  /\ Goto(d, IF process.fhe = "ready" THEN "fetch" ELSE "notReady", NoSignature)
  /\ UNCHANGED <<process, memory, storage, file, day>>

\* Mutant: whatever is in memory is used.
EnsureSignatureUnchecked(d) ==
  /\ At(d, "fetch")
  /\ memory' = memory
  /\ IF memory # NoSignature THEN Goto(d, "decrypt", memory)
     ELSE Goto(d, "load", NoSignature)
  /\ UNCHANGED <<process, storage, file, day>>

\* The request has been read; a signature in memory is used while it is valid.
EnsureSignature(d) ==
  /\ At(d, "fetch")
  /\ IF IsValid(memory)
     THEN Goto(d, "decrypt", memory) /\ UNCHANGED memory
     ELSE Goto(d, "load", NoSignature) /\ memory' = NoSignature
  /\ UNCHANGED <<process, storage, file, day>>

\* loadOrSign has its signature: it becomes the node's.
Obtained(d, s) ==
  /\ Goto(d, "decrypt", s)
  /\ memory' = s
  /\ process' = [process EXCEPT !.keypair = s.key]

\* Mutant: a file that cannot be parsed is an error of the decryption.
LoadThrows(d) == Goto(d, "failed", NoSignature)

\* A file that cannot be parsed throws, and that is caught.
LoadCaught(d) == Goto(d, "sign", NoSignature)

\* getItem, once the file is loaded.
LookUp(d, cache) ==
  /\ storage' = [loaded |-> TRUE, cache |-> cache]
  /\ IF Stored(cache) # {} THEN \E s \in Stored(cache) : Obtained(d, s)
     ELSE Goto(d, "sign", NoSignature) /\ UNCHANGED <<memory, process>>

\* setItem, once the file is loaded.
SetItem(d, cache) ==
  LET s == decryptions[d].signature
  IN /\ storage' = [loaded |-> TRUE, cache |-> Put(cache, s)]
     /\ Goto(d, "persist", s)
     /\ UNCHANGED <<memory, process>>

\* A call that has signed is in setItem, another in getItem.
Signing(d) == decryptions[d].signature # NoSignature
Loaded(d, cache) == IF Signing(d) THEN SetItem(d, cache) ELSE LookUp(d, cache)

\* ensureLoaded: the file is read unless it has been.
EnsureLoaded(d) ==
  /\ At(d, "load") \/ At(d, "save")
  /\ IF storage.loaded THEN Loaded(d, storage.cache)
     ELSE /\ Goto(d, "read", decryptions[d].signature)
          /\ UNCHANGED <<storage, memory, process>>
  /\ UNCHANGED <<file, day>>

ReadFile(d) ==
  /\ At(d, "read")
  /\ With(d, "parse", decryptions[d].signature, file)
  /\ UNCHANGED <<process, memory, storage, file, day>>

\* What was read replaces the copy, whatever has been put there since; where there
\* was no file, one is written.  What cannot be parsed is left alone: the signature
\* that was to be saved is used nevertheless.
Parse(d) ==
  LET read == decryptions[d].content
      s == decryptions[d].signature
  IN /\ At(d, "parse")
     /\ \/ read.state = "text" /\ Loaded(d, read.signatures) /\ UNCHANGED file
        \/ /\ read.state = "absent"
           /\ Emptied /\ Goto(d, "create", s)
           /\ UNCHANGED <<storage, memory, process>>
        \/ /\ read.state = "garbage" /\ Signing(d)
           /\ Obtained(d, s)
           /\ UNCHANGED <<storage, file>>
        \/ /\ read.state = "garbage" /\ ~Signing(d)
           /\ LoadCaught(d)
           /\ UNCHANGED <<storage, file, memory, process>>
     /\ UNCHANGED day

Created(d) ==
  /\ At(d, "create")
  /\ Written(d, {})
  /\ Loaded(d, {})
  /\ UNCHANGED day

Sign(d) ==
  /\ At(d, "sign")
  /\ Goto(d, "save", [key |-> process.keypair, from |-> day])
  /\ UNCHANGED <<process, memory, storage, file, day>>

\* persist: what is written is the copy as it is when the writing begins.
Persist(d) ==
  /\ At(d, "persist")
  /\ With(d, "write", decryptions[d].signature,
          [state |-> "text", signatures |-> storage.cache])
  /\ Emptied
  /\ UNCHANGED <<process, memory, storage, day>>

Saved(d) ==
  /\ At(d, "write")
  /\ Written(d, decryptions[d].content.signatures)
  /\ Obtained(d, decryptions[d].signature)
  /\ UNCHANGED <<storage, day>>

\* The gateway decrypts under a valid signature only.
UserDecrypt(d) ==
  /\ At(d, "decrypt")
  /\ Goto(d, IF IsValid(decryptions[d].signature) THEN "done" ELSE "refused",
          decryptions[d].signature)
  /\ UNCHANGED <<process, memory, storage, file, day>>

\* The signer or the gateway fails; so does the read of the request.
CallFails(d) ==
  /\ At(d, "fetch") \/ At(d, "sign") \/ At(d, "decrypt")
  /\ Goto(d, "failed", decryptions[d].signature)
  /\ UNCHANGED <<process, memory, storage, file, day>>

DecryptionStep(d) ==
  \/ EnsureSignature(d) \/ EnsureLoaded(d) \/ ReadFile(d) \/ Parse(d) \/ Created(d)
  \/ Sign(d) \/ Persist(d) \/ Saved(d) \/ UserDecrypt(d) \/ CallFails(d)

FheNext ==
  \/ Initialized \/ Restart \/ DayPasses
  \/ \E d \in Decryption : Begin(d) \/ DecryptionStep(d)

\* What a call awaits is answered or fails in the end.
FheFairness == \A d \in Decryption : WF_fheVars(DecryptionStep(d))
FheSpec == FheInit /\ [][FheNext]_fheVars /\ FheFairness
-----------------------------------------------------------------------------
(* Properties *)

\* Every variable has its type; a copy of the file has one signature per key pair.
FheTypeOK ==
  /\ process \in [start : 1..MaxStarts, fhe : {"starting", "ready", "off"},
                  keypair : 0..MaxStarts]
  /\ memory \in Signature \cup {NoSignature}
  /\ storage.loaded \in BOOLEAN /\ storage.cache \subseteq Signature
  /\ file \in File
  /\ \A d \in Decryption : decryptions[d].at \in Step /\ decryptions[d].content \in File
  /\ \A s, t \in storage.cache : s.key = t.key => s = t
  /\ day \in 0..MaxDays

\* All decryptions of a process are under one key pair, the one it generated,
\* whatever earlier processes left in the file and however the calls that find no
\* signature cross: the pair that getPublicKey shows stays what it was.
OneKeyPair ==
  /\ process.keypair \in {0, process.start}
  /\ memory.key \in {0, process.start}
  /\ \A d \in Decryption :
       decryptions[d].at \in {"save", "persist", "write", "decrypt"} =>
         decryptions[d].signature.key = process.start

\* A signature taken from memory or from the file is valid when it is taken, so
\* only one that lapses while the gateway works is refused.
ReusedIsValid ==
  [][\A d \in Decryption :
       ~Signing(d) /\ decryptions'[d].at = "decrypt" =>
         day < decryptions'[d].signature.from + Validity]_fheVars

\* No state of the file, no restart while it is written and no two calls that read
\* and write it at once keep a node from decrypting: a call that goes to the file
\* comes back from it and goes on, and what it signed it uses.
FileIsHarmless ==
  \A d \in Decryption :
    /\ decryptions[d].at = "load" ~> decryptions[d].at \in {"sign", "decrypt", "lost"}
    /\ decryptions[d].at = "save" ~> decryptions[d].at \in {"decrypt", "lost"}
=============================================================================
