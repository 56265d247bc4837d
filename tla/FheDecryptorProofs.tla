------------------------- MODULE FheDecryptorProofs -------------------------
(***************************************************************************)
(* Of FheDecryptor, for every number of decryptions, starts and days: its   *)
(* types, that a process decrypts under the one key pair it generated, and  *)
(* that a signature is valid when it is reused.                             *)
(***************************************************************************)
EXTENDS FheDecryptor, TLAPS

Call == [at : Step, signature : Signature \cup {NoSignature}, content : File]

FheTypes ==
  /\ process \in [start : 1..MaxStarts, fhe : {"starting", "ready", "off"},
                  keypair : 0..MaxStarts]
  /\ memory \in Signature \cup {NoSignature}
  /\ storage \in [loaded : BOOLEAN, cache : SUBSET Signature]
  /\ file \in File
  /\ decryptions \in [Decryption -> Call]
  /\ day \in 0..MaxDays

\* The file, its copy, and what is on its way from the one to the other hold one
\* signature per key pair.
OnePerKey(signatures) == \A s, t \in signatures : s.key = t.key => s = t
Unique ==
  /\ OnePerKey(storage.cache) /\ OnePerKey(file.signatures)
  /\ \A d \in Decryption : OnePerKey(decryptions[d].content.signatures)

\* A call goes on only in a process whose instance is ready, and what it signs,
\* writes and decrypts with is that instance's key pair.
Running == {"fetch", "load", "read", "parse", "create", "sign", "save", "persist",
            "write", "decrypt"}
Signed == {"save", "persist", "write", "decrypt"}
UnderOnePair ==
  /\ process.keypair = IF process.fhe = "ready" THEN process.start ELSE 0
  /\ memory # NoSignature => process.fhe = "ready" /\ memory.key = process.start
  /\ \A d \in Decryption :
       /\ decryptions[d].at \in Running => process.fhe = "ready"
       /\ decryptions[d].at \in Signed =>
            /\ decryptions[d].signature \in Signature
            /\ decryptions[d].signature.key = process.start
       /\ decryptions[d].at \in Running =>
            decryptions[d].signature = NoSignature
              \/ decryptions[d].signature.key = process.start

FheInv == FheTypes /\ Unique /\ UnderOnePair
-----------------------------------------------------------------------------
\* What the steps are made of keeps the types.
LEMMA SignatureFields ==
  /\ \A s \in Signature : s.key \in 1..MaxStarts /\ s.from \in 0..MaxDays
  /\ NoSignature.key = 0 /\ NoSignature.from = 0
  /\ NoSignature \notin Signature
  BY DEF Signature, NoSignature

\* Put replaces what was there for the key pair.
LEMMA PutKeepsOne ==
  ASSUME NEW cache \in SUBSET Signature, NEW s \in Signature, OnePerKey(cache)
  PROVE  Put(cache, s) \in SUBSET Signature /\ OnePerKey(Put(cache, s))
  BY DEF Put, OnePerKey

\* What is found in the storage is a valid signature for the process's key pair.
LEMMA StoredFits ==
  ASSUME NEW cache \in SUBSET Signature, NEW s \in Stored(cache)
  PROVE  /\ s \in Signature /\ s.key = process.keypair
         /\ day < s.from + Validity
  BY DEF Stored, IsValid

\* One call's place, signature and content change, and nobody else's.
LEMMA WithType ==
  ASSUME FheTypes, NEW d \in Decryption, NEW step \in Step,
         NEW s \in Signature \cup {NoSignature}, NEW content \in File,
         With(d, step, s, content)
  PROVE  /\ decryptions' \in [Decryption -> Call]
         /\ decryptions'[d] = [at |-> step, signature |-> s, content |-> content]
         /\ \A e \in Decryption \ {d} : decryptions'[e] = decryptions[e]
  <1>. DEFINE c == [at |-> step, signature |-> s, content |-> content]
  <1>1. c \in Call
    BY DEF Call
  <1>2. decryptions' = [decryptions EXCEPT ![d] = c]
    BY DEF With
  <1>. HIDE DEF c
  <1>3. /\ decryptions' \in [Decryption -> Call]
        /\ decryptions'[d] = c
        /\ \A e \in Decryption \ {d} : decryptions'[e] = decryptions[e]
    BY <1>1, <1>2 DEF FheTypes
  <1>. QED BY <1>3 DEF c

\* A step of one call in which nothing but its place, signature and content, the
\* file and its copy change.
LEMMA OneCallMoves ==
  ASSUME FheInv, NEW d \in Decryption, NEW step \in Step,
         NEW s \in Signature \cup {NoSignature}, NEW content \in File,
         With(d, step, s, content), OnePerKey(content.signatures),
         step \in Running => process.fhe = "ready",
         step \in Signed => s \in Signature,
         step \in Running => s = NoSignature \/ s.key = process.start,
         storage' \in [loaded : BOOLEAN, cache : SUBSET Signature],
         file' \in File,
         OnePerKey(storage'.cache), OnePerKey(file'.signatures),
         UNCHANGED process, UNCHANGED day,
         memory' \in {memory, NoSignature}
                       \cup {t \in Signature : process.fhe = "ready" /\ t.key = process.start}
  PROVE  FheInv'
  <1>1. /\ decryptions' \in [Decryption -> Call]
        /\ decryptions'[d] = [at |-> step, signature |-> s, content |-> content]
        /\ \A e \in Decryption \ {d} : decryptions'[e] = decryptions[e]
    BY WithType DEF FheInv
  <1>2. FheTypes'
    BY <1>1 DEF FheInv, FheTypes
  <1>3. Unique'
    <2>1. ASSUME NEW e \in Decryption
          PROVE  OnePerKey(decryptions'[e].content.signatures)
      BY <1>1 DEF FheInv, Unique
    <2>. QED BY <2>1 DEF Unique, OnePerKey
  <1>4. UnderOnePair'
    <2>0. NoSignature \notin Signature
      BY SignatureFields
    <2>1. /\ process'.keypair = IF process'.fhe = "ready" THEN process'.start ELSE 0
          /\ memory' # NoSignature =>
               process'.fhe = "ready" /\ memory'.key = process'.start
      BY DEF FheInv, UnderOnePair
    <2>2. ASSUME NEW e \in Decryption
          PROVE  /\ decryptions'[e].at \in Running => process'.fhe = "ready"
                 /\ decryptions'[e].at \in Signed =>
                      /\ decryptions'[e].signature \in Signature
                      /\ decryptions'[e].signature.key = process'.start
                 /\ decryptions'[e].at \in Running =>
                      decryptions'[e].signature = NoSignature
                        \/ decryptions'[e].signature.key = process'.start
      <3>1. CASE e = d
        <4>1. Signed \subseteq Running
          BY DEF Signed, Running
        <4>. QED BY <1>1, <2>0, <3>1, <4>1
      <3>2. CASE e # d
        BY <1>1, <3>2 DEF FheInv, UnderOnePair
      <3>. QED BY <3>1, <3>2
    <2>. QED BY <2>1, <2>2 DEF UnderOnePair
  <1>. QED BY <1>2, <1>3, <1>4 DEF FheInv

\* The same where the call carries nothing of the file.
LEMMA OneCallGoes ==
  ASSUME FheInv, NEW d \in Decryption, NEW step \in Step,
         NEW s \in Signature \cup {NoSignature}, Goto(d, step, s),
         step \in Running => process.fhe = "ready",
         step \in Signed => s \in Signature,
         step \in Running => s = NoSignature \/ s.key = process.start,
         storage' \in [loaded : BOOLEAN, cache : SUBSET Signature],
         file' \in File,
         OnePerKey(storage'.cache), OnePerKey(file'.signatures),
         UNCHANGED process, UNCHANGED day,
         memory' \in {memory, NoSignature}
                       \cup {t \in Signature : process.fhe = "ready" /\ t.key = process.start}
  PROVE  FheInv'
  <1>1. NoFile \in File /\ OnePerKey(NoFile.signatures)
    BY DEF NoFile, File, OnePerKey
  <1>2. With(d, step, s, NoFile)
    BY DEF Goto
  <1>. QED BY <1>1, <1>2, OneCallMoves
-----------------------------------------------------------------------------
\* Taking a signature of the process's own pair as the node's.
LEMMA ObtainedKeeps ==
  ASSUME FheInv, NEW d \in Decryption, NEW s \in Signature, Obtained(d, s),
         process.fhe = "ready", s.key = process.start,
         storage' \in [loaded : BOOLEAN, cache : SUBSET Signature],
         file' \in File,
         OnePerKey(storage'.cache), OnePerKey(file'.signatures),
         UNCHANGED day
  PROVE  FheInv'
  <1>1. process' = process
    BY DEF Obtained, FheInv, FheTypes, UnderOnePair
  <1>2. Goto(d, "decrypt", s) /\ memory' = s
    BY DEF Obtained
  <1>3. "decrypt" \in Step
    BY DEF Step
  <1>. QED BY <1>1, <1>2, <1>3, OneCallGoes

\* Looking a signature up in a copy of the file.
LEMMA LookUpKeeps ==
  ASSUME FheInv, NEW d \in Decryption, NEW cache \in SUBSET Signature,
         LookUp(d, cache), process.fhe = "ready", OnePerKey(cache),
         file' \in File, OnePerKey(file'.signatures),
         UNCHANGED day
  PROVE  FheInv'
  <1>0. /\ storage' \in [loaded : BOOLEAN, cache : SUBSET Signature]
        /\ OnePerKey(storage'.cache)
    BY DEF LookUp
  <1>1. CASE Stored(cache) # {}
    <2>1. PICK s \in Stored(cache) : Obtained(d, s)
      BY <1>1 DEF LookUp
    <2>2. s \in Signature /\ s.key = process.start
      BY StoredFits DEF FheInv, UnderOnePair
    <2>. QED BY <1>0, <2>1, <2>2, ObtainedKeeps
  <1>2. CASE Stored(cache) = {}
    <2>1. Goto(d, "sign", NoSignature) /\ UNCHANGED <<memory, process>>
      BY <1>2 DEF LookUp
    <2>2. "sign" \in Step /\ "sign" \notin Signed
      BY DEF Step, Signed
    <2>. QED BY <1>0, <2>1, <2>2, OneCallGoes
  <1>. QED BY <1>1, <1>2

\* Going on with a copy of the file, to look up or to save.
LEMMA LoadedKeeps ==
  ASSUME FheInv, NEW d \in Decryption, NEW cache \in SUBSET Signature,
         Loaded(d, cache), process.fhe = "ready", OnePerKey(cache),
         decryptions[d].at \in Running,
         file' \in File, OnePerKey(file'.signatures),
         UNCHANGED day
  PROVE  FheInv'
  <1>. DEFINE s == decryptions[d].signature
  <1>1. CASE Signing(d)
    <2>1. s \in Signature /\ s.key = process.start
      BY <1>1 DEF Signing, FheInv, FheTypes, Call, UnderOnePair
    <2>2. SetItem(d, cache)
      BY <1>1 DEF Loaded
    <2>3. Put(cache, s) \in SUBSET Signature /\ OnePerKey(Put(cache, s))
      BY <2>1, PutKeepsOne
    <2>4. /\ storage' \in [loaded : BOOLEAN, cache : SUBSET Signature]
          /\ OnePerKey(storage'.cache)
      BY <2>2, <2>3 DEF SetItem
    <2>5. "persist" \in Step /\ Goto(d, "persist", s) /\ UNCHANGED <<memory, process>>
      BY <2>2 DEF Step, SetItem
    <2>. QED BY <2>1, <2>4, <2>5, OneCallGoes
  <1>2. CASE ~Signing(d)
    BY <1>2, LookUpKeeps DEF Loaded
  <1>. QED BY <1>1, <1>2

\* The storage and the file where a step leaves them alone or replaces them.
LEMMA StorageTypes ==
  ASSUME FheInv
  PROVE  /\ storage \in [loaded : BOOLEAN, cache : SUBSET Signature]
         /\ file \in File
         /\ OnePerKey(storage.cache) /\ OnePerKey(file.signatures)
         /\ OnePerKey({})
  BY DEF FheInv, FheTypes, Unique, OnePerKey

LEMMA WrittenType ==
  ASSUME NEW d, NEW signatures \in SUBSET Signature, OnePerKey(signatures),
         Written(d, signatures) \/ Emptied
  PROVE  file' \in File /\ OnePerKey(file'.signatures)
  <1>1. PICK state \in {"text", "garbage"} :
          file' = [state |-> state,
                   signatures |-> IF state = "text" THEN signatures ELSE {}]
    BY DEF Written, Emptied
  <1>2. (IF state = "text" THEN signatures ELSE {}) \in SUBSET Signature
    OBVIOUS
  <1>. QED BY <1>1, <1>2 DEF OnePerKey, File

\* What a call is doing says what the process has.
LEMMA RunningFits ==
  ASSUME FheInv, NEW d \in Decryption
  PROVE  /\ decryptions[d].signature \in Signature \cup {NoSignature}
         /\ decryptions[d].content.state \in {"absent", "text", "garbage"}
         /\ decryptions[d].content.signatures \in SUBSET Signature
         /\ OnePerKey(decryptions[d].content.signatures)
         /\ decryptions[d].at \in Running =>
              /\ process.fhe = "ready" /\ process.keypair = process.start
              /\ decryptions[d].signature = NoSignature
                   \/ decryptions[d].signature.key = process.start
         /\ decryptions[d].at \in Signed =>
              /\ decryptions[d].signature \in Signature
              /\ decryptions[d].signature.key = process.start
         /\ process.start \in 1..MaxStarts /\ day \in 0..MaxDays
  <1>1. decryptions[d] \in Call
    BY DEF FheInv, FheTypes
  <1>. QED BY <1>1 DEF FheInv, FheTypes, UnderOnePair, Unique, Call, File
-----------------------------------------------------------------------------
LEMMA FheInitInv == FheInit => FheInv
  <1>. SUFFICES ASSUME FheInit PROVE FheInv
    OBVIOUS
  <1>1. FheTypes
    <2>1. NoDecryption \in Call
      BY DEF NoDecryption, Call, Step, NoFile, File
    <2>2. file \in File
      BY DEF FheInit, File
    <2>. QED BY <2>1, <2>2, FheDecryptorAssumption DEF FheInit, FheTypes
  <1>2. Unique
    BY DEF FheInit, Unique, OnePerKey, NoDecryption, NoFile
  <1>3. UnderOnePair
    BY DEF FheInit, UnderOnePair, Running, Signed, NoDecryption
  <1>. QED BY <1>1, <1>2, <1>3 DEF FheInv

\* An instance made for the process keeps the type of its state.
LEMMA ProcessStarts ==
  ASSUME NEW Starts, NEW Instances, NEW Pairs, "ready" \in Instances,
         NEW p \in [start : Starts, fhe : Instances, keypair : Pairs], NEW k \in Pairs
  PROVE  [p EXCEPT !.fhe = "ready", !.keypair = k]
           \in [start : Starts, fhe : Instances, keypair : Pairs]
  OBVIOUS

\* Time, restarts and the instance keep the invariant.
LEMMA ProcessKeeps ==
  ASSUME FheInv, Initialized \/ Restart \/ DayPasses
  PROVE  FheInv'
  <1>1. CASE Initialized
    <2>. DEFINE Process == [start : 1..MaxStarts, fhe : {"starting", "ready", "off"},
                            keypair : 0..MaxStarts]
    <2>4. process \in Process /\ process.start \in 0..MaxStarts
      BY FheDecryptorAssumption DEF FheInv, FheTypes
    <2>5. ASSUME process' = [process EXCEPT !.fhe = "ready", !.keypair = process.start]
          PROVE  process' \in Process
      BY <2>4, <2>5, ProcessStarts
    <2>6. ASSUME process' = [process EXCEPT !.fhe = "off"]
          PROVE  process' \in Process
      BY <2>4, <2>6
    <2>1. FheTypes'
      <3>1. process' \in Process
        BY <1>1, <2>5, <2>6 DEF Initialized
      <3>. QED BY <1>1, <3>1 DEF Initialized, FheInv, FheTypes
    <2>2. Unique'
      BY <1>1 DEF Initialized, FheInv, Unique, OnePerKey
    <2>3. UnderOnePair'
      BY <1>1 DEF Initialized, FheInv, FheTypes, UnderOnePair
    <2>. QED BY <2>1, <2>2, <2>3 DEF FheInv
  <1>2. CASE Restart
    <2>. DEFINE lost == [NoDecryption EXCEPT !.at = "lost"]
    <2>1. /\ lost \in Call /\ OnePerKey(lost.content.signatures)
          /\ lost.at \notin Running /\ lost.at \notin Signed
      BY DEF NoDecryption, Call, Step, Running, Signed, NoFile, File, OnePerKey
    <2>2. decryptions' = [d \in Decryption |->
            IF decryptions[d].at \in Ended \cup {"none"} THEN decryptions[d] ELSE lost]
      BY <1>2 DEF Restart
    <2>. HIDE DEF lost
    <2>3. FheTypes'
      BY <1>2, <2>1, <2>2, FheDecryptorAssumption DEF Restart, FheInv, FheTypes
    <2>4. Unique'
      <3>1. \A d \in Decryption : OnePerKey(decryptions'[d].content.signatures)
        BY <2>1, <2>2 DEF FheInv, Unique
      <3>. QED BY <1>2, <3>1 DEF Restart, FheInv, Unique, OnePerKey
    <2>5. \A d \in Decryption :
            decryptions'[d].at \notin Running /\ decryptions'[d].at \notin Signed
      BY <2>1, <2>2 DEF Ended, Running, Signed
    <2>6. UnderOnePair'
      BY <1>2, <2>5 DEF Restart, UnderOnePair
    <2>. QED BY <2>3, <2>4, <2>6 DEF FheInv
  <1>3. CASE DayPasses
    <2>1. FheTypes'
      BY <1>3, FheDecryptorAssumption DEF DayPasses, FheInv, FheTypes
    <2>2. Unique'
      BY <1>3 DEF DayPasses, FheInv, Unique, OnePerKey
    <2>3. UnderOnePair'
      BY <1>3 DEF DayPasses, FheInv, UnderOnePair
    <2>. QED BY <2>1, <2>2, <2>3 DEF FheInv
  <1>. QED BY <1>1, <1>2, <1>3

\* Every step of a call keeps the invariant.
LEMMA DecryptionKeeps ==
  ASSUME FheInv, NEW d \in Decryption, Begin(d) \/ DecryptionStep(d)
  PROVE  FheInv'
  <1>. DEFINE s == decryptions[d].signature
  <1>. USE StorageTypes, RunningFits
  <1>1. CASE Begin(d)
    <2>1. PICK step \in {"fetch", "notReady"} :
            /\ Goto(d, step, NoSignature)
            /\ step = "fetch" => process.fhe = "ready"
      BY <1>1 DEF Begin
    <2>2. step \in Step /\ step \notin Signed
          /\ (step \in Running => process.fhe = "ready")
      BY <2>1 DEF Step, Signed, Running
    <2>. QED BY <1>1, <2>1, <2>2, OneCallGoes DEF Begin
  <1>2. CASE EnsureSignature(d)
    <2>1. process.fhe = "ready"
      BY <1>2 DEF EnsureSignature, At, Running
    <2>2. CASE IsValid(memory)
      <3>1. memory \in Signature /\ memory.key = process.start
        BY <2>2 DEF IsValid, FheInv, FheTypes, UnderOnePair
      <3>2. Goto(d, "decrypt", memory)
        BY <1>2, <2>2 DEF EnsureSignature
      <3>. QED BY <1>2, <2>1, <2>2, <3>1, <3>2, OneCallGoes
               DEF EnsureSignature, Step
    <2>3. CASE ~IsValid(memory)
      <3>1. Goto(d, "load", NoSignature)
        BY <1>2, <2>3 DEF EnsureSignature
      <3>. QED BY <1>2, <2>1, <2>3, <3>1, OneCallGoes
               DEF EnsureSignature, Step, Signed
    <2>. QED BY <2>2, <2>3
  <1>3. CASE EnsureLoaded(d)
    <2>1. decryptions[d].at \in Running /\ process.fhe = "ready"
      BY <1>3 DEF EnsureLoaded, At, Running
    <2>2. CASE storage.loaded
      BY <1>3, <2>1, <2>2, LoadedKeeps DEF EnsureLoaded
    <2>3. CASE ~storage.loaded
      BY <1>3, <2>1, <2>3, OneCallGoes DEF EnsureLoaded, Step, Signed
    <2>. QED BY <2>2, <2>3
  <1>4. CASE ReadFile(d)
    <2>1. decryptions[d].at \in Running
      BY <1>4 DEF ReadFile, At, Running
    <2>. QED BY <1>4, <2>1, OneCallMoves DEF ReadFile, Step, Signed
  <1>5. CASE Parse(d)
    <2>1. decryptions[d].at \in Running /\ process.fhe = "ready"
      BY <1>5 DEF Parse, At, Running
    <2>2. CASE /\ Loaded(d, decryptions[d].content.signatures) /\ UNCHANGED file
      BY <1>5, <2>1, <2>2, LoadedKeeps DEF Parse
    <2>3. CASE /\ Emptied /\ Goto(d, "create", s)
               /\ UNCHANGED <<storage, memory, process>>
      <3>1. file' \in File /\ OnePerKey(file'.signatures)
        BY <2>3, WrittenType
      <3>. QED BY <1>5, <2>1, <2>3, <3>1, OneCallGoes DEF Parse, Step, Signed
    <2>4. CASE Signing(d) /\ Obtained(d, s) /\ UNCHANGED <<storage, file>>
      <3>1. s \in Signature /\ s.key = process.start
        BY <2>1, <2>4 DEF Signing
      <3>. QED BY <1>5, <2>1, <2>4, <3>1, ObtainedKeeps DEF Parse
    <2>5. CASE LoadCaught(d) /\ UNCHANGED <<storage, file, memory, process>>
      BY <1>5, <2>1, <2>5, OneCallGoes DEF Parse, LoadCaught, Step, Signed
    <2>. QED BY <1>5, <2>2, <2>3, <2>4, <2>5 DEF Parse
  <1>6. CASE Created(d)
    <2>1. decryptions[d].at \in Running
      BY <1>6 DEF Created, At, Running
    <2>2. file' \in File /\ OnePerKey(file'.signatures)
      BY <1>6, WrittenType DEF Created
    <2>. QED BY <1>6, <2>1, <2>2, LoadedKeeps DEF Created
  <1>7. CASE Sign(d)
    <2>1. process.fhe = "ready" /\ process.keypair = process.start
      BY <1>7 DEF Sign, At, Running
    <2>2. [key |-> process.keypair, from |-> day] \in Signature
      BY <2>1 DEF Signature
    <2>. QED BY <1>7, <2>1, <2>2, OneCallGoes DEF Sign, Step
  <1>8. CASE Persist(d)
    <2>1. process.fhe = "ready" /\ s \in Signature /\ s.key = process.start
      BY <1>8 DEF Persist, At, Running, Signed
    <2>2. file' \in File /\ OnePerKey(file'.signatures)
      BY <1>8, WrittenType DEF Persist
    <2>. DEFINE content == [state |-> "text", signatures |-> storage.cache]
    <2>3. /\ content \in File /\ content.signatures = storage.cache
          /\ With(d, "write", s, content)
      BY <1>8 DEF Persist, File
    <2>. HIDE DEF content
    <2>. QED BY <1>8, <2>1, <2>2, <2>3, OneCallMoves DEF Persist, Step
  <1>9. CASE Saved(d)
    <2>1. process.fhe = "ready" /\ s \in Signature /\ s.key = process.start
      BY <1>9 DEF Saved, At, Running, Signed
    <2>2. file' \in File /\ OnePerKey(file'.signatures)
      BY <1>9, WrittenType DEF Saved
    <2>. QED BY <1>9, <2>1, <2>2, ObtainedKeeps DEF Saved
  <1>10. CASE UserDecrypt(d)
    <2>1. PICK step \in {"done", "refused"} : Goto(d, step, s)
      BY <1>10 DEF UserDecrypt
    <2>2. step \in Step /\ step \notin Running /\ step \notin Signed
      BY DEF Step, Running, Signed
    <2>. QED BY <1>10, <2>1, <2>2, OneCallGoes DEF UserDecrypt
  <1>11. CASE CallFails(d)
    <2>1. Goto(d, "failed", s)
      BY <1>11 DEF CallFails
    <2>. QED BY <1>11, <2>1, OneCallGoes DEF CallFails, Step, Running, Signed
  <1>. QED BY <1>1, <1>2, <1>3, <1>4, <1>5, <1>6, <1>7, <1>8, <1>9, <1>10, <1>11
           DEF DecryptionStep

LEMMA FheInvHolds == FheSpec => []FheInv
  <1>1. FheInv /\ [FheNext]_fheVars => FheInv'
    <2>. SUFFICES ASSUME FheInv, [FheNext]_fheVars PROVE FheInv'
      OBVIOUS
    <2>1. CASE Initialized \/ Restart \/ DayPasses
      BY <2>1, ProcessKeeps
    <2>2. CASE \E d \in Decryption : Begin(d) \/ DecryptionStep(d)
      BY <2>2, DecryptionKeeps
    <2>3. CASE UNCHANGED fheVars
      BY <2>3 DEF fheVars, FheInv, FheTypes, Unique, OnePerKey, UnderOnePair
    <2>. QED BY <2>1, <2>2, <2>3 DEF FheNext
  <1>. QED BY <1>1, FheInitInv, PTL DEF FheSpec
-----------------------------------------------------------------------------
\* Every variable keeps its type, and the copy of signatures.json never holds two
\* signatures for one key pair (FileStringStorage of fheSignature.ts).
THEOREM FheTypeCorrect == FheSpec => []FheTypeOK
  <1>1. FheInv => FheTypeOK
    BY DEF FheInv, FheTypes, Call, Unique, OnePerKey, FheTypeOK
  <1>. QED BY <1>1, FheInvHolds, PTL

\* However many calls cross and whatever earlier processes left in the file, all
\* decryptions of a process are under the key pair that it generated.
THEOREM OneKeyPairHolds == FheSpec => []OneKeyPair
  <1>1. FheInv => OneKeyPair
    BY SignatureFields DEF FheInv, FheTypes, UnderOnePair, OneKeyPair, Signed
  <1>. QED BY <1>1, FheInvHolds, PTL

\* A step of a call moves that call only.
LEMMA OthersStay ==
  ASSUME FheTypes, NEW d \in Decryption, Begin(d) \/ DecryptionStep(d)
  PROVE  \A e \in Decryption \ {d} : decryptions'[e] = decryptions[e]
  <1>. SUFFICES ASSUME NEW step, NEW s, NEW content, With(d, step, s, content)
                PROVE  \A e \in Decryption \ {d} : decryptions'[e] = decryptions[e]
    BY DEF Begin, DecryptionStep, EnsureSignature, EnsureLoaded, ReadFile, Parse,
           LoadCaught, Created, Sign, Persist, Saved, UserDecrypt, CallFails, Loaded,
           SetItem, LookUp, Obtained, Goto
  <1>. QED BY DEF With, FheTypes

\* Where looking up ends in a decryption, it is with what it found.
LEMMA LookUpFinds ==
  ASSUME FheTypes, NEW d \in Decryption, NEW cache \in SUBSET Signature,
         Loaded(d, cache), ~Signing(d), decryptions'[d].at = "decrypt"
  PROVE  day < decryptions'[d].signature.from + Validity
  <1>0. LookUp(d, cache)
    BY DEF Loaded
  <1>1. Stored(cache) # {}
    BY <1>0 DEF LookUp, Goto, With, FheTypes
  <1>2. PICK s \in Stored(cache) : Goto(d, "decrypt", s)
    BY <1>0, <1>1 DEF LookUp, Obtained
  <1>3. decryptions'[d].signature = s
    BY <1>2 DEF Goto, With, FheTypes
  <1>. QED BY <1>3, StoredFits

\* A call never goes on with a lapsed signature that it found, in memory or in the
\* file (fheDescrypt.ts, isValid of fheSignature.ts).
THEOREM ReusedIsValidHolds == FheSpec => ReusedIsValid
  <1>. DEFINE Taken(d) == ~Signing(d) /\ decryptions'[d].at = "decrypt"
              Valid == \A d \in Decryption : Taken(d) =>
                         day < decryptions'[d].signature.from + Validity
  <1>1. FheInv /\ [FheNext]_fheVars => Valid \/ UNCHANGED fheVars
    <2>. SUFFICES ASSUME FheInv, FheNext, NEW d \in Decryption, Taken(d)
                  PROVE  day < decryptions'[d].signature.from + Validity
      OBVIOUS
    <2>0. FheTypes /\ NoSignature \notin Signature
      BY SignatureFields DEF FheInv
    <2>1. decryptions' # decryptions
      <3>1. decryptions[d].at = "decrypt" => decryptions[d].signature \in Signature
        BY RunningFits DEF Signed
      <3>. QED BY <2>0, <3>1 DEF Signing
    <2>2. CASE Initialized \/ DayPasses \/ Restart
      <3>1. Restart
        BY <2>1, <2>2 DEF Initialized, DayPasses
      <3>2. decryptions[d].at = "decrypt"
        BY <3>1 DEF Restart, Ended, NoDecryption
      <3>. QED BY <2>0, <3>2, RunningFits DEF Signing, Signed
    <2>3. ASSUME NEW e \in Decryption, Begin(e) \/ DecryptionStep(e)
          PROVE  day < decryptions'[d].signature.from + Validity
      <3>0. ASSUME NEW step, NEW s, Goto(e, step, s), e = d
            PROVE  decryptions'[d].at = step /\ decryptions'[d].signature = s
        BY <2>0, <3>0 DEF Goto, With, FheTypes
      <3>1. e = d
        <4>1. ASSUME e # d PROVE FALSE
          <5>1. decryptions'[d] = decryptions[d]
            BY <2>0, <2>3, <4>1, OthersStay
          <5>. QED BY <2>0, <5>1, RunningFits DEF Signing, Signed
        <4>. QED BY <4>1
      <3>2. CASE EnsureSignature(d)
        <4>1. IsValid(memory) /\ decryptions'[d].signature = memory
          BY <3>0, <3>1, <3>2 DEF EnsureSignature
        <4>. QED BY <4>1 DEF IsValid
      <3>3. CASE EnsureLoaded(d)
        <4>1. Loaded(d, storage.cache)
          BY <3>0, <3>1, <3>3 DEF EnsureLoaded
        <4>. QED BY <2>0, <4>1, LookUpFinds, StorageTypes
      <3>4. CASE Parse(d)
        <4>1. Loaded(d, decryptions[d].content.signatures)
          BY <3>0, <3>1, <3>4 DEF Parse, LoadCaught
        <4>. QED BY <2>0, <4>1, LookUpFinds, RunningFits
      <3>5. CASE Created(d)
        BY <2>0, <3>5, LookUpFinds DEF Created
      <3>6. CASE ReadFile(d) \/ Persist(d)
        <4>1. decryptions'[d].at \in {"parse", "write"}
          BY <2>0, <3>6 DEF ReadFile, Persist, With, FheTypes
        <4>. QED BY <4>1
      <3>7. CASE Begin(d) \/ Sign(d) \/ UserDecrypt(d) \/ CallFails(d)
        <4>1. decryptions'[d].at # "decrypt"
          BY <3>0, <3>1, <3>7 DEF Begin, Sign, UserDecrypt, CallFails
        <4>. QED BY <4>1
      <3>8. CASE Saved(d)
        BY <2>0, <3>8, RunningFits DEF Saved, At, Signed, Signing
      <3>. QED BY <2>3, <3>1, <3>2, <3>3, <3>4, <3>5, <3>6, <3>7, <3>8 DEF DecryptionStep
    <2>. QED BY <2>2, <2>3 DEF FheNext
  <1>2. ASSUME FheInv, [FheNext]_fheVars
        PROVE  [\A d \in Decryption :
                  ~Signing(d) /\ decryptions'[d].at = "decrypt" =>
                      day < decryptions'[d].signature.from + Validity]_fheVars
    BY <1>1, <1>2
  <1>. QED BY <1>2, FheInvHolds, PTL DEF FheSpec, ReusedIsValid
=============================================================================
