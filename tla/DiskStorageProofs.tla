-------------------------- MODULE DiskStorageProofs --------------------------
(***************************************************************************)
(* Proofs about DiskStorage, for every set of keys, of calls and of        *)
(* temporary names, any blob size and any number of restarts.              *)
(*                                                                         *)
(* That a blob path refers to a whole blob is not inductive on its own.    *)
(* Rename publishes whatever the temporary name refers to, so one has to   *)
(* know that this is the file of the same call (NamesOwned), that the file *)
(* is complete by then (CopyDone), and that the call never writes to it    *)
(* again (the step of a published file's call in BlobsSettled).            *)
(***************************************************************************)
EXTENDS DiskStorage, TLAPS

\* A Put that has made its temporary file and not removed it.
HasTemp == {"copy", "close", "rename", "remove"}

\* A Put that will not write to its file any more.
Settled == {"remove", "returned", "dead"}

TypeOK ==
    /\ putPc \in [Puts -> {"idle", "create", "returned", "dead"} \cup HasTemp]
    /\ putKey \in [Puts -> Keys]
    /\ putTmp \in [Puts -> TempNames \cup {NoName}]
    /\ putErr \in [Puts -> BOOLEAN]
    /\ written \in [Puts -> 0..Chunks]
    /\ temps \in [TempNames -> Puts \cup {NoFile}]
    /\ path \in [Keys -> Puts \cup {NoFile}]
    /\ getPc \in [Gets -> {"idle", "read", "complete", "notfound", "failed"}]
    /\ getKey \in [Gets -> Keys]
    /\ fd \in [Gets -> Puts \cup {NoFile}]
    /\ read \in [Gets -> 0..Chunks]
    /\ walk \in [step : {"idle", "walking", "returned"}, todo : SUBSET Keys, found : SUBSET Keys]
    /\ atStart \in SUBSET Keys
    /\ crashes \in 0..MaxCrashes

\* A temporary name belongs to one call, and refers to that call's file or to nothing.
NamesOwned ==
    /\ \A p \in Puts : putPc[p] \in HasTemp => putTmp[p] # NoName
    /\ \A p \in Puts : putPc[p] \in {"idle", "create"} => putTmp[p] = NoName
    /\ \A p, q \in Puts : putTmp[p] = putTmp[q] /\ putTmp[p] # NoName => p = q
    /\ \A n \in TempNames : temps[n] # NoFile => putTmp[temps[n]] = n

\* Past the copy, the file is complete.
CopyDone == \A p \in Puts : putPc[p] \in {"close", "rename"} => written[p] = Chunks

\* File f is a whole blob put under key k, and stays one.
WholeFor(f, k) == f \in Puts /\ written[f] = Chunks /\ putKey[f] = k /\ putPc[f] \in Settled

BlobsSettled == \A k \in Keys : path[k] # NoFile => WholeFor(path[k], k)

\* A reader has nothing open before Open, and a whole blob of its key after it.
ReadersSettled ==
    \A g \in Gets :
      /\ getPc[g] = "idle" => fd[g] = NoFile
      /\ getPc[g] \in {"read", "complete"} => WholeFor(fd[g], getKey[g])
      /\ getPc[g] = "complete" => read[g] = Chunks

\* The walk so far: it has found stored keys only, and every key stored at its
\* start that it has been to.
WalkSound ==
    /\ walk.found \subseteq StoredKeys
    /\ atStart \subseteq StoredKeys
    /\ atStart \ walk.todo \subseteq walk.found
    /\ walk.step = "returned" => walk.todo = {}

IndInv ==
    /\ TypeOK
    /\ NamesOwned
    /\ CopyDone
    /\ BlobsSettled
    /\ ReadersSettled
    /\ WalkSound

\* disk.go Get: a caller that reads to the end of what Get returned has read one
\* whole blob, put under the key it asked for, however often the blob was
\* replaced in the meantime.
ReadsWhole ==
    \A g \in Gets : getPc[g] = "complete" =>
      fd[g] \in Puts /\ putKey[fd[g]] = getKey[g] /\ read[g] = Chunks

LEMMA InitIndInv == Init => IndInv
<1> SUFFICES ASSUME Init PROVE IndInv
  OBVIOUS
<1> USE DiskAssumption DEF DiskAssumption, Init
<1>1. TypeOK
  BY DEF TypeOK
<1>2. NamesOwned /\ CopyDone /\ BlobsSettled /\ ReadersSettled
  BY DEF NamesOwned, CopyDone, BlobsSettled, ReadersSettled, HasTemp
<1>3. WalkSound
  BY DEF WalkSound
<1> QED BY <1>1, <1>2, <1>3 DEF IndInv

\* Whole files stay whole when their calls stay settled and no path loses its
\* blob: what published files, readers and the walk need of a step that
\* concerns none of them.
LEMMA OthersKeep ==
  ASSUME IndInv, UNCHANGED <<path, putKey, getVars, listVars>>,
         \A p \in Puts : putPc[p] \in Settled => putPc'[p] \in Settled /\ written'[p] = written[p]
  PROVE  BlobsSettled' /\ ReadersSettled' /\ WalkSound'
<1>1. \A f, k : WholeFor(f, k) => WholeFor(f, k)'
  BY DEF WholeFor
<1> QED BY <1>1 DEF IndInv, BlobsSettled, ReadersSettled, WalkSound, getVars, listVars, StoredKeys

\* A step of a Put preserves the inductive invariant: one case per action.
LEMMA PutIndInv == ASSUME NEW p \in Puts, IndInv, Put(p) PROVE IndInv'
<1> USE DiskAssumption DEF DiskAssumption
<1> USE DEF PutGoto, HasTemp, Settled
<1>1. CASE PutBegin(p)
  <2>1. TypeOK'
    BY <1>1 DEF PutBegin, IndInv, TypeOK, getVars, listVars
  <2>2. NamesOwned' /\ CopyDone'
    BY <1>1 DEF PutBegin, IndInv, TypeOK, NamesOwned, CopyDone
  <2>3. BlobsSettled' /\ ReadersSettled' /\ WalkSound'
    BY <1>1, OthersKeep DEF PutBegin, IndInv, TypeOK
  <2> QED BY <2>1, <2>2, <2>3 DEF IndInv
<1>2. CASE PutCreateTemp(p)
  <2>1. PICK n \in TempNames :
           /\ temps[n] = NoFile
           /\ \A q \in Puts : putTmp[q] # n
           /\ temps' = [temps EXCEPT ![n] = p]
           /\ putTmp' = [putTmp EXCEPT ![p] = n]
    BY <1>2 DEF PutCreateTemp
  <2>2. TypeOK'
    BY <1>2, <2>1 DEF PutCreateTemp, IndInv, TypeOK, getVars, listVars
  <2>3. NamesOwned'
    BY <1>2, <2>1 DEF PutCreateTemp, IndInv, TypeOK, NamesOwned
  <2>4. CopyDone'
    BY <1>2 DEF PutCreateTemp, IndInv, TypeOK, CopyDone
  <2>5. BlobsSettled' /\ ReadersSettled' /\ WalkSound'
    BY <1>2, OthersKeep DEF PutCreateTemp, IndInv, TypeOK
  <2> QED BY <2>2, <2>3, <2>4, <2>5 DEF IndInv
<1>3. CASE PutRefused(p)
  <2>1. TypeOK'
    BY <1>3 DEF PutRefused, IndInv, TypeOK, getVars, listVars
  <2>2. NamesOwned' /\ CopyDone'
    BY <1>3 DEF PutRefused, IndInv, TypeOK, NamesOwned, CopyDone
  <2>3. BlobsSettled' /\ ReadersSettled' /\ WalkSound'
    BY <1>3, OthersKeep DEF PutRefused, IndInv, TypeOK
  <2> QED BY <2>1, <2>2, <2>3 DEF IndInv
<1>4. CASE PutCopy(p)
  <2>1. TypeOK'
    BY <1>4 DEF PutCopy, IndInv, TypeOK, getVars, listVars
  <2>2. NamesOwned' /\ CopyDone'
    <3>1. written[p] \in 0..Chunks
      BY DEF IndInv, TypeOK
    <3>2. CASE written[p] < Chunks
      BY <1>4, <3>2 DEF PutCopy, IndInv, TypeOK, NamesOwned, CopyDone
    <3>3. CASE written[p] = Chunks
      BY <1>4, <3>3 DEF PutCopy, IndInv, TypeOK, NamesOwned, CopyDone
    <3> QED BY <3>1, <3>2, <3>3
  <2>3. BlobsSettled' /\ ReadersSettled' /\ WalkSound'
    BY <1>4, OthersKeep DEF PutCopy, IndInv, TypeOK
  <2> QED BY <2>1, <2>2, <2>3 DEF IndInv
<1>5. CASE PutClose(p)
  <2>1. TypeOK'
    BY <1>5 DEF PutClose, IndInv, TypeOK, getVars, listVars
  <2>2. NamesOwned' /\ CopyDone'
    BY <1>5 DEF PutClose, IndInv, TypeOK, NamesOwned, CopyDone
  <2>3. BlobsSettled' /\ ReadersSettled' /\ WalkSound'
    BY <1>5, OthersKeep DEF PutClose, IndInv, TypeOK
  <2> QED BY <2>1, <2>2, <2>3 DEF IndInv
<1>6. CASE PutFails(p)
  <2>1. TypeOK'
    BY <1>6 DEF PutFails, IndInv, TypeOK, getVars, listVars
  <2>2. NamesOwned' /\ CopyDone'
    BY <1>6 DEF PutFails, IndInv, TypeOK, NamesOwned, CopyDone
  <2>3. BlobsSettled' /\ ReadersSettled' /\ WalkSound'
    BY <1>6, OthersKeep DEF PutFails, IndInv, TypeOK
  <2> QED BY <2>1, <2>2, <2>3 DEF IndInv
<1>7. CASE PutRename(p)
  <2>1. putTmp[p] \in TempNames /\ putKey[p] \in Keys
    BY <1>7 DEF PutRename, IndInv, TypeOK, NamesOwned
  <2>2. temps[putTmp[p]] # NoFile => temps[putTmp[p]] = p
    BY <2>1 DEF IndInv, TypeOK, NamesOwned
  <2>3. TypeOK'
    BY <1>7, <2>1, <2>2 DEF PutRename, IndInv, TypeOK, getVars, listVars
  <2>4. NamesOwned' /\ CopyDone'
    BY <1>7, <2>1 DEF PutRename, IndInv, TypeOK, NamesOwned, CopyDone
  <2>5. path' = path \/ path' = [path EXCEPT ![putKey[p]] = p]
    BY <1>7, <2>2 DEF PutRename
  <2>6. putPc' = [putPc EXCEPT ![p] = "remove"] /\ UNCHANGED <<putKey, written, getVars, listVars>>
    BY <1>7 DEF PutRename
  <2>7. WholeFor(p, putKey[p])' /\ \A f, k : WholeFor(f, k) => WholeFor(f, k)'
    BY <1>7, <2>6 DEF PutRename, IndInv, TypeOK, CopyDone, WholeFor
  <2>8. BlobsSettled'
    BY <2>1, <2>5, <2>6, <2>7 DEF IndInv, TypeOK, BlobsSettled
  <2>9. ReadersSettled'
    BY <2>6, <2>7 DEF IndInv, ReadersSettled, getVars
  <2>10. StoredKeys \subseteq StoredKeys'
    BY <2>1, <2>5 DEF IndInv, TypeOK, StoredKeys
  <2>11. WalkSound'
    BY <2>6, <2>10 DEF IndInv, WalkSound, listVars
  <2> QED BY <2>3, <2>4, <2>8, <2>9, <2>11 DEF IndInv
<1>8. CASE PutRemove(p)
  <2>1. putTmp[p] \in TempNames
    BY <1>8 DEF PutRemove, IndInv, TypeOK, NamesOwned
  <2>2. TypeOK'
    BY <1>8, <2>1 DEF PutRemove, IndInv, TypeOK, getVars, listVars
  <2>3. NamesOwned' /\ CopyDone'
    BY <1>8, <2>1 DEF PutRemove, IndInv, TypeOK, NamesOwned, CopyDone
  <2>4. BlobsSettled' /\ ReadersSettled' /\ WalkSound'
    BY <1>8, OthersKeep DEF PutRemove, IndInv, TypeOK
  <2> QED BY <2>2, <2>3, <2>4 DEF IndInv
<1> QED BY <1>1, <1>2, <1>3, <1>4, <1>5, <1>6, <1>7, <1>8 DEF Put

\* A step of a Get preserves it: readers change no file.
LEMMA GetIndInv == ASSUME NEW g \in Gets, IndInv, Get(g) PROVE IndInv'
<1> USE DiskAssumption DEF DiskAssumption
<1>1. UNCHANGED <<putVars, temps, path, getKey, listVars, crashes>>
  BY DEF Get, Open, ReadChunk, GetFails
<1>2. NamesOwned' /\ CopyDone'
  BY <1>1 DEF putVars, IndInv, NamesOwned, CopyDone
<1>3. \A f, k : WholeFor(f, k)' <=> WholeFor(f, k)
  BY <1>1 DEF putVars, WholeFor
<1>4. BlobsSettled' /\ WalkSound'
  BY <1>1, <1>3 DEF IndInv, BlobsSettled, WalkSound, listVars, StoredKeys
<1>5. \A h \in Gets : getPc[h] = "read" => written[fd[h]] = Chunks
  BY DEF IndInv, ReadersSettled, WholeFor
<1>6. CASE Open(g)
  <2>1. path[getKey[g]] \in Puts \cup {NoFile} /\ getKey[g] \in Keys
    BY DEF IndInv, TypeOK
  <2>2. TypeOK'
    BY <1>1, <1>6, <2>1 DEF Open, IndInv, TypeOK, putVars, listVars
  <2>3. path[getKey[g]] # NoFile => WholeFor(path[getKey[g]], getKey[g])
    BY <2>1 DEF IndInv, BlobsSettled
  <2>4. ReadersSettled'
    BY <1>1, <1>3, <1>6, <2>3 DEF Open, IndInv, TypeOK, ReadersSettled
  <2> QED BY <1>2, <1>4, <2>2, <2>4 DEF IndInv
<1>7. CASE ReadChunk(g)
  <2>1. read[g] \in 0..Chunks /\ written[fd[g]] = Chunks
    BY <1>5, <1>7 DEF ReadChunk, IndInv, TypeOK
  <2>2. TypeOK'
    BY <1>1, <1>7, <2>1 DEF ReadChunk, IndInv, TypeOK, putVars, listVars
  <2>3. ReadersSettled'
    <3>1. CASE read[g] < Chunks
      BY <1>1, <1>3, <1>7, <2>1, <3>1 DEF ReadChunk, IndInv, TypeOK, ReadersSettled
    <3>2. CASE read[g] = Chunks
      BY <1>1, <1>3, <1>7, <2>1, <3>2 DEF ReadChunk, IndInv, TypeOK, ReadersSettled
    <3> QED BY <2>1, <3>1, <3>2
  <2> QED BY <1>2, <1>4, <2>2, <2>3 DEF IndInv
<1>8. CASE GetFails(g)
  <2>1. TypeOK'
    BY <1>1, <1>8 DEF GetFails, IndInv, TypeOK, putVars, listVars
  <2>2. ReadersSettled'
    BY <1>1, <1>3, <1>8 DEF GetFails, IndInv, TypeOK, ReadersSettled
  <2> QED BY <1>2, <1>4, <2>1, <2>2 DEF IndInv
<1> QED BY <1>6, <1>7, <1>8 DEF Get

\* A step of List preserves it: the walk changes nothing but itself.
LEMMA ListIndInv == ASSUME IndInv, List PROVE IndInv'
<1> USE DiskAssumption DEF DiskAssumption
<1>1. UNCHANGED <<putVars, temps, path, getVars, crashes>>
  BY DEF List, ListBegin, ListVisit, ListReturn
<1>2. NamesOwned' /\ CopyDone' /\ BlobsSettled' /\ ReadersSettled'
  BY <1>1 DEF putVars, getVars, IndInv, NamesOwned, CopyDone, BlobsSettled, ReadersSettled, WholeFor
<1>3. StoredKeys' = StoredKeys /\ StoredKeys \in SUBSET Keys
  BY <1>1 DEF StoredKeys
<1>4. TypeOK' /\ WalkSound'
  <2>1. CASE ListBegin
    BY <1>1, <1>3, <2>1 DEF ListBegin, IndInv, TypeOK, WalkSound, putVars, getVars
  <2>2. ASSUME NEW k \in Keys, ListVisit(k) PROVE TypeOK' /\ WalkSound'
    <3>1. /\ walk'.step = "walking" /\ walk'.todo = walk.todo \ {k}
          /\ walk'.found = IF k \in StoredKeys THEN walk.found \cup {k} ELSE walk.found
          /\ walk' \in [step : {"idle", "walking", "returned"}, todo : SUBSET Keys, found : SUBSET Keys]
          /\ atStart' = atStart
      BY <2>2 DEF ListVisit, IndInv, TypeOK, StoredKeys
    <3>2. TypeOK'
      BY <1>1, <3>1 DEF IndInv, TypeOK, putVars, getVars
    <3>3. WalkSound'
      BY <1>3, <3>1 DEF IndInv, WalkSound
    <3> QED BY <3>2, <3>3
  <2>3. CASE ListReturn
    BY <1>1, <1>3, <2>3 DEF ListReturn, IndInv, TypeOK, WalkSound, putVars, getVars
  <2> QED BY <2>1, <2>2, <2>3 DEF List
<1> QED BY <1>2, <1>4 DEF IndInv

\* A restart preserves it: calls die where they are, files stay.
LEMMA CrashIndInv == ASSUME IndInv, Crash PROVE IndInv'
<1> USE DiskAssumption DEF DiskAssumption
<1>1. \A p \in Puts : putPc[p] \in Settled => putPc'[p] \in Settled
  BY DEF Crash, Settled
<1>2. UNCHANGED <<putKey, putTmp, putErr, written, temps, path, getKey, fd, read>>
  BY DEF Crash
<1>3. TypeOK'
  BY DEF Crash, IndInv, TypeOK, HasTemp
<1>4. NamesOwned' /\ CopyDone'
  BY DEF Crash, IndInv, TypeOK, NamesOwned, CopyDone, HasTemp
<1>5. \A f, k : WholeFor(f, k) => WholeFor(f, k)'
  BY <1>1, <1>2 DEF WholeFor
<1>6. BlobsSettled' /\ ReadersSettled'
  BY <1>2, <1>5 DEF Crash, IndInv, TypeOK, BlobsSettled, ReadersSettled
<1>7. WalkSound'
  BY DEF Crash, WalkSound
<1> QED BY <1>3, <1>4, <1>6, <1>7 DEF IndInv

LEMMA StutterIndInv == ASSUME IndInv, UNCHANGED vars PROVE IndInv'
BY DEF vars, putVars, getVars, listVars, IndInv, TypeOK, NamesOwned, CopyDone,
       BlobsSettled, ReadersSettled, WalkSound, WholeFor, StoredKeys

\* The inductive invariant holds in every reachable state.
THEOREM IndInvHolds == Spec => []IndInv
<1>1. IndInv /\ [Next]_vars => IndInv'
  BY PutIndInv, GetIndInv, ListIndInv, CrashIndInv, StutterIndInv DEF Next, Quiescent
<1> QED BY InitIndInv, <1>1, PTL DEF Spec

\* disk.go:84 "Write atomically via temp file": in no interleaving of Puts, failures
\* and restarts does a blob path refer to part of a blob, or to another key's.
THEOREM BlobsAreWhole == Spec => []BlobsWhole
<1>1. IndInv => BlobsWhole
  BY DEF IndInv, BlobsSettled, WholeFor, BlobsWhole
<1> QED BY IndInvHolds, <1>1, PTL

\* disk.go Get: a blob read to its end is one whole blob of the key asked for, for
\* any number of Puts that replace it while it is read.
THEOREM ReadsAreWhole == Spec => []ReadsWhole
<1>1. IndInv => ReadsWhole
  BY DEF IndInv, ReadersSettled, WholeFor, ReadsWhole
<1> QED BY IndInvHolds, <1>1, PTL

\* disk.go List: a walk beside any number of Puts lists every key stored when it
\* began and no key that is not stored.
THEOREM ListsAreBracketed == Spec => []ListBracketed
<1>1. IndInv => ListBracketed
  BY DEF IndInv, WalkSound, ListBracketed
<1> QED BY IndInvHolds, <1>1, PTL

-----------------------------------------------------------------------------
(* Refinement of BlobStore.                                                 *)

\* The blobs of the abstract store, as the mapping computes them.
Blobs == [k \in Keys |-> IF path[k] # NoFile /\ written[path[k]] = Chunks THEN path[k] ELSE NoFile]

\* In a reachable state every path counts: the mapping is the directory itself.
LEMMA MappedBlobs == IndInv => Blobs = path
<1> SUFFICES ASSUME IndInv PROVE Blobs = path
  OBVIOUS
<1>1. \A k \in Keys : path[k] # NoFile => written[path[k]] = Chunks
  BY DEF IndInv, BlobsSettled, WholeFor
<1>2. \A k \in Keys : Blobs[k] = path[k]
  BY <1>1 DEF Blobs
<1> QED BY <1>2 DEF Blobs, IndInv, TypeOK

LEMMA MappedBlobsNext == IndInv' => (Blobs = path)'
BY MappedBlobs, PTL

\* A step that publishes nothing and opens nothing is a stutter.
LEMMA RefinementStutter ==
  ASSUME IndInv, IndInv', path' = path, fd' = fd PROVE UNCHANGED BS!storeVars
<1>1. Blobs' = Blobs
  BY MappedBlobs, MappedBlobsNext
<1> QED BY <1>1 DEF BS!storeVars, Blobs

\* What the temporary name refers to at the rename, if anything, is the call's own file.
LEMMA RenamesOwnFile ==
  ASSUME IndInv, NEW p \in Puts, PutRename(p)
  PROVE  /\ putTmp[p] \in TempNames /\ putKey[p] \in Keys /\ fd' = fd
         /\ temps[putTmp[p]] # NoFile => temps[putTmp[p]] = p
<1>1. putTmp[p] \in TempNames /\ putKey[p] \in Keys /\ fd' = fd
  BY DEF PutRename, IndInv, TypeOK, NamesOwned, HasTemp, getVars
<1>2. temps[putTmp[p]] # NoFile => temps[putTmp[p]] = p
  BY <1>1, DiskAssumption DEF DiskAssumption, IndInv, TypeOK, NamesOwned
<1> QED BY <1>1, <1>2

\* A rename stores the blob of its call in one step, or fails and stores nothing.
LEMMA RefinementRename ==
  ASSUME IndInv, IndInv', NEW p \in Puts, PutRename(p)
  PROVE  BS!StoreNext \/ UNCHANGED BS!storeVars
<1>1. PICK k \in Keys : putKey[p] = k
  BY RenamesOwnFile
<1>2. fd' = fd /\ (temps[putTmp[p]] # NoFile => temps[putTmp[p]] = p)
  BY RenamesOwnFile
<1>3. CASE temps[putTmp[p]] = NoFile
  BY <1>2, <1>3, RefinementStutter DEF PutRename
<1>4. CASE temps[putTmp[p]] # NoFile
  <2>1. path' = [path EXCEPT ![k] = p]
    BY <1>1, <1>2, <1>4 DEF PutRename
  <2>2. Blobs' = [Blobs EXCEPT ![k] = p]
    BY <2>1, MappedBlobs, MappedBlobsNext
  <2>3. BS!Store(p, k)
    BY <1>2, <2>2 DEF BS!Store, Blobs
  <2> QED BY <2>3 DEF BS!StoreNext
<1> QED BY <1>3, <1>4

\* An Open that finds a blob fetches it; one that does not is a stutter.
LEMMA RefinementOpen ==
  ASSUME IndInv, IndInv', NEW g \in Gets, Open(g)
  PROVE  BS!StoreNext \/ UNCHANGED BS!storeVars
<1>1. getKey[g] \in Keys /\ fd[g] = NoFile /\ path' = path /\ fd' = [fd EXCEPT ![g] = path[getKey[g]]]
  BY DEF Open, IndInv, TypeOK, ReadersSettled
<1>2. CASE path[getKey[g]] = NoFile
  <2>1. fd' = fd
    BY <1>1, <1>2 DEF IndInv, TypeOK
  <2> QED BY <1>1, <2>1, RefinementStutter
<1>3. CASE path[getKey[g]] # NoFile
  <2>1. PICK k \in Keys : getKey[g] = k
    BY <1>1
  <2>2. Blobs = path /\ Blobs' = Blobs
    BY <1>1, MappedBlobs, MappedBlobsNext
  <2>3. BS!Fetch(g, k)
    BY <1>1, <1>3, <2>1, <2>2 DEF BS!Fetch, Blobs
  <2> QED BY <2>3 DEF BS!StoreNext
<1> QED BY <1>2, <1>3

\* The files of disk.go implement the abstract store: a Put stores a whole blob in
\* one step or not at all, and a Get sees one blob as it was stored.
THEOREM DiskImplementsBlobStore == Spec => ImplementsBlobStore
<1>1. Init => BS!StoreInit
  BY DEF Init, BS!StoreInit
<1>2. IndInv /\ IndInv' /\ [Next]_vars => [BS!StoreNext]_(BS!storeVars)
  <2> SUFFICES ASSUME IndInv, IndInv', [Next]_vars
               PROVE  BS!StoreNext \/ UNCHANGED BS!storeVars
    OBVIOUS
  <2>1. ASSUME NEW p \in Puts, Put(p) PROVE BS!StoreNext \/ UNCHANGED BS!storeVars
    <3>1. PutRename(p) \/ (path' = path /\ fd' = fd)
      BY <2>1 DEF Put, PutBegin, PutCreateTemp, PutRefused, PutCopy, PutClose, PutFails, PutRemove, getVars
    <3> QED BY <3>1, RefinementRename, RefinementStutter
  <2>2. ASSUME NEW g \in Gets, Get(g) PROVE BS!StoreNext \/ UNCHANGED BS!storeVars
    <3>1. Open(g) \/ (path' = path /\ fd' = fd)
      BY <2>2 DEF Get, ReadChunk, GetFails
    <3> QED BY <3>1, RefinementOpen, RefinementStutter
  <2>3. CASE List \/ Crash \/ UNCHANGED vars
    <3>1. path' = path /\ fd' = fd
      BY <2>3 DEF List, ListBegin, ListVisit, ListReturn, Crash, vars, getVars
    <3> QED BY <3>1, RefinementStutter
  <2> QED BY <2>1, <2>2, <2>3 DEF Next, Quiescent
<1> QED BY IndInvHolds, <1>1, <1>2, PTL DEF Spec, ImplementsBlobStore, BS!StoreSpec

=============================================================================
