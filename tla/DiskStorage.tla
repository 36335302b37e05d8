----------------------------- MODULE DiskStorage -----------------------------
(***************************************************************************)
(* The disk storage (core/storage/disk): Put copies its reader, chunk by   *)
(* chunk, into a temporary file beside the blob and renames it over the    *)
(* blob; Get opens the blob and reads it later, chunk by chunk; List walks *)
(* the directories.  None of them takes a lock.  The server may die        *)
(* between any two steps and leave temporary files behind.                 *)
(*                                                                         *)
(* A file is named by the Put that created it.  A directory entry (a blob  *)
(* path or a temporary name) refers to a file, an open descriptor to the   *)
(* file itself, so a rename does not disturb who has it open.              *)
(***************************************************************************)
EXTENDS Naturals, FiniteSets

CONSTANTS Keys,        \* keys of blobs
          Puts,        \* calls of Put
          Gets,        \* calls of Get, each with the reading of what it returned
          TempNames,   \* names that os.CreateTemp draws from
          Chunks,      \* chunks per blob
          MaxCrashes,  \* bound on restarts of the server
          NoFile, NoName

ASSUME DiskAssumption ==
    /\ Chunks \in Nat \ {0}
    /\ MaxCrashes \in Nat
    /\ NoFile \notin Puts /\ NoName \notin TempNames

VARIABLES
    putPc,    \* putPc[p]: the next step of Put p
    putKey,   \* putKey[p]: its key
    putTmp,   \* putTmp[p]: the name of its temporary file
    putErr,   \* putErr[p]: Put is about to return an error
    written,  \* written[p]: chunks in the file that p created
    temps,    \* temps[n]: the file that temporary name n refers to
    path,     \* path[k]: the file that blob path k refers to
    getPc,    \* getPc[g]: the next step of Get g and its reader
    getKey,
    fd,       \* fd[g]: the file that g has open
    read,     \* read[g]: chunks that g has read
    walk,     \* walk: a call of List: its step, the keys to visit, the keys found
    atStart,  \* the keys stored when that List began
    crashes

putVars == <<putPc, putKey, putTmp, putErr, written>>
getVars == <<getPc, getKey, fd, read>>
listVars == <<walk, atStart>>
vars == <<putVars, temps, path, getVars, listVars, crashes>>

StoredKeys == {k \in Keys : path[k] # NoFile}

Init ==
    /\ putPc = [p \in Puts |-> "idle"]
    /\ putKey \in [Puts -> Keys]
    /\ putTmp = [p \in Puts |-> NoName]
    /\ putErr = [p \in Puts |-> FALSE]
    /\ written = [p \in Puts |-> 0]
    /\ temps = [n \in TempNames |-> NoFile]
    /\ path = [k \in Keys |-> NoFile]
    /\ getPc = [g \in Gets |-> "idle"]
    /\ getKey \in [Gets -> Keys]
    /\ fd = [g \in Gets |-> NoFile]
    /\ read = [g \in Gets |-> 0]
    /\ walk = [step |-> "idle", todo |-> {}, found |-> {}]
    /\ atStart = {}
    /\ crashes = 0

PutGoto(p, label) == putPc' = [putPc EXCEPT ![p] = label]

-----------------------------------------------------------------------------
(* Put *)

\* The context is live and there is a reader; the directories are made.
PutBegin(p) ==
    /\ putPc[p] = "idle"
    /\ PutGoto(p, "create")
    /\ UNCHANGED <<putKey, putTmp, putErr, written, temps, path, getVars, listVars, crashes>>

\* os.CreateTemp draws a name at random; that it never draws the name of a call
\* that is still under way, or was cut off, is taken from its 32 random bits.
PutCreateTemp(p) ==
    /\ putPc[p] = "create"
    /\ \E n \in TempNames :
         /\ temps[n] = NoFile
         /\ \A q \in Puts : putTmp[q] # n
         /\ temps' = [temps EXCEPT ![n] = p]
         /\ putTmp' = [putTmp EXCEPT ![p] = n]
    /\ PutGoto(p, "copy")
    /\ UNCHANGED <<putKey, putErr, written, path, getVars, listVars, crashes>>

\* Before there is a temporary file, an error returns at once: the context is
\* done, MkdirAll or CreateTemp fails.
PutRefused(p) ==
    /\ putPc[p] \in {"idle", "create"}
    /\ PutGoto(p, "returned")
    /\ putErr' = [putErr EXCEPT ![p] = TRUE]
    /\ UNCHANGED <<putKey, putTmp, written, temps, path, getVars, listVars, crashes>>

\* Broken variant: an error of the reader ends the copy like the end of the blob.
PutCopyStopsEarly(p) ==
    /\ putPc[p] = "copy"
    /\ \/ written[p] < Chunks /\ written' = [written EXCEPT ![p] = @ + 1] /\ UNCHANGED putPc
       \/ PutGoto(p, "close") /\ UNCHANGED written
    /\ UNCHANGED <<putKey, putTmp, putErr, temps, path, getVars, listVars, crashes>>

\* io.Copy: a chunk, or the end of the blob.
PutCopy(p) ==
    /\ putPc[p] = "copy"
    /\ IF written[p] < Chunks
       THEN written' = [written EXCEPT ![p] = @ + 1] /\ UNCHANGED putPc
       ELSE PutGoto(p, "close") /\ UNCHANGED written
    /\ UNCHANGED <<putKey, putTmp, putErr, temps, path, getVars, listVars, crashes>>

PutClose(p) ==
    /\ putPc[p] = "close"
    /\ PutGoto(p, "rename")
    /\ UNCHANGED <<putKey, putTmp, putErr, written, temps, path, getVars, listVars, crashes>>

\* The context is done (CtxReader), the reader or the disk fails, or Close does:
\* Put returns the error, the deferred Remove runs first.
PutFails(p) ==
    /\ putPc[p] \in {"copy", "close", "rename"}
    /\ PutGoto(p, "remove")
    /\ putErr' = [putErr EXCEPT ![p] = TRUE]
    /\ UNCHANGED <<putKey, putTmp, written, temps, path, getVars, listVars, crashes>>

\* Broken variant: the blob is removed to make room, then the file renamed.
PutRenameUnlinks(p) ==
    /\ putPc[p] = "rename"
    /\ IF path[putKey[p]] # NoFile
       THEN path' = [path EXCEPT ![putKey[p]] = NoFile] /\ UNCHANGED <<temps, putPc, putErr>>
       ELSE /\ path' = [path EXCEPT ![putKey[p]] = temps[putTmp[p]]]
            /\ temps' = [temps EXCEPT ![putTmp[p]] = NoFile]
            /\ PutGoto(p, "remove")
            /\ UNCHANGED putErr
    /\ UNCHANGED <<putKey, putTmp, written, getVars, listVars, crashes>>

\* os.Rename: the blob path refers to whatever the temporary name refers to.
PutRename(p) ==
    /\ putPc[p] = "rename"
    /\ IF temps[putTmp[p]] = NoFile
       THEN putErr' = [putErr EXCEPT ![p] = TRUE] /\ UNCHANGED <<temps, path>>
       ELSE /\ path' = [path EXCEPT ![putKey[p]] = temps[putTmp[p]]]
            /\ temps' = [temps EXCEPT ![putTmp[p]] = NoFile]
            /\ UNCHANGED putErr
    /\ PutGoto(p, "remove")
    /\ UNCHANGED <<putKey, putTmp, written, getVars, listVars, crashes>>

\* The deferred os.Remove goes by the name, which a rename has freed.
PutRemove(p) ==
    /\ putPc[p] = "remove"
    /\ temps' = [temps EXCEPT ![putTmp[p]] = NoFile]
    /\ PutGoto(p, "returned")
    /\ UNCHANGED <<putKey, putTmp, putErr, written, path, getVars, listVars, crashes>>

Put(p) ==
    \/ PutBegin(p) \/ PutCreateTemp(p) \/ PutRefused(p)
    \/ PutCopy(p) \/ PutClose(p) \/ PutFails(p)
    \/ PutRename(p) \/ PutRemove(p)

-----------------------------------------------------------------------------
(* Get, and the reading of what it returned *)

Open(g) ==
    /\ getPc[g] = "idle"
    /\ fd' = [fd EXCEPT ![g] = path[getKey[g]]]
    /\ getPc' = [getPc EXCEPT ![g] = IF path[getKey[g]] = NoFile THEN "notfound" ELSE "read"]
    /\ UNCHANGED <<getKey, read, putVars, temps, path, listVars, crashes>>

\* The caller reads a chunk; the end of the file ends the blob.
ReadChunk(g) ==
    /\ getPc[g] = "read"
    /\ IF read[g] < written[fd[g]]
       THEN read' = [read EXCEPT ![g] = @ + 1] /\ UNCHANGED getPc
       ELSE getPc' = [getPc EXCEPT ![g] = "complete"] /\ UNCHANGED read
    /\ UNCHANGED <<getKey, fd, putVars, temps, path, listVars, crashes>>

\* The context is done, or the disk fails.
GetFails(g) ==
    /\ getPc[g] \in {"idle", "read"}
    /\ getPc' = [getPc EXCEPT ![g] = "failed"]
    /\ UNCHANGED <<getKey, fd, read, putVars, temps, path, listVars, crashes>>

Get(g) == Open(g) \/ ReadChunk(g) \/ GetFails(g)

-----------------------------------------------------------------------------
(* List *)

ListBegin ==
    /\ walk.step = "idle"
    /\ walk' = [step |-> "walking", todo |-> Keys, found |-> {}]
    /\ atStart' = StoredKeys
    /\ UNCHANGED <<putVars, temps, path, getVars, crashes>>

\* Broken variant: any file in the directory of a key counts as its blob.
ListVisitAny(k) ==
    /\ walk.step = "walking"
    /\ k \in walk.todo
    /\ walk' = [walk EXCEPT !.todo = @ \ {k},
                            !.found = IF path[k] # NoFile \/ \E n \in TempNames : temps[n] # NoFile /\ putKey[temps[n]] = k
                                      THEN @ \cup {k} ELSE @]
    /\ UNCHANGED <<atStart, putVars, temps, path, getVars, crashes>>

\* filepath.Walk comes to the directory of k: only a file named blob counts.
ListVisit(k) ==
    /\ walk.step = "walking"
    /\ k \in walk.todo
    /\ walk' = [walk EXCEPT !.todo = @ \ {k},
                            !.found = IF path[k] # NoFile THEN @ \cup {k} ELSE @]
    /\ UNCHANGED <<atStart, putVars, temps, path, getVars, crashes>>

ListReturn ==
    /\ walk.step = "walking"
    /\ walk.todo = {}
    /\ walk' = [walk EXCEPT !.step = "returned"]
    /\ UNCHANGED <<atStart, putVars, temps, path, getVars, crashes>>

List == ListBegin \/ (\E k \in Keys : ListVisit(k)) \/ ListReturn

-----------------------------------------------------------------------------

\* The server dies: calls are gone, files and directory entries are not.
Crash ==
    /\ crashes < MaxCrashes
    /\ crashes' = crashes + 1
    /\ putPc' = [p \in Puts |-> IF putPc[p] \in {"idle", "returned"} THEN putPc[p] ELSE "dead"]
    /\ getPc' = [g \in Gets |-> IF getPc[g] = "read" THEN "failed" ELSE getPc[g]]
    /\ walk' = [step |-> "idle", todo |-> {}, found |-> {}]
    /\ atStart' = {}
    /\ UNCHANGED <<putKey, putTmp, putErr, written, temps, path, getKey, fd, read>>

Quiescent ==
    /\ \A p \in Puts : putPc[p] \in {"returned", "dead"}
    /\ \A g \in Gets : getPc[g] \in {"complete", "notfound", "failed"}
    /\ walk.step = "returned"
    /\ UNCHANGED vars

Next ==
    \/ \E p \in Puts : Put(p)
    \/ \E g \in Gets : Get(g)
    \/ List
    \/ Crash
    \/ Quiescent

Spec == Init /\ [][Next]_vars

-----------------------------------------------------------------------------
(* Correctness. *)

\* disk.go:84 "Write atomically via temp file": what a blob path refers to is a
\* whole blob that was put under that key, whatever failed, raced or crashed.
BlobsWhole ==
    \A k \in Keys : path[k] # NoFile => written[path[k]] = Chunks /\ putKey[path[k]] = k

\* storage.go:63-76 over disk.go List: a key stored before the walk began is
\* listed, and a key is listed only if it is stored; temporary files, those of a
\* dead server included, are not.
ListBracketed ==
    walk.step = "returned" => atStart \subseteq walk.found /\ walk.found \subseteq StoredKeys

BS == INSTANCE BlobStore WITH
        NoBlob <- NoFile,
        blobs <- [k \in Keys |-> IF path[k] # NoFile /\ written[path[k]] = Chunks THEN path[k] ELSE NoFile],
        seen <- fd

\* The disk storage implements the abstract store.
ImplementsBlobStore == BS!StoreSpec
=============================================================================
