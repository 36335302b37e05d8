------------------------------ MODULE BlobStore ------------------------------
(***************************************************************************)
(* What the callers of storage.Storage rely on: a Put stores a whole blob  *)
(* under its key in one step or not at all, a Get sees one blob as it was  *)
(* stored, and no blob ever goes away.  The in-memory storage is this      *)
(* state machine as it stands (a Put copies its reader first and takes the *)
(* lock only to store the copy); the disk storage is shown to implement it. *)
(***************************************************************************)
CONSTANTS Keys, Puts, Gets, NoBlob

VARIABLES blobs,   \* blobs[k]: the Put whose blob is stored under k
          seen     \* seen[g]: the Put whose blob Get g was given

storeVars == <<blobs, seen>>

StoreInit ==
    /\ blobs = [k \in Keys |-> NoBlob]
    /\ seen = [g \in Gets |-> NoBlob]

Store(p, k) ==
    /\ blobs' = [blobs EXCEPT ![k] = p]
    /\ UNCHANGED seen

Fetch(g, k) ==
    /\ seen[g] = NoBlob
    /\ blobs[k] # NoBlob
    /\ seen' = [seen EXCEPT ![g] = blobs[k]]
    /\ UNCHANGED blobs

StoreNext ==
    \/ \E p \in Puts, k \in Keys : Store(p, k)
    \/ \E g \in Gets, k \in Keys : Fetch(g, k)

StoreSpec == StoreInit /\ [][StoreNext]_storeVars
=============================================================================
