---------------------------- MODULE NodedbCache ----------------------------
(***************************************************************************)
(* The cached node DB: the block of memory, its length, and who reads them *)
(* with and without g_nodedb_lock. When and why it is fetched is the       *)
(* business of FetchQueue.                                                 *)
(***************************************************************************)
EXTENDS Integers

CONSTANTS
  Readers,             \* requests for /nodedb.json
  Lookups,             \* threads in lookup_hostname_cached
  Docs,                \* documents that pass validation, as augmented
  Length,              \* document |-> its length
  Names,               \* document |-> the lengths of the names a lookup may find in it
  g_nodedb_write_disk,
  MaxFetches           \* bound

NoDoc == "no document"

ASSUME NodedbAssumption ==
  /\ NoDoc \notin Docs /\ "none" \notin Readers
  /\ Length \in [Docs -> Nat \ {0}]
  /\ Names \in [Docs -> SUBSET Nat]
  /\ g_nodedb_write_disk \in BOOLEAN
  /\ MaxFetches \in Nat

VARIABLES
  block,      \* g_nodedb_cached: 0 for NULL, else a block of its own for each fetch
  last,       \* the last block used
  doc,        \* what is in the block
  len,        \* g_nodedb_cached_len
  lock,       \* the reader that has g_nodedb_lock, or "none"
  fetcher,    \* [at, block, len] of the fetch worker
  disk,       \* what /tmp/node_db.json holds
  sending,    \* [block, doc, len] of each reader
  lookup,     \* the block each lookup is in, 0 outside
  exited,     \* olsrd_plugin_exit has freed the cache
  clobbered,  \* history: a lookup has set the length since the last fetch
  looked      \* history: the copy was written when a lookup had set the length

nodedbVars == <<block, last, doc, len, lock, fetcher, disk, sending, lookup, exited,
                clobbered, looked>>

Out == [block |-> 0, doc |-> NoDoc, len |-> 0]

NodedbTypeOK ==
  /\ last \in 0 .. MaxFetches
  /\ block \in {0, last}
  /\ doc \in Docs \cup {NoDoc}
  /\ len \in Nat
  /\ lock \in Readers \cup {"none"}
  /\ fetcher \in [at : {"idle", "open", "write"}, block : 0 .. MaxFetches, len : Nat]
  /\ disk \in [doc : Docs \cup {NoDoc}, len : Nat]
  /\ sending \in [Readers -> [block : 0 .. MaxFetches, doc : Docs \cup {NoDoc}, len : Nat]]
  /\ lookup \in [Lookups -> 0 .. MaxFetches]
  /\ exited \in BOOLEAN /\ clobbered \in BOOLEAN /\ looked \in BOOLEAN

NodedbInit ==
  /\ block = 0 /\ last = 0 /\ doc = NoDoc /\ len = 0
  /\ lock = "none"
  /\ fetcher = [at |-> "idle", block |-> 0, len |-> 0]
  /\ disk = [doc |-> NoDoc, len |-> 0]
  /\ sending = [r \in Readers |-> Out]
  /\ lookup = [t \in Lookups |-> 0]
  /\ exited = FALSE /\ clobbered = FALSE /\ looked = FALSE

(* The flag that a fetch is in progress is cleared before the copy is written. *)
BadReplaceEarly(d) ==
  /\ last < MaxFetches
  /\ lock = "none"
  /\ block' = last + 1 /\ last' = last + 1
  /\ doc' = d /\ len' = Length[d]
  /\ fetcher' = IF fetcher.at = "write" THEN fetcher
                ELSE [fetcher EXCEPT !.at = IF g_nodedb_write_disk THEN "open" ELSE "idle"]
  /\ clobbered' = FALSE /\ looked' = FALSE
  /\ UNCHANGED <<lock, disk, sending, lookup, exited>>

(* The cache is replaced whoever sends it. *)
BadReplace(d) ==
  /\ fetcher.at = "idle"
  /\ last < MaxFetches
  /\ block' = last + 1 /\ last' = last + 1
  /\ doc' = d /\ len' = Length[d]
  /\ fetcher' = [fetcher EXCEPT !.at = IF g_nodedb_write_disk THEN "open" ELSE "idle"]
  /\ clobbered' = FALSE /\ looked' = FALSE
  /\ UNCHANGED <<lock, disk, sending, lookup, exited>>

(* A fetch has brought a valid document: free the old one, note the new one. *)
Replace(d) ==
  /\ fetcher.at = "idle"
  /\ last < MaxFetches
  /\ lock = "none"
  /\ block' = last + 1 /\ last' = last + 1
  /\ doc' = d /\ len' = Length[d]
  /\ fetcher' = [fetcher EXCEPT !.at = IF g_nodedb_write_disk THEN "open" ELSE "idle"]
  /\ clobbered' = FALSE /\ looked' = FALSE
  /\ UNCHANGED <<lock, disk, sending, lookup, exited>>

(* The copy on disk is written without the lock: fwrite gets pointer and length, *)
OpenCopy ==
  /\ fetcher.at = "open"
  /\ fetcher' = [at |-> "write", block |-> block, len |-> len]
  /\ looked' = clobbered
  /\ UNCHANGED <<block, last, doc, len, lock, disk, sending, lookup, exited, clobbered>>

(* and reads the block while it lasts. *)
WriteCopy ==
  /\ fetcher.at = "write"
  /\ fetcher' = [fetcher EXCEPT !.at = "idle"]
  /\ disk' = [doc |-> IF fetcher.block = block THEN doc ELSE NoDoc, len |-> fetcher.len]
  /\ UNCHANGED <<block, last, doc, len, lock, sending, lookup, exited, clobbered, looked>>

(* The client gets the document with the lock held, however slow it is. *)
BeginSend(r) ==
  /\ sending[r] = Out
  /\ lock = "none"
  /\ block # 0 /\ len > 0
  /\ lock' = r
  /\ sending' = [sending EXCEPT ![r] = [block |-> block, doc |-> doc, len |-> len]]
  /\ UNCHANGED <<block, last, doc, len, fetcher, disk, lookup, exited, clobbered, looked>>

EndSend(r) ==
  /\ lock = r
  /\ lock' = "none"
  /\ sending' = [sending EXCEPT ![r] = Out]
  /\ UNCHANGED <<block, last, doc, len, fetcher, disk, lookup, exited, clobbered, looked>>

(* No lock: the text is searched as long as it takes, *)
BeginLookup(t) ==
  /\ lookup[t] = 0
  /\ block # 0 /\ len > 0
  /\ lookup' = [lookup EXCEPT ![t] = block]
  /\ UNCHANGED <<block, last, doc, len, lock, fetcher, disk, sending, exited, clobbered,
                 looked>>

(* and where the address is found the length of the name replaces that of the *)
(* document. The block it searched may have been freed (lookup[t] # block).   *)
EndLookup(t, found) ==
  /\ lookup[t] # 0
  /\ lookup' = [lookup EXCEPT ![t] = 0]
  /\ len' = IF found = {} THEN len ELSE CHOOSE n \in found : TRUE
  /\ clobbered' = (clobbered \/ found # {})
  /\ UNCHANGED <<block, last, doc, lock, fetcher, disk, sending, exited, looked>>

(* olsrd_plugin_exit. *)
FreeOnExit ==
  /\ ~exited
  /\ lock = "none"
  /\ exited' = TRUE
  /\ block' = 0 /\ len' = 0 /\ doc' = NoDoc
  /\ UNCHANGED <<last, lock, fetcher, disk, sending, lookup, clobbered, looked>>

NodedbNext ==
  \/ \E d \in Docs : Replace(d)
  \/ OpenCopy
  \/ WriteCopy
  \/ \E r \in Readers : BeginSend(r) \/ EndSend(r)
  \/ \E t \in Lookups :
       \/ BeginLookup(t)
       \/ EndLookup(t, {})
       \/ \E n \in UNION {Names[d] : d \in Docs \cap {doc}} : EndLookup(t, {n})
  \/ FreeOnExit

NodedbSpec == NodedbInit /\ [][NodedbNext]_nodedbVars

-----------------------------------------------------------------------------
(* While a client is sent the document nobody frees it, and the client gets   *)
(* the whole of it unless a lookup has changed the length (4019-4032).        *)
ServedWhole ==
  \A r \in Readers :
    sending[r] # Out =>
      /\ lock = r
      /\ sending[r].block = block
      /\ sending[r].len = Length[sending[r].doc] \/ clobbered

(* The copy on disk is a whole document, although it is written without the   *)
(* lock (1795-1797), when no lookup has touched the length and the plugin was *)
(* not stopped: there is only one fetch worker to replace the block.          *)
DiskCopyIsWhole ==
  disk.len > 0 /\ ~exited /\ ~looked /\ fetcher.at = "idle" =>
    disk.doc # NoDoc /\ disk.len = Length[disk.doc]
=============================================================================
