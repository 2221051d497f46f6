-------------------------- MODULE UoHttpFileServer --------------------------
(***************************************************************************)
(* The cache of uo_http_file_server.c: connections serve files from        *)
(* worker threads at the same time.  The table of entries is guarded by    *)
(* the mutex of the server, an entry by a mutex of its own, and the bytes  *)
(* of a file live as long as their reference count (uo_refcount.c), which  *)
(* an entry and the responses in flight share.                             *)
(*                                                                         *)
(* A file is its version, its size and st_mtime, in whole seconds: a new   *)
(* version may have the time of an earlier one.  The bytes in memory are   *)
(* the version they were read from and how many of them were read.  Memory *)
(* is never given out twice, so a use of a freed entry shows as `crashed', *)
(* after which the model stops: the program's behaviour is undefined from  *)
(* there.                                                                  *)
(***************************************************************************)
EXTENDS Integers, Sequences, FiniteSets, FiniteSetsExt

CONSTANTS
  Conns,         \* connections whose requests are served concurrently
  Uris,          \* the requested uris, one file each
  FileSizes,     \* the sizes a file may have
  CacheSize,     \* argument cache_size of uo_http_file_server_create
  MaxEdits,      \* bound: changes to the files
  MaxRequests    \* bound: requests served

ASSUME FileSizesAssumption == FileSizes \subseteq Nat /\ FileSizes # {}
ASSUME BoundsAssumption == {CacheSize, MaxEdits, MaxRequests} \subseteq Nat
ASSUME ConnsAssumption == IsFiniteSet(Conns) /\ "none" \notin Conns /\ "freed" \notin Conns
ASSUME UrisAssumption == Uris # {}

VARIABLES
  file,          \* the files: version (0: there is none), time and size
  edits,         \* number of changes, the newest version
  mtx,           \* who holds http_file_server->mtx
  cache,         \* uri -> entry of the table, 0 for none
  cache_space,
  entries,       \* every uo_http_file_cache_entry allocated so far
  contents,      \* every content with its reference count
  pc,            \* step of each connection's uo_http_file_server_serve
  req,           \* what it serves: uri, entries, struct stat, response
  clean,         \* whether the file stayed as it was since the request began
  requests,
  grown,         \* bytes by which cached files grew in a refresh
  crashed        \* undefined behaviour has happened

vars == <<file, edits, mtx, cache, cache_space, entries, contents, pc, req,
          clean, requests, grown, crashed>>

NONE == "none"
FREED == "freed"      \* the mutex of a destroyed server
Steps == {"idle", "lock", "stat", "refresh", "respond", "remove", "destroy",
          "create", "read", "set", "dup", "full", "sent"}

NoFile == [ver |-> 0, mtime |-> 0, size |-> 0]
NotFound == [status |-> 404, content |-> 0, len |-> 0]
NoReq == [uri |-> CHOOSE u \in Uris : TRUE, entry |-> 0, dup |-> 0,
          sb |-> NoFile, res |-> NotFound]

Init ==
  /\ file \in [Uris -> {NoFile} \cup [ver : {1}, mtime : {1}, size : FileSizes]]
  /\ edits = 1
  /\ mtx = NONE
  /\ cache = [u \in Uris |-> 0]
  /\ cache_space = CacheSize
  /\ entries = <<>>
  /\ contents = <<>>
  /\ pc = [c \in Conns |-> "idle"]
  /\ req = [c \in Conns |-> NoReq]
  /\ clean = [c \in Conns |-> TRUE]
  /\ requests = 0
  /\ grown = 0
  /\ crashed = FALSE

Entry(c) == entries[req[c].entry]
Goto(c, step) == pc' = [pc EXCEPT ![c] = step]
Crash ==
  /\ crashed' = TRUE
  /\ UNCHANGED <<mtx, cache, cache_space, entries, contents, pc, req, grown>>

-----------------------------------------------------------------------------
(* uo_refcount: create starts at one, inc and dec are atomic; at zero the   *)
(* memory is freed.                                                         *)
Freed == [ver |-> 0, len |-> 0, count |-> 0]
RefcountCreate(cs, ver, len) == Append(cs, [ver |-> ver, len |-> len, count |-> 1])
RefcountInc(cs, i) == [cs EXCEPT ![i].count = @ + 1]
RefcountDec(cs, i) ==
  LET left == cs[i].count - 1
  IN [cs EXCEPT ![i] = IF left = 0 THEN Freed ELSE [cs[i] EXCEPT !.count = left]]

(* A response refers to the content unless it is empty.                     *)
SetContentRefWeak(cs, i, len) == cs
SetContentRef(cs, i, len) == IF len = 0 THEN cs ELSE RefcountInc(cs, i)
Response(i, len) == [status |-> 200, content |-> IF len = 0 THEN 0 ELSE i, len |-> len]

FreedEntry == [uri |-> NONE, mtime |-> 0, size |-> 0, content |-> 0, holder |-> NONE, live |-> FALSE]

(* uo_http_file_cache_entry_destroy: the caller holds the entry's mutex.    *)
EntryDestroy(e) ==
  /\ entries' = [entries EXCEPT ![e] = FreedEntry]
  /\ contents' = RefcountDec(contents, entries[e].content)

-----------------------------------------------------------------------------
(* uo_http_file_server_get_cache_entry: the table is read under the mutex   *)
(* of the server, the entry is locked after that mutex was released.        *)
GetCacheEntry(c, u) ==
  /\ pc[c] = "idle" /\ mtx = NONE /\ requests < MaxRequests
  /\ requests' = requests + 1
  /\ req' = [req EXCEPT ![c] = [NoReq EXCEPT !.uri = u, !.entry = cache[u]]]
  /\ Goto(c, IF cache[u] = 0 THEN "create" ELSE "lock")
  /\ UNCHANGED <<mtx, cache, cache_space, entries, contents, clean, grown, crashed>>

LockEntry(c) ==
  /\ pc[c] = "lock"
  /\ \/ ~Entry(c).live /\ Crash
     \/ /\ Entry(c).live /\ Entry(c).holder = NONE
        /\ entries' = [entries EXCEPT ![req[c].entry].holder = c]
        /\ Goto(c, "stat")
        /\ UNCHANGED <<mtx, cache, cache_space, contents, req, grown, crashed>>
  /\ UNCHANGED <<clean, requests>>

StatOnce(c) ==
  /\ pc[c] = "stat"
  /\ LET sb == file[req[c].uri] IN
       /\ req' = [req EXCEPT ![c].sb = sb]
       /\ Goto(c, IF sb.ver = 0 THEN "remove" ELSE "respond")
  /\ UNCHANGED <<mtx, cache, cache_space, entries, contents, clean, requests, grown, crashed>>

(* The file is looked at again for every request that finds an entry.       *)
Stat(c) ==
  /\ pc[c] = "stat"
  /\ LET sb == file[req[c].uri] IN
       /\ req' = [req EXCEPT ![c].sb = sb]
       /\ Goto(c, IF sb.ver = 0 THEN "remove"
                  ELSE IF sb.mtime = Entry(c).mtime THEN "respond" ELSE "refresh")
  /\ UNCHANGED <<mtx, cache, cache_space, entries, contents, clean, requests, grown, crashed>>

(* uo_http_file_cache_entry_try_refresh: the file may have been removed or  *)
(* replaced since the stat, so that opening it fails, or the read ends      *)
(* before sb_new->st_size bytes.                                            *)
RefreshNoFile(c) ==
  /\ pc[c] = "refresh" /\ file[req[c].uri].ver = 0
  /\ Goto(c, "remove")
  /\ UNCHANGED <<mtx, cache, cache_space, entries, contents, req, clean, requests, grown, crashed>>

Refresh(c) ==
  /\ pc[c] = "refresh" /\ file[req[c].uri].ver # 0
  /\ LET now == file[req[c].uri]
         sb == req[c].sb
     IN /\ contents' = RefcountCreate(RefcountDec(contents, Entry(c).content),
                                      now.ver, Min({now.size, sb.size}))
        /\ entries' = [entries EXCEPT ![req[c].entry] =
                         [@ EXCEPT !.mtime = sb.mtime, !.size = sb.size, !.content = Len(contents) + 1]]
        /\ grown' = grown + sb.size - Entry(c).size
        /\ Goto(c, IF now.size < sb.size THEN "remove" ELSE "respond")
  /\ UNCHANGED <<mtx, cache, cache_space, req, clean, requests, crashed>>

RespondKeepsLock(c) ==
  /\ pc[c] = "respond"
  /\ contents' = SetContentRef(contents, Entry(c).content, Entry(c).size)
  /\ req' = [req EXCEPT ![c].res = Response(Entry(c).content, Entry(c).size)]
  /\ Goto(c, "sent")
  /\ UNCHANGED <<mtx, cache, cache_space, entries, clean, requests, grown, crashed>>

(* The response of a cached file, and the release of the entry.             *)
Respond(c) ==
  /\ pc[c] = "respond"
  /\ contents' = SetContentRef(contents, Entry(c).content, Entry(c).size)
  /\ req' = [req EXCEPT ![c].res = Response(Entry(c).content, Entry(c).size)]
  /\ entries' = [entries EXCEPT ![req[c].entry].holder = NONE]
  /\ Goto(c, "sent")
  /\ UNCHANGED <<mtx, cache, cache_space, clean, requests, grown, crashed>>

(* uo_http_file_server_remove_cache_entry, with the entry still locked; the *)
(* size is read through what the table gave back, which is not tested.      *)
RemoveCacheEntry(c) ==
  /\ pc[c] = "remove" /\ mtx = NONE
  /\ \/ cache[req[c].uri] = 0 /\ Crash
     \/ /\ cache[req[c].uri] # 0
        /\ cache_space' = cache_space + entries[cache[req[c].uri]].size
        /\ cache' = [cache EXCEPT ![req[c].uri] = 0]
        /\ Goto(c, "destroy")
        /\ UNCHANGED <<mtx, entries, contents, req, grown, crashed>>
  /\ UNCHANGED <<clean, requests>>

DestroyInvalid(c) ==
  /\ pc[c] = "destroy"
  /\ EntryDestroy(req[c].entry)
  /\ Goto(c, "sent")
  /\ UNCHANGED <<mtx, cache, cache_space, req, clean, requests, grown, crashed>>

-----------------------------------------------------------------------------
(* uo_http_file_cache_entry_create: stat, then open and read.               *)
CreateStat(c) ==
  /\ pc[c] = "create"
  /\ req' = [req EXCEPT ![c].sb = file[req[c].uri]]
  /\ Goto(c, IF file[req[c].uri].ver = 0 THEN "sent" ELSE "read")
  /\ UNCHANGED <<mtx, cache, cache_space, entries, contents, clean, requests, grown, crashed>>

Unreadable(c) == file[req[c].uri].ver = 0 \/ file[req[c].uri].size < req[c].sb.size

CreateFails(c) ==
  /\ pc[c] = "read" /\ Unreadable(c)
  /\ Goto(c, "sent")
  /\ UNCHANGED <<mtx, cache, cache_space, entries, contents, req, clean, requests, grown, crashed>>

CreateReads(c) ==
  /\ pc[c] = "read" /\ ~Unreadable(c)
  /\ LET i == Len(contents) + 1
         sb == req[c].sb
     IN /\ contents' = SetContentRef(RefcountCreate(contents, file[req[c].uri].ver, sb.size), i, sb.size)
        /\ entries' = Append(entries, [uri |-> req[c].uri, mtime |-> sb.mtime, size |-> sb.size,
                                       content |-> i, holder |-> NONE, live |-> TRUE])
        /\ req' = [req EXCEPT ![c] = [@ EXCEPT !.entry = Len(entries) + 1, !.res = Response(i, sb.size)]]
  /\ Goto(c, "set")
  /\ UNCHANGED <<mtx, cache, cache_space, clean, requests, grown, crashed>>

-----------------------------------------------------------------------------
(* uo_http_file_server_try_set_cache_entry: an entry another connection has *)
(* made meanwhile leaves the table at once, and is destroyed when its mutex *)
(* is free; the mutex of the server is held while waiting.                  *)
Settle(c, space) ==
  LET size == Entry(c).size IN
  /\ cache_space' = IF space < size THEN space ELSE space - size
  /\ cache' = [cache EXCEPT ![req[c].uri] = IF space < size THEN 0 ELSE req[c].entry]
  /\ Goto(c, IF space < size THEN "full" ELSE "sent")

SetFirst(c) ==
  /\ pc[c] = "set" /\ mtx = NONE /\ cache[req[c].uri] = 0
  /\ Settle(c, cache_space)
  /\ UNCHANGED <<mtx, entries, contents, req, clean, requests, grown, crashed>>

SetDuplicateUnlocks(c) ==
  /\ pc[c] = "set" /\ mtx = NONE /\ cache[req[c].uri] # 0
  /\ req' = [req EXCEPT ![c].dup = cache[req[c].uri]]
  /\ cache' = [cache EXCEPT ![req[c].uri] = 0]
  /\ Goto(c, "dup")
  /\ UNCHANGED <<mtx, cache_space, entries, contents, clean, requests, grown, crashed>>

SetDuplicate(c) ==
  /\ pc[c] = "set" /\ mtx = NONE /\ cache[req[c].uri] # 0
  /\ mtx' = c
  /\ req' = [req EXCEPT ![c].dup = cache[req[c].uri]]
  /\ cache' = [cache EXCEPT ![req[c].uri] = 0]
  /\ Goto(c, "dup")
  /\ UNCHANGED <<cache_space, entries, contents, clean, requests, grown, crashed>>

LockDuplicateKeepsSpace(c) ==
  /\ pc[c] = "dup"
  /\ entries[req[c].dup].holder = NONE
  /\ EntryDestroy(req[c].dup)
  /\ Settle(c, cache_space)
  /\ mtx' = NONE
  /\ UNCHANGED <<req, clean, requests, grown, crashed>>

LockDuplicate(c) ==
  /\ pc[c] = "dup"
  /\ entries[req[c].dup].holder = NONE
  /\ EntryDestroy(req[c].dup)
  /\ Settle(c, cache_space + entries[req[c].dup].size)
  /\ mtx' = NONE
  /\ UNCHANGED <<req, clean, requests, grown, crashed>>

(* The cache has no room: the entry is destroyed, its response still counts *)
(* as a reference to the content.                                           *)
DestroyUncached(c) ==
  /\ pc[c] = "full"
  /\ EntryDestroy(req[c].entry)
  /\ Goto(c, "sent")
  /\ UNCHANGED <<mtx, cache, cache_space, req, clean, requests, grown, crashed>>

(* The response was written: uo_refstack_finalize drops its reference.      *)
Finalize(c) ==
  /\ pc[c] = "sent"
  /\ contents' = IF req[c].res.content = 0 THEN contents ELSE RefcountDec(contents, req[c].res.content)
  /\ req' = [req EXCEPT ![c] = NoReq]
  /\ clean' = [clean EXCEPT ![c] = TRUE]
  /\ Goto(c, "idle")
  /\ UNCHANGED <<mtx, cache, cache_space, entries, requests, grown, crashed>>

Serve(c) ==
  \/ \E u \in Uris : GetCacheEntry(c, u)
  \/ LockEntry(c) \/ Stat(c) \/ RefreshNoFile(c) \/ Refresh(c) \/ Respond(c)
  \/ RemoveCacheEntry(c) \/ DestroyInvalid(c)
  \/ CreateStat(c) \/ CreateFails(c) \/ CreateReads(c)
  \/ SetFirst(c) \/ SetDuplicate(c) \/ LockDuplicate(c) \/ DestroyUncached(c)
  \/ Finalize(c)

(* uo_http_file_server_destroy, once no request is served any more; the     *)
(* responses in flight keep their contents.                                 *)
Destroy ==
  /\ mtx = NONE
  /\ \A c \in Conns : pc[c] \in {"idle", "sent"}
  /\ mtx' = FREED
  /\ LET gone == {cache[u] : u \in Uris} \ {0} IN
       /\ entries' = [e \in DOMAIN entries |-> IF e \in gone THEN FreedEntry ELSE entries[e]]
       /\ contents' = [i \in DOMAIN contents |->
                         IF \E e \in gone : entries[e].content = i
                         THEN RefcountDec(contents, i)[i] ELSE contents[i]]
  /\ cache' = [u \in Uris |-> 0]
  /\ UNCHANGED <<cache_space, pc, req, clean, requests, grown, crashed>>

(* Somebody writes or removes a file.  A write sets the time to the present *)
(* second, which no version had before or an earlier one has too, or back.  *)
EditFile(u) ==
  /\ edits < MaxEdits
  /\ edits' = edits + 1
  /\ \/ \E n \in FileSizes, t \in 1 .. edits + 1 :
          file' = [file EXCEPT ![u] = [ver |-> edits + 1, mtime |-> t, size |-> n]]
     \/ file[u] # NoFile /\ file' = [file EXCEPT ![u] = NoFile]
  /\ clean' = [c \in Conns |-> clean[c] /\ (req[c].uri # u \/ pc[c] = "idle")]
  /\ UNCHANGED <<mtx, cache, cache_space, entries, contents, pc, req, requests, grown, crashed>>

Next ==
  /\ ~crashed
  /\ \/ (\E c \in Conns : Serve(c)) /\ UNCHANGED <<file, edits>>
     \/ Destroy /\ UNCHANGED <<file, edits>>
     \/ \E u \in Uris : EditFile(u)

Spec == Init /\ [][Next]_vars

(* A worker runs a handler to its end; a mutex is given to one that waits.  *)
FairSpec == Spec /\ \A c \in Conns :
  SF_vars(~crashed /\ pc[c] # "idle" /\ Serve(c) /\ UNCHANGED <<file, edits>>)

-----------------------------------------------------------------------------
(* The variables keep their types: cache_space, a size_t, does not pass     *)
(* below zero, and what a connection holds was allocated.                   *)
TypeOK ==
  /\ mtx \in Conns \cup {NONE, FREED}
  /\ cache \in [Uris -> 0..Len(entries)]
  /\ cache_space \in Nat
  /\ \A e \in DOMAIN entries :
       /\ entries[e].content \in 0..Len(contents)
       /\ entries[e].holder \in Conns \cup {NONE}
  /\ pc \in [Conns -> Steps]
  /\ \A c \in Conns : req[c].entry \in 0..Len(entries) /\ req[c].dup \in 0..Len(entries)

(* A count is always the number of entries and responses that refer to the  *)
(* content: no response in flight loses the bytes it points to when its     *)
(* entry is refreshed, replaced or removed, and none keeps them for ever.   *)
Holders(i) ==
  Cardinality({e \in DOMAIN entries : entries[e].live /\ entries[e].content = i})
  + Cardinality({c \in Conns : req[c].res.content = i})
CountsAreHolders == \A i \in DOMAIN contents : contents[i].count = Holders(i)

(* Behind the lookup no connection touches a freed entry: while it holds an *)
(* entry, has an unpublished one or waits for the one it replaces, nobody   *)
(* else frees it.  Only the lock after the lookup (line 151) can come late. *)
OnlyLookupUnsafe ==
  \A c \in Conns :
    /\ pc[c] \in {"stat", "refresh", "respond", "remove", "destroy", "set", "dup", "full"} => Entry(c).live
    /\ pc[c] = "dup" => entries[req[c].dup].live

(* remove_cache_entry uses what the table returns without a test: whenever  *)
(* it gets the mutex, the table still holds the very entry that is locked.  *)
RemovesItsOwn ==
  \A c \in Conns : pc[c] = "remove" /\ mtx = NONE => cache[req[c].uri] = req[c].entry

(* cache_space and the cached sizes add up to the size of the cache and     *)
(* what refreshed files have grown: the limit is kept on entering and       *)
(* replacing, and only try_refresh lets the cache outgrow it.               *)
CachedSizes == MapThenSumSet(LAMBDA e : entries[e].size, {cache[u] : u \in Uris} \ {0})
Leaving == {req[c].dup : c \in {d \in Conns : pc[d] = "dup"}}
SpaceAccounted ==
  mtx # FREED =>
    cache_space + CachedSizes + MapThenSumSet(LAMBDA e : entries[e].size, Leaving) = CacheSize + grown

(* The last change of the file gave it a time that no version had before.   *)
OwnTime(u) == file[u].mtime = file[u].ver

(* A request whose file nobody touched while it was served gets exactly     *)
(* what is on disk: all of the current version, or 404 when there is no     *)
(* file, whatever was cached before, by whichever connection.  The          *)
(* exception is a version with the st_mtime of an earlier one, written in   *)
(* the same second or with its time set back: the entry of the earlier one  *)
(* is taken for it (lines 27, 76, 122, 230).                                *)
Undisturbed ==
  \A c \in Conns : pc[c] = "sent" /\ clean[c] /\ OwnTime(req[c].uri) =>
    LET res == req[c].res
        now == file[req[c].uri]
    IN IF now.ver = 0 THEN res = NotFound
       ELSE /\ res.status = 200 /\ res.len = now.size
            /\ res.content # 0 => contents[res.content].ver = now.ver /\ contents[res.content].len = now.size

(* The one way to stop: the connection that replaces an entry holds the     *)
(* mutex of the server and waits for the entry, whose holder waits for the  *)
(* mutex of the server in remove_cache_entry.                               *)
LocksCrossed ==
  \E c, d \in Conns : pc[c] = "dup" /\ pc[d] = "remove" /\ req[d].entry = req[c].dup

(* Every request is answered, unless a lookup came late or the two mutexes  *)
(* were taken in opposite order; nothing else can hold a worker up.         *)
AnsweredUnlessRace ==
  \A c \in Conns : pc[c] # "idle" ~> (pc[c] = "idle" \/ crashed \/ LocksCrossed)

(* Entries are safe once they are locked: nobody frees the entry of another *)
(* connection, or removes another entry than its own from the table         *)
(* (uo_http_file_server.c:142-192).                                         *)
EntriesSafe == TypeOK /\ OnlyLookupUnsafe /\ RemovesItsOwn
=============================================================================
