----------------------- MODULE UoHttpFileServerProofs -----------------------
(***************************************************************************)
(* Proofs about UoHttpFileServer, for any finite set of connections, any   *)
(* files, any size of the cache and any number of requests and changes of  *)
(* the files.                                                              *)
(***************************************************************************)
EXTENDS UoHttpFileServer, NaturalFacts, FiniteSetTheorems, SequenceTheorems, TLAPS

-----------------------------------------------------------------------------
(* The steps with an entry of the table locked, with an entry of one's own *)
(* that was not published yet, and with an entry at all; the steps that    *)
(* may have a response.                                                    *)
Holding   == {"stat", "refresh", "respond", "remove", "destroy"}
Owning    == {"set", "dup", "full"}
Using     == Holding \cup Owning \cup {"lock"}
Answering == Owning \cup {"sent"}

FileRec    == [ver : Nat, mtime : Nat, size : Nat]
EntryRec   == [uri : Uris \cup {NONE}, mtime : Nat, size : Nat, content : Nat,
               holder : Conns \cup {NONE}, live : BOOLEAN]
ContentRec == [ver : Nat, len : Nat, count : Int]
ResRec     == [status : {200, 404}, content : Nat, len : Nat]
ReqRec     == [uri : Uris, entry : Nat, dup : Nat, sb : FileRec, res : ResRec]

(* Types, and the range of every reference.                                *)
TypeInv ==
  /\ file \in [Uris -> FileRec] /\ edits \in Nat
  /\ mtx \in Conns \cup {NONE, FREED}
  /\ cache \in [Uris -> Nat] /\ cache_space \in Nat
  /\ entries \in Seq(EntryRec) /\ contents \in Seq(ContentRec)
  /\ pc \in [Conns -> Steps] /\ req \in [Conns -> ReqRec]
  /\ clean \in [Conns -> BOOLEAN] /\ crashed \in BOOLEAN
  /\ requests \in Nat /\ grown \in Int

CacheInRange == \A u \in Uris : cache[u] <= Len(entries)
ContentInRange ==
  \A e \in 1 .. Len(entries) : /\ entries[e].content <= Len(contents)
                               /\ entries[e].live => entries[e].content # 0
ReqInRange ==
  \A c \in Conns :
    /\ req[c].entry <= Len(entries) /\ req[c].dup <= Len(entries)
    /\ req[c].res.content <= Len(contents)
    /\ pc[c] \in Using => req[c].entry # 0
    /\ pc[c] = "dup" => req[c].dup # 0
RangeInv == CacheInRange /\ ContentInRange /\ ReqInRange

(* Who holds what: the mutex of the server is held while an entry is       *)
(* replaced, a locked entry and an unpublished one are alive.              *)
MutexHeld == \A c \in Conns : pc[c] = "dup" <=> mtx = c
LockedAlive ==
  \A c \in Conns : pc[c] \in Holding =>
    Entry(c).live /\ Entry(c).holder = c /\ Entry(c).uri = req[c].uri
OwnAlive ==
  \A c \in Conns : pc[c] \in Owning =>
    Entry(c).live /\ Entry(c).holder = NONE /\ Entry(c).uri = req[c].uri
LookupUri == \A c \in Conns : pc[c] = "lock" /\ Entry(c).live => Entry(c).uri = req[c].uri
LockInv == MutexHeld /\ LockedAlive /\ OwnAlive /\ LookupUri

(* Where an entry that is alive can be found: in the table, with the       *)
(* connection that replaces it, or with the one that destroys it.  An      *)
(* unpublished entry is known to its maker alone.                          *)
Replaced(e)  == \E d \in Conns : pc[d] = "dup" /\ req[d].dup = e
CacheAlive   == \A u \in Uris : cache[u] # 0 => entries[cache[u]].live /\ entries[cache[u]].uri = u
LockedPlaced ==
  \A c \in Conns : pc[c] \in Holding \ {"destroy"} =>
    cache[req[c].uri] = req[c].entry \/ Replaced(req[c].entry)
LookupPlaced ==
  \A c \in Conns : pc[c] = "lock" /\ Entry(c).live =>
    \/ cache[req[c].uri] = req[c].entry
    \/ Replaced(req[c].entry)
    \/ \E d \in Conns : pc[d] = "destroy" /\ req[d].entry = req[c].entry
Unpublished ==
  \A c \in Conns : pc[c] \in Owning \cup {"destroy"} =>
    cache[req[c].uri] # req[c].entry /\ ~Replaced(req[c].entry)
OwnedAlone ==
  \A c, d \in Conns : pc[c] \in Owning /\ d # c /\ pc[d] \in Using => req[d].entry # req[c].entry
DupAlive ==
  \A c \in Conns : pc[c] = "dup" =>
    /\ cache[req[c].uri] = 0
    /\ entries[req[c].dup].live /\ entries[req[c].dup].uri = req[c].uri
PlaceInv == CacheAlive /\ LockedPlaced /\ LookupPlaced /\ Unpublished /\ OwnedAlone /\ DupAlive

SafeInv == TypeInv /\ RangeInv /\ LockInv /\ PlaceInv

(* The smaller of two sizes is one of them.                                *)
LEMMA MinOfTwo == ASSUME NEW m \in Nat, NEW n \in Nat
                  PROVE  Min({m, n}) \in Nat /\ Min({m, n}) = IF m <= n THEN m ELSE n
BY DEF Min

(* The fields of an entry and of a content.                                *)
LEMMA EntryFields ==
    ASSUME NEW es \in Seq(EntryRec), NEW e \in 1 .. Len(es)
    PROVE  /\ es[e] \in EntryRec
           /\ es[e].content \in Nat /\ es[e].size \in Nat /\ es[e].mtime \in Nat
           /\ es[e].live \in BOOLEAN /\ es[e].uri \in Uris \cup {NONE}
           /\ es[e].holder \in Conns \cup {NONE}
<1> DEFINE r == es[e]
<1>1. r \in EntryRec
  BY ElementOfSeq
<1> HIDE DEF r
<1>2. /\ r.content \in Nat /\ r.size \in Nat /\ r.mtime \in Nat /\ r.live \in BOOLEAN
      /\ r.uri \in Uris \cup {NONE} /\ r.holder \in Conns \cup {NONE}
  BY <1>1 DEF EntryRec
<1> QED
  BY <1>1, <1>2 DEF r

(* The fields of a content.                                                *)
LEMMA ContentFields ==
    ASSUME NEW cs \in Seq(ContentRec), NEW i \in 1 .. Len(cs)
    PROVE  cs[i] \in ContentRec /\ cs[i].count \in Int /\ cs[i].ver \in Nat /\ cs[i].len \in Nat
<1> DEFINE r == cs[i]
<1>1. r \in ContentRec
  BY ElementOfSeq
<1> HIDE DEF r
<1>2. r.count \in Int /\ r.ver \in Nat /\ r.len \in Nat
  BY <1>1 DEF ContentRec
<1> QED
  BY <1>1, <1>2 DEF r

(* A record of the contents with another count.                            *)
LEMMA Recount ==
    ASSUME NEW r \in ContentRec, NEW n \in Int
    PROVE  /\ [r EXCEPT !.count = n] \in ContentRec
           /\ [r EXCEPT !.count = n].count = n
           /\ [r EXCEPT !.count = n].ver = r.ver /\ [r EXCEPT !.count = n].len = r.len
BY DEF ContentRec

(* uo_refcount_inc and uo_refcount_dec change one count by one; a count    *)
(* that drops to zero takes the content with it.                           *)
LEMMA RefcountInced ==
    ASSUME NEW cs \in Seq(ContentRec), NEW i \in 1 .. Len(cs)
    PROVE  /\ RefcountInc(cs, i) \in Seq(ContentRec) /\ Len(RefcountInc(cs, i)) = Len(cs)
           /\ \A j \in 1 .. Len(cs) : j # i => RefcountInc(cs, i)[j] = cs[j]
           /\ RefcountInc(cs, i)[i].count = cs[i].count + 1
           /\ RefcountInc(cs, i)[i].ver = cs[i].ver /\ RefcountInc(cs, i)[i].len = cs[i].len
<1> DEFINE r == cs[i]
           s == [r EXCEPT !.count = r.count + 1]
<1>1. r \in ContentRec /\ r.count \in Int /\ r.count + 1 \in Int
  <2>1. r \in ContentRec
    BY ElementOfSeq
  <2> HIDE DEF r
  <2>2. r.count \in Int
    BY <2>1 DEF ContentRec
  <2> QED
    BY <2>1, <2>2
<1>2. s \in ContentRec /\ s.count = r.count + 1 /\ s.ver = r.ver /\ s.len = r.len
  BY <1>1, Recount
<1>3. RefcountInc(cs, i) = [cs EXCEPT ![i] = s]
  BY DEF RefcountInc
<1> HIDE DEF s
<1>4. /\ RefcountInc(cs, i) \in Seq(ContentRec) /\ Len(RefcountInc(cs, i)) = Len(cs)
      /\ \A j \in 1 .. Len(cs) : RefcountInc(cs, i)[j] = IF j = i THEN s ELSE cs[j]
  BY <1>2, <1>3, ExceptSeq
<1> QED
  BY <1>2, <1>4

(* uo_refcount_dec takes one reference; the last one frees the bytes.      *)
LEMMA RefcountDeced ==
    ASSUME NEW cs \in Seq(ContentRec), NEW i \in 1 .. Len(cs)
    PROVE  /\ RefcountDec(cs, i) \in Seq(ContentRec) /\ Len(RefcountDec(cs, i)) = Len(cs)
           /\ \A j \in 1 .. Len(cs) : j # i => RefcountDec(cs, i)[j] = cs[j]
           /\ RefcountDec(cs, i)[i].count = cs[i].count - 1
           /\ cs[i].count # 1 => /\ RefcountDec(cs, i)[i].ver = cs[i].ver
                                 /\ RefcountDec(cs, i)[i].len = cs[i].len
<1> DEFINE r == cs[i]
           t == [r EXCEPT !.count = r.count - 1]
           s == IF r.count - 1 = 0 THEN Freed ELSE t
<1>1. r \in ContentRec /\ r.count \in Int /\ r.count - 1 \in Int
  <2>1. r \in ContentRec
    BY ElementOfSeq
  <2> HIDE DEF r
  <2>2. r.count \in Int
    BY <2>1 DEF ContentRec
  <2> QED
    BY <2>1, <2>2
<1>2. t \in ContentRec /\ t.count = r.count - 1 /\ t.ver = r.ver /\ t.len = r.len
  BY <1>1, Recount
<1>3. Freed \in ContentRec /\ Freed.count = 0
  BY DEF Freed, ContentRec
<1>4. RefcountDec(cs, i) = [cs EXCEPT ![i] = s]
  BY DEF RefcountDec
<1>5. /\ s \in ContentRec /\ s.count = r.count - 1
      /\ r.count # 1 => s.ver = r.ver /\ s.len = r.len
  <2> HIDE DEF t, r
  <2> QED
    BY <1>1, <1>2, <1>3
<1> HIDE DEF s
<1>6. /\ RefcountDec(cs, i) \in Seq(ContentRec) /\ Len(RefcountDec(cs, i)) = Len(cs)
      /\ \A j \in 1 .. Len(cs) : RefcountDec(cs, i)[j] = IF j = i THEN s ELSE cs[j]
  BY <1>4, <1>5, ExceptSeq
<1> QED
  BY <1>5, <1>6

(* uo_refcount_create makes a content with one reference.                  *)
LEMMA RefcountCreated ==
    ASSUME NEW cs \in Seq(ContentRec), NEW v \in Nat, NEW n \in Nat,
           NEW ds, ds = RefcountCreate(cs, v, n)
    PROVE  /\ ds \in Seq(ContentRec) /\ Len(ds) = Len(cs) + 1
           /\ \A j \in 1 .. Len(cs) : ds[j] = cs[j]
           /\ ds[Len(cs) + 1] = [ver |-> v, len |-> n, count |-> 1]
<1>1. [ver |-> v, len |-> n, count |-> 1] \in ContentRec
  BY DEF ContentRec
<1> QED
  BY <1>1, AppendProperties DEF RefcountCreate

-----------------------------------------------------------------------------
(* What the actions do to an entry: its mutex is taken or released, it is  *)
(* refreshed, or it is freed.                                              *)
LEMMA EntrySet ==
    ASSUME entries \in Seq(EntryRec), NEW e \in 1 .. Len(entries), NEW s \in EntryRec,
           entries' = [entries EXCEPT ![e] = s]
    PROVE  /\ entries' \in Seq(EntryRec) /\ Len(entries') = Len(entries)
           /\ \A f \in 1 .. Len(entries) : f # e => entries'[f] = entries[f]
           /\ entries'[e] = s
<1>1. /\ entries' \in Seq(EntryRec) /\ Len(entries') = Len(entries)
      /\ \A f \in 1 .. Len(entries) : entries'[f] = IF f = e THEN s ELSE entries[f]
  BY ExceptSeq
<1> QED
  BY <1>1

(* Only the holder of an entry changes when its mutex is taken or given    *)
(* back.                                                                   *)
LEMMA EntryLocked ==
    ASSUME entries \in Seq(EntryRec), NEW e \in 1 .. Len(entries), NEW h \in Conns \cup {NONE},
           entries' = [entries EXCEPT ![e].holder = h]
    PROVE  /\ entries' \in Seq(EntryRec) /\ Len(entries') = Len(entries)
           /\ \A f \in 1 .. Len(entries) : f # e => entries'[f] = entries[f]
           /\ entries'[e].holder = h /\ entries'[e].live = entries[e].live
           /\ entries'[e].uri = entries[e].uri /\ entries'[e].mtime = entries[e].mtime
           /\ entries'[e].size = entries[e].size /\ entries'[e].content = entries[e].content
<1> DEFINE r == entries[e]
           s == [r EXCEPT !.holder = h]
<1>1. r \in EntryRec
  BY ElementOfSeq
<1>2. entries' = [entries EXCEPT ![e] = s]
  OBVIOUS
<1> HIDE DEF r
<1>3. /\ s \in EntryRec /\ s.holder = h /\ s.live = r.live /\ s.uri = r.uri
      /\ s.mtime = r.mtime /\ s.size = r.size /\ s.content = r.content
  BY <1>1 DEF EntryRec
<1> HIDE DEF s
<1>4. /\ entries' \in Seq(EntryRec) /\ Len(entries') = Len(entries)
      /\ \A f \in 1 .. Len(entries) : f # e => entries'[f] = entries[f]
      /\ entries'[e] = s
  BY <1>2, <1>3, EntrySet
<1> QED
  BY <1>3, <1>4 DEF r

(* The fields of a request, and what the actions do to a request and to    *)
(* the step of a connection; the others keep theirs.                       *)
Alone(c) == \A d \in Conns : d # c => pc'[d] = pc[d] /\ req'[d] = req[d]

(* The fields of what a connection knows of its request.                   *)
LEMMA ReqFields ==
    ASSUME NEW r \in ReqRec
    PROVE  /\ r.uri \in Uris /\ r.entry \in Nat /\ r.dup \in Nat /\ r.sb \in FileRec /\ r.res \in ResRec
           /\ r.res.content \in Nat /\ r.sb.ver \in Nat /\ r.sb.mtime \in Nat /\ r.sb.size \in Nat
BY DEF ReqRec, FileRec, ResRec

(* A request starts with nothing but its path and the entry found for it.  *)
LEMMA Blank ==
    ASSUME NEW u \in Uris, NEW e \in Nat
    PROVE  /\ NoReq \in ReqRec /\ NoReq.res = NotFound /\ NoReq.entry = 0 /\ NoReq.dup = 0
           /\ NotFound \in ResRec /\ NotFound.content = 0 /\ NoFile \in FileRec
           /\ [NoReq EXCEPT !.uri = u, !.entry = e] \in ReqRec
           /\ [NoReq EXCEPT !.uri = u, !.entry = e].uri = u
           /\ [NoReq EXCEPT !.uri = u, !.entry = e].entry = e
           /\ [NoReq EXCEPT !.uri = u, !.entry = e].dup = 0
           /\ [NoReq EXCEPT !.uri = u, !.entry = e].res = NotFound
<1>1. NotFound \in ResRec /\ NotFound.content = 0 /\ NoFile \in FileRec
  BY DEF NotFound, ResRec, NoFile, FileRec
<1>2. (CHOOSE v \in Uris : TRUE) \in Uris
  BY UrisAssumption
<1> QED
  BY <1>1, <1>2 DEF NoReq, ReqRec

(* One connection writes its own request only.                             *)
LEMMA ReqSet ==
    ASSUME req \in [Conns -> ReqRec], NEW c \in Conns, NEW s \in ReqRec,
           req' = [req EXCEPT ![c] = s]
    PROVE  /\ req' \in [Conns -> ReqRec] /\ req'[c] = s
           /\ \A d \in Conns : d # c => req'[d] = req[d]
OBVIOUS

(* The result of stat() is kept with the request.                          *)
LEMMA ReqSb ==
    ASSUME req \in [Conns -> ReqRec], NEW c \in Conns, NEW x \in FileRec,
           req' = [req EXCEPT ![c].sb = x]
    PROVE  /\ req' \in [Conns -> ReqRec] /\ \A d \in Conns : d # c => req'[d] = req[d]
           /\ req'[c].sb = x /\ req'[c].uri = req[c].uri /\ req'[c].entry = req[c].entry
           /\ req'[c].dup = req[c].dup /\ req'[c].res = req[c].res
<1> DEFINE r == req[c]
           s == [r EXCEPT !.sb = x]
<1>1. r \in ReqRec /\ req' = [req EXCEPT ![c] = s]
  OBVIOUS
<1> HIDE DEF r
<1>2. /\ s \in ReqRec /\ s.sb = x /\ s.uri = r.uri /\ s.entry = r.entry
      /\ s.dup = r.dup /\ s.res = r.res
  BY <1>1 DEF ReqRec
<1> HIDE DEF s
<1> QED
  BY <1>1, <1>2, ReqSet DEF r

(* The entry to be replaced is kept with the request.                      *)
LEMMA ReqDup ==
    ASSUME req \in [Conns -> ReqRec], NEW c \in Conns, NEW x \in Nat,
           req' = [req EXCEPT ![c].dup = x]
    PROVE  /\ req' \in [Conns -> ReqRec] /\ \A d \in Conns : d # c => req'[d] = req[d]
           /\ req'[c].dup = x /\ req'[c].uri = req[c].uri /\ req'[c].entry = req[c].entry
           /\ req'[c].sb = req[c].sb /\ req'[c].res = req[c].res
<1> DEFINE r == req[c]
           s == [r EXCEPT !.dup = x]
<1>1. r \in ReqRec /\ req' = [req EXCEPT ![c] = s]
  OBVIOUS
<1> HIDE DEF r
<1>2. /\ s \in ReqRec /\ s.dup = x /\ s.uri = r.uri /\ s.entry = r.entry
      /\ s.sb = r.sb /\ s.res = r.res
  BY <1>1 DEF ReqRec
<1> HIDE DEF s
<1> QED
  BY <1>1, <1>2, ReqSet DEF r

(* The response is kept with the request.                                  *)
LEMMA ReqRes ==
    ASSUME req \in [Conns -> ReqRec], NEW c \in Conns, NEW x \in ResRec,
           req' = [req EXCEPT ![c].res = x]
    PROVE  /\ req' \in [Conns -> ReqRec] /\ \A d \in Conns : d # c => req'[d] = req[d]
           /\ req'[c].res = x /\ req'[c].uri = req[c].uri /\ req'[c].entry = req[c].entry
           /\ req'[c].sb = req[c].sb /\ req'[c].dup = req[c].dup
<1> DEFINE r == req[c]
           s == [r EXCEPT !.res = x]
<1>1. r \in ReqRec /\ req' = [req EXCEPT ![c] = s]
  OBVIOUS
<1> HIDE DEF r
<1>2. /\ s \in ReqRec /\ s.res = x /\ s.uri = r.uri /\ s.entry = r.entry
      /\ s.sb = r.sb /\ s.dup = r.dup
  BY <1>1 DEF ReqRec
<1> HIDE DEF s
<1> QED
  BY <1>1, <1>2, ReqSet DEF r

(* Goto moves one connection.                                              *)
LEMMA Moved ==
    ASSUME pc \in [Conns -> Steps], NEW c \in Conns, NEW step \in Steps, Goto(c, step)
    PROVE  /\ pc' \in [Conns -> Steps] /\ pc'[c] = step
           /\ \A d \in Conns : d # c => pc'[d] = pc[d]
BY DEF Goto

(* A response of a size refers to a content unless the size is zero.       *)
LEMMA Responded ==
    ASSUME NEW i \in Nat, NEW n \in Nat
    PROVE  /\ Response(i, n) \in ResRec /\ Response(i, n).status = 200 /\ Response(i, n).len = n
           /\ Response(i, n).content = IF n = 0 THEN 0 ELSE i
BY DEF Response, ResRec

(* uo_http_file_cache_entry_destroy of an entry that is alive.             *)
LEMMA Destroyed ==
    ASSUME TypeInv, RangeInv, NEW e \in 1 .. Len(entries), entries[e].live, EntryDestroy(e)
    PROVE  /\ entries' \in Seq(EntryRec) /\ Len(entries') = Len(entries)
           /\ \A f \in 1 .. Len(entries) : f # e => entries'[f] = entries[f]
           /\ entries'[e].live = FALSE /\ entries'[e].content = 0
           /\ entries[e].content \in 1 .. Len(contents)
           /\ contents' = RefcountDec(contents, entries[e].content)
           /\ contents' \in Seq(ContentRec) /\ Len(contents') = Len(contents)
<1>1. entries \in Seq(EntryRec) /\ contents \in Seq(ContentRec)
  BY DEF TypeInv
<1>2. entries[e].content \in Nat
  BY <1>1, EntryFields
<1>3. entries[e].content \in 1 .. Len(contents)
  BY <1>1, <1>2, LenProperties DEF RangeInv, CacheInRange, ContentInRange, ReqInRange
<1>4. /\ entries' = [entries EXCEPT ![e] = FreedEntry]
      /\ contents' = RefcountDec(contents, entries[e].content)
  BY DEF EntryDestroy
<1>5. FreedEntry \in EntryRec /\ FreedEntry.live = FALSE /\ FreedEntry.content = 0
  BY DEF FreedEntry, EntryRec
<1>6. /\ entries' \in Seq(EntryRec) /\ Len(entries') = Len(entries)
      /\ \A f \in 1 .. Len(entries) : f # e => entries'[f] = entries[f]
      /\ entries'[e] = FreedEntry
  BY <1>1, <1>4, <1>5, EntrySet
<1>7. contents' \in Seq(ContentRec) /\ Len(contents') = Len(contents)
  BY SMTT(30), <1>1, <1>3, <1>4, RefcountDeced
<1> QED
  BY <1>3, <1>4, <1>5, <1>6, <1>7

(* uo_http_file_cache_entry_try_refresh: the entry gets a new content.     *)
Refreshes(c) ==
  LET e   == req[c].entry
      i   == entries[e].content
      n   == Len(contents) + 1
      now == file[req[c].uri]
      sb  == req[c].sb
  IN  /\ e \in 1 .. Len(entries) /\ i \in 1 .. Len(contents)
      /\ entries' \in Seq(EntryRec) /\ Len(entries') = Len(entries)
      /\ \A f \in 1 .. Len(entries) : f # e => entries'[f] = entries[f]
      /\ entries'[e].holder = entries[e].holder /\ entries'[e].live = entries[e].live
      /\ entries'[e].uri = entries[e].uri /\ entries'[e].mtime = sb.mtime
      /\ entries'[e].size = sb.size /\ entries'[e].content = n
      /\ contents' \in Seq(ContentRec) /\ Len(contents') = n
      /\ \A j \in 1 .. Len(contents) : j # i => contents'[j] = contents[j]
      /\ contents'[i].count = contents[i].count - 1
      /\ contents[i].count # 1 => contents'[i].ver = contents[i].ver
                                /\ contents'[i].len = contents[i].len
      /\ contents'[n].count = 1 /\ contents'[n].ver = now.ver
      /\ contents'[n].len = IF now.size <= sb.size THEN now.size ELSE sb.size

(* Refresh: the action has this effect.                                    *)
LEMMA RefreshEffect ==
    ASSUME SafeInv, NEW c \in Conns, Refresh(c)
    PROVE  Refreshes(c)
<1> DEFINE e   == req[c].entry
           i   == entries[e].content
           n   == Len(contents) + 1
           now == file[req[c].uri]
           sb  == req[c].sb
           r   == entries[e]
           v   == sb.mtime
           z   == sb.size
           cs  == RefcountDec(contents, i)
           m   == Min({now.size, z})
           s   == [r EXCEPT !.mtime = v, !.size = z, !.content = n]
<1>1. entries \in Seq(EntryRec) /\ contents \in Seq(ContentRec) /\ n \in Nat
  BY LenProperties DEF SafeInv, TypeInv
<1>2. /\ e \in 1 .. Len(entries) /\ entries[e].live
      /\ now \in FileRec /\ sb \in FileRec
  BY <1>1, LenProperties DEF SafeInv, TypeInv, RangeInv, CacheInRange, ContentInRange,
        ReqInRange, LockInv, LockedAlive, OwnAlive, Refresh, ReqRec, Using, Holding, Entry
<1>3. i \in 1 .. Len(contents)
  <2>1. i \in Nat
    BY <1>1, <1>2, EntryFields
  <2> QED
    BY <1>1, <1>2, <2>1, LenProperties DEF SafeInv, RangeInv, CacheInRange, ContentInRange,
          ReqInRange
<1>4. now.ver \in Nat /\ now.size \in Nat /\ v \in Nat /\ z \in Nat
  BY <1>2 DEF FileRec
<1>5. m \in Nat /\ m = IF now.size <= z THEN now.size ELSE z
  BY <1>4, MinOfTwo
<1>6. /\ contents' = RefcountCreate(cs, now.ver, m)
      /\ entries' = [entries EXCEPT ![e] = s]
  BY DEF Refresh, Entry
<1> HIDE DEF e, n, r, v, z, now, sb, m
<1>7. /\ cs \in Seq(ContentRec) /\ Len(cs) = Len(contents)
      /\ \A j \in 1 .. Len(contents) : j # i => cs[j] = contents[j]
      /\ cs[i].count = contents[i].count - 1
      /\ contents[i].count # 1 => cs[i].ver = contents[i].ver /\ cs[i].len = contents[i].len
  BY <1>1, <1>3, RefcountDeced
<1> HIDE DEF cs
<1>8. /\ contents' \in Seq(ContentRec) /\ Len(contents') = Len(cs) + 1
      /\ \A j \in 1 .. Len(cs) : contents'[j] = cs[j]
      /\ contents'[Len(cs) + 1] = [ver |-> now.ver, len |-> m, count |-> 1]
  BY SMTT(30), <1>4, <1>5, <1>6, <1>7, RefcountCreated
<1>9. /\ entries' \in Seq(EntryRec) /\ Len(entries') = Len(entries)
      /\ \A f \in 1 .. Len(entries) : f # e => entries'[f] = entries[f]
      /\ entries'[e].holder = entries[e].holder /\ entries'[e].live = entries[e].live
      /\ entries'[e].uri = entries[e].uri /\ entries'[e].mtime = v
      /\ entries'[e].size = z /\ entries'[e].content = n
  <2>1. r \in EntryRec
    BY <1>1, <1>2, ElementOfSeq DEF r
  <2>2. /\ s \in EntryRec /\ s.holder = r.holder /\ s.live = r.live /\ s.uri = r.uri
        /\ s.mtime = v /\ s.size = z /\ s.content = n
    BY <1>1, <1>4, <2>1 DEF EntryRec
  <2> HIDE DEF s
  <2>3. /\ entries' \in Seq(EntryRec) /\ Len(entries') = Len(entries)
        /\ \A f \in 1 .. Len(entries) : f # e => entries'[f] = entries[f]
        /\ entries'[e] = s
    BY <1>1, <1>2, <1>6, <2>2, EntrySet
  <2> QED
    BY <2>2, <2>3 DEF r
<1>10. Len(contents') = n /\ contents'[n] = [ver |-> now.ver, len |-> m, count |-> 1]
  BY <1>7, <1>8 DEF n
<1>11. contents'[n].ver = now.ver /\ contents'[n].len = m /\ contents'[n].count = 1
  BY <1>10
<1>12. /\ \A j \in 1 .. Len(contents) : j # i => contents'[j] = contents[j]
       /\ contents'[i] = cs[i]
  BY <1>3, <1>7, <1>8
<1>13. /\ contents'[i].count = contents[i].count - 1
       /\ contents[i].count # 1 => contents'[i].ver = contents[i].ver
                                 /\ contents'[i].len = contents[i].len
  BY <1>7, <1>12
<1>14. contents'[n].len = IF now.size <= sb.size THEN now.size ELSE sb.size
  BY <1>5, <1>11 DEF z
<1>15. entries'[e].mtime = sb.mtime /\ entries'[e].size = sb.size
  BY SMTT(30), <1>9 DEF v, z
<1> HIDE DEF i
<1> QED
  BY <1>2, <1>3, <1>8, <1>9, <1>10, <1>11, <1>12, <1>13, <1>14, <1>15
    DEF e, i, n, now, sb, Refreshes

(* The response of a cached file refers to its content.                    *)
Responds(c) ==
  LET e == req[c].entry
      i == entries[e].content
  IN  /\ e \in 1 .. Len(entries) /\ i \in 1 .. Len(contents)
      /\ entries' \in Seq(EntryRec) /\ Len(entries') = Len(entries)
      /\ \A f \in 1 .. Len(entries) : f # e => entries'[f] = entries[f]
      /\ entries'[e].holder = NONE /\ entries'[e].live = entries[e].live
      /\ entries'[e].uri = entries[e].uri /\ entries'[e].mtime = entries[e].mtime
      /\ entries'[e].size = entries[e].size /\ entries'[e].content = i
      /\ contents' \in Seq(ContentRec) /\ Len(contents') = Len(contents)
      /\ \A j \in 1 .. Len(contents) : j # i => contents'[j] = contents[j]
      /\ contents'[i].ver = contents[i].ver /\ contents'[i].len = contents[i].len
      /\ contents'[i].count = contents[i].count + IF entries[e].size = 0 THEN 0 ELSE 1

(* Respond: the action has this effect.                                    *)
LEMMA RespondEffect ==
    ASSUME SafeInv, NEW c \in Conns, Respond(c)
    PROVE  Responds(c)
<1> DEFINE e == req[c].entry
           i == entries[e].content
<1>1. entries \in Seq(EntryRec) /\ contents \in Seq(ContentRec)
  BY DEF SafeInv, TypeInv
<1>2. e \in 1 .. Len(entries) /\ entries[e].live
  BY <1>1, LenProperties DEF SafeInv, TypeInv, RangeInv, CacheInRange, ContentInRange,
        ReqInRange, LockInv, LockedAlive, OwnAlive, Respond, ReqRec, Using, Holding, Entry
<1>3. i \in 1 .. Len(contents)
  <2>1. i \in Nat
    BY <1>1, <1>2, EntryFields
  <2> QED
    BY <1>1, <1>2, <2>1, LenProperties DEF SafeInv, RangeInv, CacheInRange, ContentInRange,
          ReqInRange
<1>4. /\ entries' = [entries EXCEPT ![e].holder = NONE]
      /\ contents' = SetContentRef(contents, i, entries[e].size)
  BY DEF Respond, Entry
<1>5. contents[i].count \in Int
  BY <1>1, <1>3, ContentFields
<1> HIDE DEF e
<1>6. /\ entries' \in Seq(EntryRec) /\ Len(entries') = Len(entries)
      /\ \A f \in 1 .. Len(entries) : f # e => entries'[f] = entries[f]
      /\ entries'[e].holder = NONE /\ entries'[e].live = entries[e].live
      /\ entries'[e].uri = entries[e].uri /\ entries'[e].mtime = entries[e].mtime
      /\ entries'[e].size = entries[e].size /\ entries'[e].content = i
  BY <1>1, <1>2, <1>4, EntryLocked
<1>7. /\ contents' \in Seq(ContentRec) /\ Len(contents') = Len(contents)
      /\ \A j \in 1 .. Len(contents) : j # i => contents'[j] = contents[j]
      /\ contents'[i].ver = contents[i].ver /\ contents'[i].len = contents[i].len
      /\ contents'[i].count = contents[i].count + IF entries[e].size = 0 THEN 0 ELSE 1
  <2> HIDE DEF i
  <2> QED
    BY <1>1, <1>3, <1>4, <1>5, RefcountInced DEF SetContentRef
<1> QED
  BY <1>2, <1>3, <1>6, <1>7 DEF e, Responds

-----------------------------------------------------------------------------
(* What each action changes, field by field.  Between the steps of one     *)
(* connection the requests and steps of the others stay.                   *)
Gets(c, u) ==
  /\ pc[c] = "idle" /\ mtx = NONE /\ UNCHANGED <<mtx, cache, entries, contents, clean>>
  /\ TypeInv' /\ Alone(c)
  /\ pc'[c] = IF cache[u] = 0 THEN "create" ELSE "lock"
  /\ req'[c].uri = u /\ req'[c].entry = cache[u] /\ req'[c].dup = 0
  /\ req'[c].res = NotFound

(* Get: the action has this effect.                                        *)
LEMMA GetEffect ==
    ASSUME SafeInv, NEW c \in Conns, NEW u \in Uris, GetCacheEntry(c, u), UNCHANGED <<file, edits>>
    PROVE  Gets(c, u)
<1>1. /\ req \in [Conns -> ReqRec] /\ pc \in [Conns -> Steps] /\ cache[u] \in Nat
      /\ "create" \in Steps /\ "lock" \in Steps
  BY DEF SafeInv, TypeInv, Steps
<1> DEFINE s == [NoReq EXCEPT !.uri = u, !.entry = cache[u]]
<1>2. s \in ReqRec /\ s.uri = u /\ s.entry = cache[u] /\ s.dup = 0 /\ s.res = NotFound
  <2>1. \A n \in Nat : LET r == [NoReq EXCEPT !.uri = u, !.entry = n]
                       IN  /\ r \in ReqRec /\ r.uri = u /\ r.entry = n
                           /\ r.dup = 0 /\ r.res = NotFound
    BY Blank, Zenon
  <2> QED
    BY <1>1, <2>1, Zenon
<1>3. req' = [req EXCEPT ![c] = s] /\ Goto(c, IF cache[u] = 0 THEN "create" ELSE "lock")
  BY DEF GetCacheEntry
<1> HIDE DEF s
<1>4. /\ req' \in [Conns -> ReqRec] /\ req'[c] = s
      /\ \A d \in Conns : d # c => req'[d] = req[d]
  BY <1>1, <1>2, <1>3, ReqSet
<1>5. /\ pc' \in [Conns -> Steps] /\ pc'[c] = IF cache[u] = 0 THEN "create" ELSE "lock"
      /\ \A d \in Conns : d # c => pc'[d] = pc[d]
  BY <1>1, <1>3, Moved
<1>6. TypeInv'
  BY <1>4, <1>5 DEF SafeInv, TypeInv, GetCacheEntry
<1>g. pc[c] = "idle" /\ mtx = NONE /\ UNCHANGED <<mtx, cache, entries, contents, clean>>
  BY DEF GetCacheEntry
<1> QED
  BY <1>g, <1>2, <1>4, <1>5, <1>6 DEF Alone, Gets

Locks(c) ==
  LET e == req[c].entry
  IN  /\ pc[c] = "lock" /\ UNCHANGED <<mtx, cache, contents, clean>>
      /\ TypeInv' /\ Alone(c) /\ pc'[c] = "stat" /\ req' = req
      /\ e \in 1 .. Len(entries) /\ entries[e].live /\ entries[e].holder = NONE
      /\ Len(entries') = Len(entries)
      /\ \A f \in 1 .. Len(entries) : f # e => entries'[f] = entries[f]
      /\ entries'[e].holder = c /\ entries'[e].live = entries[e].live
      /\ entries'[e].uri = entries[e].uri /\ entries'[e].mtime = entries[e].mtime
      /\ entries'[e].size = entries[e].size /\ entries'[e].content = entries[e].content

(* Lock: the action has this effect.                                       *)
LEMMA LockEffect ==
    ASSUME SafeInv, NEW c \in Conns, LockEntry(c), UNCHANGED <<file, edits>>, ~crashed'
    PROVE  Locks(c)
<1> DEFINE e == req[c].entry
<1>1. /\ pc \in [Conns -> Steps] /\ entries \in Seq(EntryRec) /\ "stat" \in Steps
      /\ req[c] \in ReqRec
  BY DEF SafeInv, TypeInv, Steps
<1>2. e \in 1 .. Len(entries)
  BY <1>1, ReqFields, LenProperties DEF SafeInv, RangeInv, CacheInRange, ContentInRange,
        ReqInRange, LockEntry, Using
<1>3. /\ entries[e].live /\ entries[e].holder = NONE /\ Goto(c, "stat")
      /\ entries' = [entries EXCEPT ![e].holder = c]
      /\ UNCHANGED <<mtx, cache, cache_space, contents, req, grown, crashed, clean, requests>>
  BY DEF LockEntry, Crash, Entry
<1> HIDE DEF e
<1>4. /\ entries' \in Seq(EntryRec) /\ Len(entries') = Len(entries)
      /\ \A f \in 1 .. Len(entries) : f # e => entries'[f] = entries[f]
      /\ entries'[e].holder = c /\ entries'[e].live = entries[e].live
      /\ entries'[e].uri = entries[e].uri /\ entries'[e].mtime = entries[e].mtime
      /\ entries'[e].size = entries[e].size /\ entries'[e].content = entries[e].content
  BY <1>1, <1>2, <1>3, EntryLocked
<1>5. /\ pc' \in [Conns -> Steps] /\ pc'[c] = "stat"
      /\ \A d \in Conns : d # c => pc'[d] = pc[d]
  BY <1>1, <1>3, Moved
<1>6. TypeInv'
  BY <1>3, <1>4, <1>5 DEF SafeInv, TypeInv
<1>g. pc[c] = "lock" /\ UNCHANGED <<mtx, cache, contents, clean>>
  BY DEF LockEntry, Crash
<1> QED
  BY <1>g, <1>2, <1>3, <1>4, <1>5, <1>6 DEF Alone, e, Locks

(* The undefined outcomes change nothing but `crashed'.                    *)
LEMMA CrashEffect ==
    ASSUME SafeInv, NEW c \in Conns, LockEntry(c) \/ RemoveCacheEntry(c), UNCHANGED <<file, edits>>,
           ~crashed, crashed'
    PROVE  /\ TypeInv' /\ UNCHANGED <<file, edits, mtx, cache, cache_space, entries, contents, pc, req,
                                      clean, requests, grown>>
<1>1. /\ UNCHANGED <<file, edits, mtx, cache, cache_space, entries, contents, pc, req, clean, requests, grown>>
      /\ crashed' = TRUE
  BY DEF LockEntry, RemoveCacheEntry, Crash
<1> QED
  BY <1>1 DEF SafeInv, TypeInv

Stats(c) ==
  LET sb == file[req[c].uri]
  IN  /\ pc[c] = "stat" /\ UNCHANGED <<mtx, cache, entries, contents, clean>>
      /\ TypeInv' /\ Alone(c)
      /\ pc'[c] = IF sb.ver = 0 THEN "remove"
                  ELSE IF sb.mtime = Entry(c).mtime THEN "respond" ELSE "refresh"
      /\ req'[c].sb = sb /\ req'[c].uri = req[c].uri /\ req'[c].entry = req[c].entry
      /\ req'[c].dup = req[c].dup /\ req'[c].res = req[c].res

(* Stat: the action has this effect.                                       *)
LEMMA StatEffect ==
    ASSUME SafeInv, NEW c \in Conns, Stat(c), UNCHANGED <<file, edits>>
    PROVE  Stats(c)
<1> DEFINE sb   == file[req[c].uri]
           step == IF sb.ver = 0 THEN "remove"
                   ELSE IF sb.mtime = Entry(c).mtime THEN "respond" ELSE "refresh"
<1>1. /\ req \in [Conns -> ReqRec] /\ pc \in [Conns -> Steps] /\ step \in Steps
      /\ req[c] \in ReqRec /\ file \in [Uris -> FileRec]
  BY DEF SafeInv, TypeInv, Steps
<1>2. sb \in FileRec
  BY <1>1, ReqFields
<1>3. req' = [req EXCEPT ![c].sb = sb] /\ Goto(c, step)
  BY DEF Stat
<1> HIDE DEF sb, step
<1>4. /\ req' \in [Conns -> ReqRec] /\ \A d \in Conns : d # c => req'[d] = req[d]
      /\ req'[c].sb = sb /\ req'[c].uri = req[c].uri /\ req'[c].entry = req[c].entry
      /\ req'[c].dup = req[c].dup /\ req'[c].res = req[c].res
  BY <1>1, <1>2, <1>3, ReqSb
<1>5. /\ pc' \in [Conns -> Steps] /\ pc'[c] = step
      /\ \A d \in Conns : d # c => pc'[d] = pc[d]
  BY <1>1, <1>3, Moved
<1>6. TypeInv'
  BY <1>4, <1>5 DEF SafeInv, TypeInv, Stat
<1>g. pc[c] = "stat" /\ UNCHANGED <<mtx, cache, entries, contents, clean>>
  BY DEF Stat
<1> QED
  BY <1>g, <1>4, <1>5, <1>6 DEF Alone, sb, step, Stats

CreateStats(c) ==
  LET sb == file[req[c].uri]
  IN  /\ pc[c] = "create" /\ UNCHANGED <<mtx, cache, entries, contents, clean>>
      /\ TypeInv' /\ Alone(c) /\ pc'[c] = IF sb.ver = 0 THEN "sent" ELSE "read"
      /\ req'[c].sb = sb /\ req'[c].uri = req[c].uri /\ req'[c].entry = req[c].entry
      /\ req'[c].dup = req[c].dup /\ req'[c].res = req[c].res

(* CreateStat: the action has this effect.                                 *)
LEMMA CreateStatEffect ==
    ASSUME SafeInv, NEW c \in Conns, CreateStat(c), UNCHANGED <<file, edits>>
    PROVE  CreateStats(c)
<1> DEFINE sb   == file[req[c].uri]
           step == IF sb.ver = 0 THEN "sent" ELSE "read"
<1>1. /\ req \in [Conns -> ReqRec] /\ pc \in [Conns -> Steps] /\ step \in Steps
      /\ req[c] \in ReqRec /\ file \in [Uris -> FileRec]
  BY DEF SafeInv, TypeInv, Steps
<1>2. sb \in FileRec
  BY <1>1, ReqFields
<1>3. req' = [req EXCEPT ![c].sb = sb] /\ Goto(c, step)
  BY DEF CreateStat
<1> HIDE DEF sb, step
<1>4. /\ req' \in [Conns -> ReqRec] /\ \A d \in Conns : d # c => req'[d] = req[d]
      /\ req'[c].sb = sb /\ req'[c].uri = req[c].uri /\ req'[c].entry = req[c].entry
      /\ req'[c].dup = req[c].dup /\ req'[c].res = req[c].res
  BY <1>1, <1>2, <1>3, ReqSb
<1>5. /\ pc' \in [Conns -> Steps] /\ pc'[c] = step
      /\ \A d \in Conns : d # c => pc'[d] = pc[d]
  BY <1>1, <1>3, Moved
<1>6. TypeInv'
  BY <1>4, <1>5 DEF SafeInv, TypeInv, CreateStat
<1>g. pc[c] = "create" /\ UNCHANGED <<mtx, cache, entries, contents, clean>>
  BY DEF CreateStat
<1> QED
  BY <1>g, <1>4, <1>5, <1>6 DEF Alone, sb, step, CreateStats

(* RefreshNoFile and CreateFails only move on.                             *)
Fails(c) ==
  /\ pc[c] \in {"refresh", "read"} /\ UNCHANGED <<mtx, cache, entries, contents, clean>>
  /\ TypeInv' /\ Alone(c) /\ req' = req
  /\ pc[c] = "refresh" => pc'[c] = "remove" /\ file[req[c].uri].ver = 0
  /\ pc[c] = "read" => pc'[c] = "sent" /\ Unreadable(c)

(* Fail: the action has this effect.                                       *)
LEMMA FailEffect ==
    ASSUME SafeInv, NEW c \in Conns, RefreshNoFile(c) \/ CreateFails(c), UNCHANGED <<file, edits>>
    PROVE  Fails(c)
<1>1. pc \in [Conns -> Steps] /\ "remove" \in Steps /\ "sent" \in Steps
  BY DEF SafeInv, TypeInv, Steps
<1>2. /\ pc' \in [Conns -> Steps]
      /\ \A d \in Conns : d # c => pc'[d] = pc[d]
      /\ RefreshNoFile(c) => pc'[c] = "remove"
      /\ CreateFails(c) => pc'[c] = "sent"
  BY <1>1, Moved DEF RefreshNoFile, CreateFails
<1>3. UNCHANGED <<mtx, cache, cache_space, entries, contents, req, clean, requests, grown, crashed>>
  BY DEF RefreshNoFile, CreateFails
<1>4. TypeInv'
  BY <1>2, <1>3 DEF SafeInv, TypeInv
<1>g. /\ pc[c] \in {"refresh", "read"} /\ UNCHANGED <<mtx, cache, entries, contents, clean>>
      /\ pc[c] = "refresh" => RefreshNoFile(c) /\ file[req[c].uri].ver = 0
      /\ pc[c] = "read" => CreateFails(c) /\ Unreadable(c)
  BY DEF RefreshNoFile, CreateFails
<1> QED
  BY <1>g, <1>2, <1>3, <1>4 DEF Alone, Fails

RefreshMoves(c) ==
  /\ pc[c] = "refresh" /\ file[req[c].uri].ver # 0 /\ UNCHANGED <<mtx, cache, clean>>
  /\ TypeInv' /\ Alone(c) /\ req' = req
  /\ pc'[c] = IF file[req[c].uri].size < req[c].sb.size THEN "remove" ELSE "respond"

(* A refresh keeps the types and moves on to respond or to remove.         *)
LEMMA RefreshTypes ==
    ASSUME SafeInv, NEW c \in Conns, Refresh(c), UNCHANGED <<file, edits>>
    PROVE  RefreshMoves(c)
<1> DEFINE e    == req[c].entry
           step == IF file[req[c].uri].size < req[c].sb.size THEN "remove" ELSE "respond"
<1>1. pc \in [Conns -> Steps] /\ step \in Steps /\ Goto(c, step)
  BY DEF SafeInv, TypeInv, Steps, Refresh
<1>2. /\ pc' \in [Conns -> Steps] /\ pc'[c] = step
      /\ \A d \in Conns : d # c => pc'[d] = pc[d]
  <2> HIDE DEF step
  <2> QED
    BY <1>1, Moved
<1>3. entries' \in Seq(EntryRec) /\ contents' \in Seq(ContentRec)
  BY RefreshEffect DEF Refreshes
<1>4. grown' \in Int
  <2>1. e \in 1 .. Len(entries) /\ entries \in Seq(EntryRec) /\ req[c] \in ReqRec /\ grown \in Int
    BY RefreshEffect DEF Refreshes, SafeInv, TypeInv
  <2>2. entries[e].size \in Nat /\ req[c].sb.size \in Nat
    BY <2>1, EntryFields, ReqFields
  <2>3. grown' = grown + req[c].sb.size - entries[e].size
    BY DEF Refresh, Entry
  <2> QED
    BY <2>1, <2>2, <2>3
<1>5. UNCHANGED <<mtx, cache, cache_space, req, clean, requests, crashed>>
  BY DEF Refresh
<1>6. TypeInv'
  BY <1>2, <1>3, <1>4, <1>5 DEF SafeInv, TypeInv
<1>g. pc[c] = "refresh" /\ file[req[c].uri].ver # 0 /\ UNCHANGED <<mtx, cache, clean>>
  BY DEF Refresh
<1> QED
  BY <1>g, <1>2, <1>5, <1>6 DEF Alone, RefreshMoves

RespondMoves(c) ==
  LET e == req[c].entry
  IN  /\ pc[c] = "respond" /\ UNCHANGED <<mtx, cache, clean>>
      /\ TypeInv' /\ Alone(c) /\ pc'[c] = "sent"
      /\ req'[c].uri = req[c].uri /\ req'[c].entry = req[c].entry
      /\ req'[c].dup = req[c].dup /\ req'[c].sb = req[c].sb
      /\ req'[c].res.status = 200 /\ req'[c].res.len = entries[e].size
      /\ req'[c].res.content = IF entries[e].size = 0 THEN 0 ELSE entries[e].content

(* A response keeps the types and unlocks the entry.                       *)
LEMMA RespondTypes ==
    ASSUME SafeInv, NEW c \in Conns, Respond(c), UNCHANGED <<file, edits>>
    PROVE  RespondMoves(c)
<1> DEFINE e == req[c].entry
           x == Response(entries[e].content, entries[e].size)
<1>1. /\ req \in [Conns -> ReqRec] /\ pc \in [Conns -> Steps] /\ "sent" \in Steps
      /\ entries \in Seq(EntryRec) /\ e \in 1 .. Len(entries)
  BY RespondEffect DEF Responds, SafeInv, TypeInv, Steps
<1>2. entries[e].content \in Nat /\ entries[e].size \in Nat
  BY <1>1, EntryFields
<1>3. /\ x \in ResRec /\ x.status = 200 /\ x.len = entries[e].size
      /\ x.content = IF entries[e].size = 0 THEN 0 ELSE entries[e].content
  BY <1>2, Responded
<1>4. req' = [req EXCEPT ![c].res = x] /\ Goto(c, "sent")
  BY DEF Respond, Entry
<1> HIDE DEF x
<1>5. /\ req' \in [Conns -> ReqRec] /\ \A d \in Conns : d # c => req'[d] = req[d]
      /\ req'[c].res = x /\ req'[c].uri = req[c].uri /\ req'[c].entry = req[c].entry
      /\ req'[c].sb = req[c].sb /\ req'[c].dup = req[c].dup
  BY <1>1, <1>3, <1>4, ReqRes
<1>6. /\ pc' \in [Conns -> Steps] /\ pc'[c] = "sent"
      /\ \A d \in Conns : d # c => pc'[d] = pc[d]
  BY <1>1, <1>4, Moved
<1>7. entries' \in Seq(EntryRec) /\ contents' \in Seq(ContentRec)
  BY RespondEffect DEF Responds
<1>8. TypeInv'
  BY <1>5, <1>6, <1>7 DEF SafeInv, TypeInv, Respond
<1>g. pc[c] = "respond" /\ UNCHANGED <<mtx, cache, clean>>
  BY DEF Respond
<1> QED
  BY <1>g, <1>3, <1>5, <1>6, <1>8 DEF Alone, RespondMoves

Removes(c) ==
  /\ pc[c] = "remove" /\ cache[req[c].uri] # 0
  /\ TypeInv' /\ Alone(c) /\ req' = req /\ pc'[c] = "destroy" /\ mtx = NONE
  /\ UNCHANGED <<mtx, entries, contents, clean>>
  /\ cache'[req[c].uri] = 0 /\ \A u \in Uris : u # req[c].uri => cache'[u] = cache[u]

(* Remove: the action has this effect.                                     *)
LEMMA RemoveEffect ==
    ASSUME SafeInv, NEW c \in Conns, RemoveCacheEntry(c), UNCHANGED <<file, edits>>, ~crashed'
    PROVE  Removes(c)
<1> DEFINE u == req[c].uri
<1>1. /\ pc \in [Conns -> Steps] /\ "destroy" \in Steps /\ cache \in [Uris -> Nat]
      /\ entries \in Seq(EntryRec) /\ req[c] \in ReqRec /\ cache_space \in Nat
  BY DEF SafeInv, TypeInv, Steps
<1>2. u \in Uris
  BY <1>1, ReqFields
<1>3. /\ cache[u] # 0 /\ cache_space' = cache_space + entries[cache[u]].size
      /\ cache' = [cache EXCEPT ![u] = 0] /\ Goto(c, "destroy") /\ mtx = NONE
      /\ UNCHANGED <<mtx, entries, contents, req, grown, crashed, clean, requests>>
  BY DEF RemoveCacheEntry, Crash
<1> HIDE DEF u
<1>4. cache[u] \in 1 .. Len(entries)
  BY <1>1, <1>2, <1>3, LenProperties DEF SafeInv, RangeInv, CacheInRange, ContentInRange, ReqInRange
<1>5. cache_space' \in Nat
  BY <1>1, <1>3, <1>4, EntryFields
<1>6. /\ pc' \in [Conns -> Steps] /\ pc'[c] = "destroy"
      /\ \A d \in Conns : d # c => pc'[d] = pc[d]
  BY <1>1, <1>3, Moved
<1>7. /\ cache' \in [Uris -> Nat] /\ cache'[u] = 0
      /\ \A v \in Uris : v # u => cache'[v] = cache[v]
  BY <1>1, <1>2, <1>3
<1>8. TypeInv'
  BY <1>3, <1>5, <1>6, <1>7 DEF SafeInv, TypeInv
<1>g. pc[c] = "remove" /\ cache[req[c].uri] # 0
  BY DEF RemoveCacheEntry, Crash
<1> QED
  BY <1>g, <1>3, <1>6, <1>7, <1>8 DEF Alone, u, Removes

(* DestroyInvalid and DestroyUncached free the connection's own entry.     *)
Frees(c) ==
  LET e == req[c].entry
      i == entries[e].content
  IN  /\ TypeInv' /\ Alone(c) /\ req' = req /\ pc'[c] = "sent" /\ pc[c] \in {"destroy", "full"}
      /\ UNCHANGED <<mtx, cache, clean>>
      /\ e \in 1 .. Len(entries) /\ entries[e].live /\ Len(entries') = Len(entries)
      /\ \A f \in 1 .. Len(entries) : f # e => entries'[f] = entries[f]
      /\ entries'[e].live = FALSE /\ entries'[e].content = 0
      /\ i \in 1 .. Len(contents) /\ contents' = RefcountDec(contents, i)
      /\ contents' \in Seq(ContentRec) /\ Len(contents') = Len(contents)

(* Free: the action has this effect.                                       *)
LEMMA FreeEffect ==
    ASSUME SafeInv, NEW c \in Conns, DestroyInvalid(c) \/ DestroyUncached(c), UNCHANGED <<file, edits>>
    PROVE  Frees(c)
<1> DEFINE e == req[c].entry
           i == entries[e].content
<1>1. /\ pc \in [Conns -> Steps] /\ "sent" \in Steps
      /\ entries \in Seq(EntryRec) /\ req[c] \in ReqRec
  BY DEF SafeInv, TypeInv, Steps
<1>2. /\ EntryDestroy(e) /\ Goto(c, "sent") /\ pc[c] \in {"destroy", "full"}
      /\ UNCHANGED <<mtx, cache, cache_space, req, clean, requests, grown, crashed>>
  BY DEF DestroyInvalid, DestroyUncached
<1>3. e \in 1 .. Len(entries) /\ entries[e].live
  <2>1. e \in Nat /\ Len(entries) \in Nat
    BY <1>1, ReqFields, LenProperties
  <2> QED
    BY <1>2, <2>1 DEF SafeInv, RangeInv, CacheInRange, ContentInRange, ReqInRange, LockInv,
          LockedAlive, OwnAlive, Using, Holding, Owning, Entry
<1> HIDE DEF e
<1>4. /\ entries' \in Seq(EntryRec) /\ Len(entries') = Len(entries)
      /\ \A f \in 1 .. Len(entries) : f # e => entries'[f] = entries[f]
      /\ entries'[e].live = FALSE /\ entries'[e].content = 0
      /\ i \in 1 .. Len(contents) /\ contents' = RefcountDec(contents, i)
      /\ contents' \in Seq(ContentRec) /\ Len(contents') = Len(contents)
  BY <1>2, <1>3, Destroyed DEF SafeInv
<1>5. /\ pc' \in [Conns -> Steps] /\ pc'[c] = "sent"
      /\ \A d \in Conns : d # c => pc'[d] = pc[d]
  BY <1>1, <1>2, Moved
<1>6. TypeInv'
  BY <1>2, <1>4, <1>5 DEF SafeInv, TypeInv
<1> QED
  BY <1>2, <1>3, <1>4, <1>5, <1>6 DEF Alone, e, Frees

Reads(c) ==
  LET e  == Len(entries) + 1
      i  == Len(contents) + 1
      sb == req[c].sb
  IN  /\ pc[c] = "read" /\ ~Unreadable(c) /\ UNCHANGED <<mtx, cache, clean>>
      /\ TypeInv' /\ Alone(c) /\ pc'[c] = "set"
      /\ req'[c].uri = req[c].uri /\ req'[c].entry = e /\ req'[c].dup = req[c].dup
      /\ req'[c].sb = sb /\ req'[c].res.status = 200 /\ req'[c].res.len = sb.size
      /\ req'[c].res.content = IF sb.size = 0 THEN 0 ELSE i
      /\ Len(entries') = e /\ \A f \in 1 .. Len(entries) : entries'[f] = entries[f]
      /\ entries'[e].uri = req[c].uri /\ entries'[e].mtime = sb.mtime
      /\ entries'[e].size = sb.size /\ entries'[e].content = i
      /\ entries'[e].holder = NONE /\ entries'[e].live
      /\ Len(contents') = i /\ \A j \in 1 .. Len(contents) : contents'[j] = contents[j]
      /\ contents'[i].ver = file[req[c].uri].ver /\ contents'[i].len = sb.size
      /\ contents'[i].count = IF sb.size = 0 THEN 1 ELSE 2

(* Read: the action has this effect.                                       *)
LEMMA ReadEffect ==
    ASSUME SafeInv, NEW c \in Conns, CreateReads(c), UNCHANGED <<file, edits>>
    PROVE  Reads(c)
<1> DEFINE e  == Len(entries) + 1
           i  == Len(contents) + 1
           q  == req[c]
           sb == q.sb
           z  == sb.size
           v  == file[q.uri].ver
           cs == RefcountCreate(contents, v, z)
           x  == Response(i, z)
           n  == [uri |-> q.uri, mtime |-> sb.mtime, size |-> z, content |-> i, holder |-> NONE, live |-> TRUE]
           s  == [q EXCEPT !.entry = e, !.res = x]
<1>1. /\ req \in [Conns -> ReqRec] /\ pc \in [Conns -> Steps] /\ "set" \in Steps
      /\ entries \in Seq(EntryRec) /\ contents \in Seq(ContentRec) /\ q \in ReqRec
      /\ file \in [Uris -> FileRec]
  BY DEF SafeInv, TypeInv, Steps
<1>2. /\ contents' = SetContentRef(cs, i, z) /\ entries' = Append(entries, n)
      /\ req' = [req EXCEPT ![c] = s] /\ Goto(c, "set")
      /\ UNCHANGED <<mtx, cache, cache_space, clean, requests, grown, crashed>>
  BY DEF CreateReads
<1>3. e \in Nat /\ i \in Nat /\ i # 0 /\ Len(contents) \in Nat
  BY <1>1, LenProperties
<1> HIDE DEF q
<1>4. q.uri \in Uris /\ sb.mtime \in Nat /\ z \in Nat
  BY <1>1, ReqFields
<1>5. v \in Nat
  <2>1. file[q.uri] \in FileRec
    BY <1>1, <1>4
  <2> QED
    BY <2>1 DEF FileRec
<1> HIDE DEF e, i, sb, z, v
<1>6. x \in ResRec /\ x.status = 200 /\ x.len = z /\ x.content = IF z = 0 THEN 0 ELSE i
  BY <1>3, <1>4, Responded
<1> HIDE DEF x
<1>7. s \in ReqRec /\ s.entry = e /\ s.res = x /\ s.uri = q.uri /\ s.dup = q.dup /\ s.sb = q.sb
  BY <1>1, <1>3, <1>6 DEF ReqRec
<1> HIDE DEF s
<1>8. /\ req' \in [Conns -> ReqRec] /\ req'[c] = s
      /\ \A d \in Conns : d # c => req'[d] = req[d]
  BY <1>1, <1>2, <1>7, ReqSet
<1>9. /\ pc' \in [Conns -> Steps] /\ pc'[c] = "set"
      /\ \A d \in Conns : d # c => pc'[d] = pc[d]
  BY <1>1, <1>2, Moved
<1>10. /\ n \in EntryRec /\ n.uri = q.uri /\ n.mtime = sb.mtime /\ n.size = z /\ n.content = i
       /\ n.holder = NONE /\ n.live = TRUE
  BY <1>3, <1>4 DEF EntryRec
<1> HIDE DEF n
<1>11. /\ entries' \in Seq(EntryRec) /\ Len(entries') = e /\ entries'[e] = n
       /\ \A f \in 1 .. Len(entries) : entries'[f] = entries[f]
  BY <1>1, <1>2, <1>10, AppendProperties DEF e
<1>12. /\ cs \in Seq(ContentRec) /\ Len(cs) = i /\ \A j \in 1 .. Len(contents) : cs[j] = contents[j]
       /\ cs[i] = [ver |-> v, len |-> z, count |-> 1]
  BY <1>1, <1>4, <1>5, RefcountCreated DEF i
<1>13. cs[i].ver = v /\ cs[i].len = z /\ cs[i].count = 1 /\ i \in 1 .. Len(cs)
  BY <1>3, <1>12
<1> HIDE DEF cs
<1>14. /\ contents' \in Seq(ContentRec) /\ Len(contents') = i
       /\ \A j \in 1 .. Len(cs) : j # i => contents'[j] = cs[j]
       /\ contents'[i].ver = v /\ contents'[i].len = z /\ contents'[i].count = IF z = 0 THEN 1 ELSE 2
  <2>1. CASE z = 0
    BY <1>2, <1>12, <1>13, <2>1 DEF SetContentRef
  <2>2. CASE z # 0
    <3>1. contents' = RefcountInc(cs, i)
      BY <1>2, <2>2 DEF SetContentRef
    <3> QED
      BY SMTT(30), <1>12, <1>13, <2>2, <3>1, RefcountInced
  <2> QED
    BY <2>1, <2>2
<1>15. \A j \in 1 .. Len(contents) : contents'[j] = contents[j]
  BY <1>3, <1>12, <1>14 DEF i
<1>16. TypeInv'
  BY <1>2, <1>8, <1>9, <1>11, <1>14 DEF SafeInv, TypeInv
<1>17. /\ req'[c].uri = q.uri /\ req'[c].entry = e /\ req'[c].dup = q.dup
       /\ req'[c].sb = sb /\ req'[c].res.status = 200 /\ req'[c].res.len = z
       /\ req'[c].res.content = IF z = 0 THEN 0 ELSE i
  BY <1>6, <1>7, <1>8 DEF sb
<1>18. /\ entries'[e].uri = q.uri /\ entries'[e].mtime = sb.mtime
       /\ entries'[e].size = z /\ entries'[e].content = i
       /\ entries'[e].holder = NONE /\ entries'[e].live
  BY <1>10, <1>11
<1>g. pc[c] = "read" /\ ~Unreadable(c) /\ UNCHANGED <<mtx, cache, clean>>
  BY DEF CreateReads
<1> QED
  BY <1>g, <1>8, <1>9, <1>11, <1>14, <1>15, <1>16, <1>17, <1>18 DEF Alone, e, i, q, sb, z, v, Reads

(* What try_set_cache_entry leaves in the table.                           *)
LEMMA Settled ==
    ASSUME SafeInv, NEW c \in Conns, req[c].entry # 0, NEW space \in Nat, Settle(c, space)
    PROVE  LET fits == ~(space < Entry(c).size)
               u    == req[c].uri
           IN  /\ pc' \in [Conns -> Steps] /\ pc'[c] = IF fits THEN "sent" ELSE "full"
               /\ \A d \in Conns : d # c => pc'[d] = pc[d]
               /\ cache_space' \in Nat /\ cache' \in [Uris -> Nat]
               /\ cache'[u] = IF fits THEN req[c].entry ELSE 0
               /\ \A w \in Uris : w # u => cache'[w] = cache[w]
<1> DEFINE e    == req[c].entry
           z    == entries[e].size
           u    == req[c].uri
           step == IF space < z THEN "full" ELSE "sent"
           new  == IF space < z THEN 0 ELSE e
<1>1. /\ pc \in [Conns -> Steps] /\ cache \in [Uris -> Nat] /\ step \in Steps
      /\ entries \in Seq(EntryRec) /\ req[c] \in ReqRec
  BY DEF SafeInv, TypeInv, Steps
<1>2. u \in Uris /\ e \in Nat /\ e <= Len(entries)
  BY <1>1, ReqFields DEF SafeInv, RangeInv, CacheInRange, ContentInRange, ReqInRange
<1>3. z \in Nat
  BY <1>1, <1>2, EntryFields, LenProperties
<1>4. /\ cache_space' = IF space < z THEN space ELSE space - z
      /\ cache' = [cache EXCEPT ![u] = new] /\ Goto(c, step)
  BY DEF Settle, Entry
<1> HIDE DEF e, z, u, step
<1>5. cache_space' \in Nat
  BY <1>3, <1>4
<1>6. /\ pc' \in [Conns -> Steps] /\ pc'[c] = step
      /\ \A d \in Conns : d # c => pc'[d] = pc[d]
  BY <1>1, <1>4, Moved
<1>7. /\ cache' \in [Uris -> Nat] /\ cache'[u] = new
      /\ \A w \in Uris : w # u => cache'[w] = cache[w]
  BY <1>1, <1>2, <1>4
<1> QED
  BY <1>5, <1>6, <1>7 DEF e, z, u, step, Entry

SetsFirst(c) ==
  /\ pc[c] = "set" /\ mtx = NONE /\ cache[req[c].uri] = 0
  /\ TypeInv' /\ Alone(c) /\ UNCHANGED <<mtx, entries, contents, req, clean>>
  /\ pc'[c] \in {"sent", "full"}
  /\ cache'[req[c].uri] = IF pc'[c] = "sent" THEN req[c].entry ELSE 0
  /\ \A w \in Uris : w # req[c].uri => cache'[w] = cache[w]

(* SetFirst: the action has this effect.                                   *)
LEMMA SetFirstEffect ==
    ASSUME SafeInv, NEW c \in Conns, SetFirst(c), UNCHANGED <<file, edits>>
    PROVE  SetsFirst(c)
<1>1. req[c].entry # 0 /\ cache_space \in Nat
  BY DEF SafeInv, TypeInv, RangeInv, CacheInRange, ContentInRange, ReqInRange, SetFirst, Using,
        Owning
<1>2. /\ Settle(c, cache_space)
      /\ UNCHANGED <<mtx, entries, contents, req, clean, requests, grown, crashed>>
  BY DEF SetFirst
<1>3. /\ pc' \in [Conns -> Steps] /\ pc'[c] \in {"sent", "full"}
      /\ \A d \in Conns : d # c => pc'[d] = pc[d]
      /\ cache_space' \in Nat /\ cache' \in [Uris -> Nat]
      /\ cache'[req[c].uri] = IF pc'[c] = "sent" THEN req[c].entry ELSE 0
      /\ \A w \in Uris : w # req[c].uri => cache'[w] = cache[w]
  BY <1>1, <1>2, Settled
<1>4. TypeInv'
  BY <1>2, <1>3 DEF SafeInv, TypeInv
<1>g. pc[c] = "set" /\ mtx = NONE /\ cache[req[c].uri] = 0
  BY DEF SetFirst
<1> QED
  BY <1>g, <1>2, <1>3, <1>4 DEF Alone, SetsFirst

SetsDuplicate(c) ==
  LET u == req[c].uri
  IN  /\ pc[c] = "set"
      /\ TypeInv' /\ Alone(c) /\ pc'[c] = "dup" /\ mtx = NONE /\ mtx' = c
      /\ UNCHANGED <<entries, contents, clean>>
      /\ cache[u] # 0 /\ req'[c].dup = cache[u] /\ req'[c].uri = u
      /\ req'[c].entry = req[c].entry /\ req'[c].sb = req[c].sb /\ req'[c].res = req[c].res
      /\ cache'[u] = 0 /\ \A w \in Uris : w # u => cache'[w] = cache[w]

(* SetDuplicate: the action has this effect.                               *)
LEMMA SetDuplicateEffect ==
    ASSUME SafeInv, NEW c \in Conns, SetDuplicate(c), UNCHANGED <<file, edits>>
    PROVE  SetsDuplicate(c)
<1> DEFINE u == req[c].uri
           x == cache[u]
<1>1. /\ req \in [Conns -> ReqRec] /\ pc \in [Conns -> Steps] /\ "dup" \in Steps
      /\ cache \in [Uris -> Nat] /\ req[c] \in ReqRec
  BY DEF SafeInv, TypeInv, Steps
<1>2. u \in Uris
  BY <1>1, ReqFields
<1>3. /\ x # 0 /\ mtx = NONE /\ mtx' = c /\ req' = [req EXCEPT ![c].dup = x]
      /\ cache' = [cache EXCEPT ![u] = 0] /\ Goto(c, "dup")
      /\ UNCHANGED <<cache_space, entries, contents, clean, requests, grown, crashed>>
  BY DEF SetDuplicate
<1> HIDE DEF u
<1>4. x \in Nat
  BY <1>1, <1>2
<1> HIDE DEF x
<1>5. /\ req' \in [Conns -> ReqRec] /\ \A d \in Conns : d # c => req'[d] = req[d]
      /\ req'[c].dup = x /\ req'[c].uri = req[c].uri /\ req'[c].entry = req[c].entry
      /\ req'[c].sb = req[c].sb /\ req'[c].res = req[c].res
  BY <1>1, <1>3, <1>4, ReqDup
<1>6. /\ pc' \in [Conns -> Steps] /\ pc'[c] = "dup"
      /\ \A d \in Conns : d # c => pc'[d] = pc[d]
  BY <1>1, <1>3, Moved
<1>7. /\ cache' \in [Uris -> Nat] /\ cache'[u] = 0
      /\ \A w \in Uris : w # u => cache'[w] = cache[w]
  BY <1>1, <1>2, <1>3
<1>8. TypeInv'
  BY <1>3, <1>5, <1>6, <1>7 DEF SafeInv, TypeInv
<1>g. pc[c] = "set"
  BY DEF SetDuplicate
<1> QED
  BY <1>g, <1>3, <1>5, <1>6, <1>7, <1>8 DEF Alone, u, x, SetsDuplicate

LocksDuplicate(c) ==
  LET e == req[c].dup
      i == entries[e].content
      u == req[c].uri
  IN  /\ pc[c] = "dup"
      /\ TypeInv' /\ Alone(c) /\ req' = req /\ mtx' = NONE /\ UNCHANGED clean
      /\ pc'[c] \in {"sent", "full"}
      /\ cache'[u] = IF pc'[c] = "sent" THEN req[c].entry ELSE 0
      /\ \A w \in Uris : w # u => cache'[w] = cache[w]
      /\ e \in 1 .. Len(entries) /\ entries[e].live /\ entries[e].holder = NONE
      /\ Len(entries') = Len(entries)
      /\ \A f \in 1 .. Len(entries) : f # e => entries'[f] = entries[f]
      /\ entries'[e].live = FALSE /\ entries'[e].content = 0
      /\ i \in 1 .. Len(contents) /\ contents' = RefcountDec(contents, i)
      /\ contents' \in Seq(ContentRec) /\ Len(contents') = Len(contents)

(* LockDuplicate: the action has this effect.                              *)
LEMMA LockDuplicateEffect ==
    ASSUME SafeInv, NEW c \in Conns, LockDuplicate(c), UNCHANGED <<file, edits>>
    PROVE  LocksDuplicate(c)
<1> DEFINE e == req[c].dup
           i == entries[e].content
           u == req[c].uri
           space == cache_space + entries[e].size
<1>1. /\ pc \in [Conns -> Steps] /\ cache_space \in Nat
      /\ entries \in Seq(EntryRec) /\ req[c] \in ReqRec
  BY DEF SafeInv, TypeInv, Steps
<1>2. /\ EntryDestroy(e) /\ Settle(c, space) /\ pc[c] = "dup" /\ mtx' = NONE
      /\ entries[e].holder = NONE /\ UNCHANGED <<req, clean, requests, grown, crashed>>
  BY DEF LockDuplicate
<1>3. e \in 1 .. Len(entries) /\ entries[e].live /\ req[c].entry # 0
  <2>1. e \in Nat /\ Len(entries) \in Nat
    BY <1>1, ReqFields, LenProperties
  <2> QED
    BY <1>2, <2>1 DEF SafeInv, RangeInv, CacheInRange, ContentInRange, ReqInRange, PlaceInv,
          DupAlive, Using, Owning
<1> HIDE DEF e
<1>4. space \in Nat
  BY <1>1, <1>3, EntryFields
<1>5. /\ entries' \in Seq(EntryRec) /\ Len(entries') = Len(entries)
      /\ \A f \in 1 .. Len(entries) : f # e => entries'[f] = entries[f]
      /\ entries'[e].live = FALSE /\ entries'[e].content = 0
      /\ i \in 1 .. Len(contents) /\ contents' = RefcountDec(contents, i)
      /\ contents' \in Seq(ContentRec) /\ Len(contents') = Len(contents)
  BY <1>2, <1>3, Destroyed DEF SafeInv
<1> HIDE DEF space
<1>6. /\ pc' \in [Conns -> Steps] /\ pc'[c] \in {"sent", "full"}
      /\ \A d \in Conns : d # c => pc'[d] = pc[d]
      /\ cache_space' \in Nat /\ cache' \in [Uris -> Nat]
      /\ cache'[u] = IF pc'[c] = "sent" THEN req[c].entry ELSE 0
      /\ \A w \in Uris : w # u => cache'[w] = cache[w]
  BY <1>2, <1>3, <1>4, Settled
<1>7. TypeInv'
  BY <1>2, <1>5, <1>6 DEF SafeInv, TypeInv
<1>g. pc[c] = "dup"
  BY DEF LockDuplicate
<1> QED
  BY <1>g, <1>2, <1>3, <1>5, <1>6, <1>7 DEF Alone, e, LocksDuplicate

Finalizes(c) ==
  LET i == req[c].res.content
  IN  /\ TypeInv' /\ Alone(c) /\ pc[c] = "sent" /\ pc'[c] = "idle" /\ req'[c] = NoReq
      /\ UNCHANGED <<mtx, cache, entries>>
      /\ \A d \in Conns : d # c => clean'[d] = clean[d]
      /\ i \in 0 .. Len(contents) /\ Len(contents') = Len(contents)
      /\ i = 0 => contents' = contents
      /\ i # 0 => contents' = RefcountDec(contents, i)

(* Finalize: the action has this effect.                                   *)
LEMMA FinalizeEffect ==
    ASSUME SafeInv, NEW c \in Conns, Finalize(c), UNCHANGED <<file, edits>>
    PROVE  Finalizes(c)
<1> DEFINE i == req[c].res.content
<1>1. /\ req \in [Conns -> ReqRec] /\ pc \in [Conns -> Steps] /\ "idle" \in Steps
      /\ req[c] \in ReqRec /\ contents \in Seq(ContentRec)
  BY DEF SafeInv, TypeInv, Steps
<1>2. i \in 0 .. Len(contents)
  BY <1>1, ReqFields, LenProperties DEF SafeInv, RangeInv, CacheInRange, ContentInRange, ReqInRange
<1>3. /\ contents' = IF i = 0 THEN contents ELSE RefcountDec(contents, i)
      /\ req' = [req EXCEPT ![c] = NoReq] /\ clean' = [clean EXCEPT ![c] = TRUE] /\ Goto(c, "idle")
      /\ pc[c] = "sent" /\ UNCHANGED <<mtx, cache, cache_space, entries, requests, grown, crashed>>
  BY DEF Finalize
<1> HIDE DEF i
<1>4. NoReq \in ReqRec
  BY UrisAssumption, Blank
<1>5. /\ req' \in [Conns -> ReqRec] /\ req'[c] = NoReq
      /\ \A d \in Conns : d # c => req'[d] = req[d]
  BY <1>1, <1>3, <1>4, ReqSet
<1>6. /\ pc' \in [Conns -> Steps] /\ pc'[c] = "idle"
      /\ \A d \in Conns : d # c => pc'[d] = pc[d]
  BY <1>1, <1>3, Moved
<1>7. contents' \in Seq(ContentRec) /\ Len(contents') = Len(contents)
  BY <1>1, <1>2, <1>3, RefcountDeced
<1>8. /\ clean' \in [Conns -> BOOLEAN]
      /\ \A d \in Conns : d # c => clean'[d] = clean[d]
  BY <1>3 DEF SafeInv, TypeInv
<1>9. TypeInv'
  BY <1>3, <1>5, <1>6, <1>7, <1>8 DEF SafeInv, TypeInv
<1> QED
  BY <1>2, <1>3, <1>5, <1>6, <1>7, <1>8, <1>9 DEF Alone, i, Finalizes

(* uo_http_file_server_destroy frees the entries of the table.             *)
Gone == {cache[u] : u \in Uris} \ {0}

Destroys ==
  /\ TypeInv' /\ UNCHANGED <<pc, req, clean>> /\ \A u \in Uris : cache'[u] = 0
  /\ \A c \in Conns : pc[c] \in {"idle", "sent"}
  /\ mtx = NONE /\ mtx' = FREED
  /\ Len(entries') = Len(entries)
  /\ \A e \in 1 .. Len(entries) : entries'[e] = IF e \in Gone THEN FreedEntry ELSE entries[e]
  /\ Len(contents') = Len(contents)
  /\ \A i \in 1 .. Len(contents) :
        contents'[i] = IF \E e \in Gone : entries[e].content = i
                       THEN RefcountDec(contents, i)[i] ELSE contents[i]

(* Destroy: the action has this effect.                                    *)
LEMMA DestroyEffect ==
    ASSUME SafeInv, Destroy, UNCHANGED <<file, edits>>
    PROVE  Destroys
<1>1. /\ entries \in Seq(EntryRec) /\ contents \in Seq(ContentRec)
  BY DEF SafeInv, TypeInv
<1>2. DOMAIN entries = 1 .. Len(entries) /\ DOMAIN contents = 1 .. Len(contents)
      /\ Len(entries) \in Nat /\ Len(contents) \in Nat
  BY <1>1, LenProperties
<1> DEFINE ent(e) == IF e \in Gone THEN FreedEntry ELSE entries[e]
           con(i) == IF \E e \in Gone : entries[e].content = i
                     THEN RefcountDec(contents, i)[i] ELSE contents[i]
<1>3. /\ entries' = [e \in 1 .. Len(entries) |-> ent(e)]
      /\ contents' = [i \in 1 .. Len(contents) |-> con(i)]
      /\ cache' = [u \in Uris |-> 0] /\ mtx = NONE /\ mtx' = FREED
      /\ \A c \in Conns : pc[c] \in {"idle", "sent"}
      /\ UNCHANGED <<cache_space, pc, req, clean, requests, grown, crashed>>
  BY <1>2 DEF Destroy, Gone
<1>4. FreedEntry \in EntryRec
  BY DEF FreedEntry, EntryRec
<1>5. \A e \in 1 .. Len(entries) : ent(e) \in EntryRec
  BY <1>1, <1>4, EntryFields
<1>6. \A i \in 1 .. Len(contents) : con(i) \in ContentRec
  <2> TAKE i \in 1 .. Len(contents)
  <2>1. RefcountDec(contents, i) \in Seq(ContentRec) /\ Len(RefcountDec(contents, i)) = Len(contents)
    BY <1>1, RefcountDeced
  <2>2. RefcountDec(contents, i)[i] \in ContentRec /\ contents[i] \in ContentRec
    BY <1>1, <2>1, ContentFields
  <2> QED
    BY <2>2
<1> HIDE DEF ent, con
<1>7. /\ entries' \in Seq(EntryRec) /\ Len(entries') = Len(entries)
      /\ \A e \in 1 .. Len(entries) : entries'[e] = ent(e)
  BY <1>2, <1>3, <1>5, SeqDef, LenProperties
<1>8. /\ contents' \in Seq(ContentRec) /\ Len(contents') = Len(contents)
      /\ \A i \in 1 .. Len(contents) : contents'[i] = con(i)
  BY <1>2, <1>3, <1>6, SeqDef, LenProperties
<1>9. TypeInv'
  BY <1>3, <1>7, <1>8 DEF SafeInv, TypeInv
<1> QED
  BY <1>3, <1>7, <1>8, <1>9 DEF ent, con, Destroys

(* Somebody edits a file: only the file and `clean' change.                *)
Edits(u) ==
  /\ TypeInv' /\ UNCHANGED <<mtx, cache, cache_space, entries, contents, pc, req>>
  /\ edits' = edits + 1
  /\ file'[u].ver \in {0, edits + 1} /\ (file'[u].ver # 0 => file'[u].mtime \in 1 .. edits')
  /\ \A w \in Uris : w # u => file'[w] = file[w]
  /\ \A c \in Conns : clean'[c] => clean[c] /\ (req[c].uri # u \/ pc[c] = "idle")

(* Edit: the action has this effect.                                       *)
LEMMA EditEffect ==
    ASSUME SafeInv, NEW u \in Uris, EditFile(u)
    PROVE  Edits(u)
<1>1. file \in [Uris -> FileRec] /\ edits \in Nat /\ clean \in [Conns -> BOOLEAN]
  BY DEF SafeInv, TypeInv
<1>2. PICK r \in FileRec : /\ r.ver \in {0, edits + 1} /\ (r.ver # 0 => r.mtime \in 1 .. edits + 1)
                          /\ file' = [file EXCEPT ![u] = r]
  <2>1. CASE \E n \in FileSizes, t \in 1 .. edits + 1 :
               file' = [file EXCEPT ![u] = [ver |-> edits + 1, mtime |-> t, size |-> n]]
    <3>1. PICK n \in FileSizes, t \in 1 .. edits + 1 :
            file' = [file EXCEPT ![u] = [ver |-> edits + 1, mtime |-> t, size |-> n]]
      BY <2>1
    <3> DEFINE r == [ver |-> edits + 1, mtime |-> t, size |-> n]
    <3>2. r \in FileRec /\ r.ver = edits + 1 /\ r.mtime \in 1 .. edits + 1
      <4>1. n \in Nat /\ t \in Nat /\ edits + 1 \in Nat
        BY <1>1, FileSizesAssumption
      <4> QED
        BY <4>1 DEF FileRec
    <3> HIDE DEF r
    <3> QED
      BY <3>1, <3>2 DEF r
  <2>2. CASE file' = [file EXCEPT ![u] = NoFile]
    <3>1. NoFile \in FileRec /\ NoFile.ver = 0
      BY DEF NoFile, FileRec
    <3> QED
      BY <2>2, <3>1
  <2> QED
    BY <2>1, <2>2 DEF EditFile
<1>3. /\ file' \in [Uris -> FileRec] /\ file'[u] = r
      /\ \A w \in Uris : w # u => file'[w] = file[w]
  BY <1>1, <1>2
<1>4. clean' = [c \in Conns |-> clean[c] /\ (req[c].uri # u \/ pc[c] = "idle")]
  BY DEF EditFile
<1>5. /\ clean' \in [Conns -> BOOLEAN]
      /\ \A c \in Conns : clean'[c] => clean[c] /\ (req[c].uri # u \/ pc[c] = "idle")
  BY <1>1, <1>4, Zenon
<1>6. edits' = edits + 1 /\ edits' \in Nat
      /\ UNCHANGED <<mtx, cache, cache_space, entries, contents, pc, req, requests, grown, crashed>>
  BY <1>1 DEF EditFile
<1>7. TypeInv'
  BY <1>3, <1>5, <1>6 DEF SafeInv, TypeInv
<1> QED
  BY <1>2, <1>3, <1>5, <1>6, <1>7 DEF Edits

-----------------------------------------------------------------------------
(* What the types and ranges say of the indices.                           *)
Basic ==
  /\ Len(entries) \in Nat /\ Len(contents) \in Nat
  /\ \A u \in Uris : cache[u] \in Nat
  /\ \A e \in 1 .. Len(entries) : entries[e].content \in Nat /\ entries[e].live \in BOOLEAN
  /\ \A c \in Conns : /\ req[c].uri \in Uris /\ req[c].entry \in Nat /\ req[c].dup \in Nat
                       /\ req[c].res.content \in Nat /\ pc[c] \in Steps

(* The types of the fields, in the form in which steps use them.           *)
LEMMA Basics == TypeInv => Basic
<1> SUFFICES ASSUME TypeInv PROVE Basic
  OBVIOUS
<1>1. /\ entries \in Seq(EntryRec) /\ contents \in Seq(ContentRec)
      /\ \A u \in Uris : cache[u] \in Nat
      /\ \A c \in Conns : req[c] \in ReqRec /\ pc[c] \in Steps
  BY DEF TypeInv
<1>2. Len(entries) \in Nat /\ Len(contents) \in Nat
  BY <1>1, LenProperties
<1>3. \A e \in 1 .. Len(entries) : entries[e].content \in Nat /\ entries[e].live \in BOOLEAN
  BY <1>1, EntryFields
<1>4. \A c \in Conns : /\ req[c].uri \in Uris /\ req[c].entry \in Nat /\ req[c].dup \in Nat
                        /\ req[c].res.content \in Nat
  BY <1>1, ReqFields
<1> QED
  BY <1>1, <1>2, <1>3, <1>4 DEF Basic

InRange ==
  /\ \A u \in Uris : cache[u] # 0 => cache[u] \in 1 .. Len(entries)
  /\ \A c \in Conns :
        /\ req[c].uri \in Uris
        /\ pc[c] \in Using => req[c].entry \in 1 .. Len(entries)
        /\ pc[c] = "dup" => req[c].dup \in 1 .. Len(entries)

(* The ranges of the references, in the form in which steps use them.      *)
LEMMA Ranges == SafeInv => Basic /\ InRange
<1> SUFFICES ASSUME SafeInv PROVE Basic /\ InRange
  OBVIOUS
<1>1. Basic
  BY Basics DEF SafeInv
<1>2. InRange
  BY <1>1 DEF SafeInv, Basic, InRange, RangeInv, CacheInRange, ReqInRange
<1> QED
  BY <1>1, <1>2

(* Get: the effect keeps the ranges, the locks and the places of the       *)
(* entries.                                                                *)
LEMMA GetSafe ==
    ASSUME SafeInv, NEW c \in Conns, NEW u \in Uris, Gets(c, u)
    PROVE  RangeInv' /\ LockInv' /\ PlaceInv'
<1>1. Basic /\ Basic' /\ InRange /\ RangeInv /\ LockInv /\ PlaceInv
  <2>1. TypeInv'
    BY DEF Gets
  <2> QED
    BY <2>1, Basics, Ranges, PTL DEF SafeInv
<1>2. /\ Alone(c) /\ pc[c] = "idle" /\ UNCHANGED <<mtx, cache, entries, contents>> /\ mtx = NONE
      /\ pc'[c] = IF cache[u] = 0 THEN "create" ELSE "lock"
      /\ req'[c].uri = u /\ req'[c].entry = cache[u] /\ req'[c].dup = 0 /\ req'[c].res.content = 0
  BY <1>1, Blank DEF Gets, Basic, RangeInv, ContentInRange
<1>3. CacheInRange'
  BY <1>1, <1>2 DEF Basic, RangeInv, CacheInRange, ReqInRange, Alone, Using, Holding, Owning
<1>4. ContentInRange'
  BY <1>1, <1>2 DEF Basic, RangeInv, ContentInRange, Alone, Using, Holding, Owning
<1>5. ReqInRange'
  BY <1>1, <1>2 DEF Basic, RangeInv, ReqInRange, CacheInRange, Alone, Using, Holding, Owning
<1>6. MutexHeld'
  BY <1>1, <1>2, ConnsAssumption DEF LockInv, MutexHeld, NONE, FREED, Alone, Using, Holding, Owning
<1>7. LockedAlive'
  BY <1>1, <1>2, ConnsAssumption DEF LockInv, LockedAlive, OwnAlive, Entry, InRange, NONE,
        LookupUri, Alone, Using, Holding, Owning
<1>8. OwnAlive'
  BY <1>1, <1>2, ConnsAssumption DEF LockInv, LockedAlive, OwnAlive, Entry, InRange, NONE,
        PlaceInv, OwnedAlone, Unpublished, Replaced, Alone, Using, Holding, Owning
<1>9. LookupUri'
  BY <1>1, <1>2 DEF LockInv, LookupUri, Entry, InRange, PlaceInv, CacheAlive, Alone, Using,
        Holding, Owning
<1>10. CacheAlive'
  BY <1>1, <1>2 DEF PlaceInv, CacheAlive, InRange, Unpublished, LockInv, OwnAlive, DupAlive,
        LockedAlive, Entry, Alone, Using, Holding, Owning
<1>11. LockedPlaced'
  BY <1>1, <1>2 DEF PlaceInv, LockedPlaced, LookupPlaced, InRange, Replaced, LockInv,
        LockedAlive, Entry, MutexHeld, DupAlive, Alone, Using, Holding, Owning
<1>12. LookupPlaced'
  BY SMTT(30), <1>1, <1>2 DEF PlaceInv, LockedPlaced, LookupPlaced, InRange, Replaced, LockInv,
        LockedAlive, Entry, LookupUri, DupAlive, Alone, Using, Holding, Owning
<1>13. Unpublished'
  BY <1>1, <1>2 DEF PlaceInv, Unpublished, CacheAlive, OwnedAlone, InRange, Replaced, LockInv,
        LockedAlive, OwnAlive, Entry, DupAlive, Alone, Using, Holding, Owning
<1>14. OwnedAlone'
  BY <1>1, <1>2 DEF PlaceInv, OwnedAlone, InRange, Unpublished, LockInv, OwnAlive, Entry,
        CacheAlive, Alone, Using, Holding, Owning
<1>15. DupAlive'
  BY <1>1, <1>2 DEF PlaceInv, DupAlive, CacheAlive, InRange, MutexHeld, LockInv, Replaced,
        Unpublished, OwnAlive, LockedAlive, Entry, Alone, Using, Holding, Owning
<1> QED
  BY <1>3, <1>4, <1>5, <1>6, <1>7, <1>8, <1>9, <1>10, <1>11, <1>12, <1>13, <1>14, <1>15
    DEF RangeInv, LockInv, PlaceInv

(* Lock: the effect keeps the ranges, the locks and the places of the      *)
(* entries.                                                                *)
LEMMA LockSafe ==
    ASSUME SafeInv, NEW c \in Conns, Locks(c)
    PROVE  RangeInv' /\ LockInv' /\ PlaceInv'
<1>1. Basic /\ Basic' /\ InRange /\ RangeInv /\ LockInv /\ PlaceInv
  <2>1. TypeInv'
    BY DEF Locks
  <2> QED
    BY <2>1, Basics, Ranges, PTL DEF SafeInv
<1>2. /\ Alone(c) /\ pc[c] = "lock" /\ pc'[c] = "stat" /\ UNCHANGED <<mtx, cache, contents, req>>
      /\ \A f \in 1 .. Len(entries) : entries'[f].content = entries[f].content
      /\ req[c].entry \in 1 .. Len(entries) /\ Len(entries') = Len(entries)
      /\ \A f \in 1 .. Len(entries) :
            entries'[f].live = entries[f].live /\ entries'[f].uri = entries[f].uri
      /\ \A f \in 1 .. Len(entries) : f # req[c].entry => entries'[f].holder = entries[f].holder
      /\ entries[req[c].entry].live /\ entries[req[c].entry].holder = NONE /\ entries'[req[c].entry].holder = c
  BY <1>1 DEF Locks, Basic, RangeInv, ContentInRange
<1>3. CacheInRange'
  BY <1>1, <1>2 DEF Basic, RangeInv, CacheInRange, ReqInRange, Alone, Using, Holding, Owning
<1>4. ContentInRange'
  BY <1>1, <1>2 DEF Basic, RangeInv, ContentInRange, Alone, Using, Holding, Owning
<1>5. ReqInRange'
  BY <1>1, <1>2 DEF Basic, RangeInv, ReqInRange, CacheInRange, Alone, Using, Holding, Owning
<1>6. MutexHeld'
  BY <1>1, <1>2, ConnsAssumption DEF LockInv, MutexHeld, NONE, FREED, Alone, Using, Holding, Owning
<1>7. LockedAlive'
  BY <1>1, <1>2, ConnsAssumption DEF LockInv, LockedAlive, OwnAlive, Entry, InRange, NONE,
        LookupUri, Alone, Using, Holding, Owning
<1>8. OwnAlive'
  BY <1>1, <1>2, ConnsAssumption DEF LockInv, LockedAlive, OwnAlive, Entry, InRange, NONE,
        PlaceInv, OwnedAlone, Unpublished, Replaced, Alone, Using, Holding, Owning
<1>9. LookupUri'
  BY <1>1, <1>2 DEF LockInv, LookupUri, Entry, InRange, PlaceInv, CacheAlive, Alone, Using,
        Holding, Owning
<1>10. CacheAlive'
  BY <1>1, <1>2, ConnsAssumption DEF PlaceInv, CacheAlive, InRange, Unpublished, LockInv,
        OwnAlive, DupAlive, LockedAlive, Entry, NONE, MutexHeld, Alone, Using, Holding, Owning
<1>11. LockedPlaced'
  BY <1>1, <1>2, ConnsAssumption DEF PlaceInv, LockedPlaced, LookupPlaced, InRange, Replaced,
        LockInv, LockedAlive, Entry, MutexHeld, DupAlive, NONE, Alone, Using, Holding, Owning
<1>12. LookupPlaced'
  BY SMTT(30), <1>1, <1>2, ConnsAssumption
    DEF PlaceInv, LockedPlaced, LookupPlaced, InRange, Replaced, LockInv, LockedAlive, Entry,
        LookupUri, DupAlive, NONE, MutexHeld, Alone, Using, Holding, Owning
<1>13. Unpublished'
  BY SMTT(30), <1>1, <1>2 DEF PlaceInv, Unpublished, CacheAlive, OwnedAlone, InRange, Replaced,
        LockInv, LockedAlive, OwnAlive, Entry, DupAlive, Alone, Using, Holding, Owning
<1>14. OwnedAlone'
  BY <1>1, <1>2 DEF PlaceInv, OwnedAlone, InRange, Unpublished, LockInv, OwnAlive, Entry,
        CacheAlive, Alone, Using, Holding, Owning
<1>15. DupAlive'
  BY <1>1, <1>2, ConnsAssumption DEF PlaceInv, DupAlive, CacheAlive, InRange, MutexHeld, LockInv,
        Replaced, Unpublished, OwnAlive, LockedAlive, Entry, NONE, Alone, Using, Holding, Owning
<1> QED
  BY <1>3, <1>4, <1>5, <1>6, <1>7, <1>8, <1>9, <1>10, <1>11, <1>12, <1>13, <1>14, <1>15
    DEF RangeInv, LockInv, PlaceInv

(* Stat: the effect keeps the ranges, the locks and the places of the      *)
(* entries.                                                                *)
LEMMA StatSafe ==
    ASSUME SafeInv, NEW c \in Conns, Stats(c)
    PROVE  RangeInv' /\ LockInv' /\ PlaceInv'
<1>1. Basic /\ Basic' /\ InRange /\ RangeInv /\ LockInv /\ PlaceInv
  <2>1. TypeInv'
    BY DEF Stats
  <2> QED
    BY <2>1, Basics, Ranges, PTL DEF SafeInv
<1>2. CacheInRange'
  BY <1>1 DEF Basic, RangeInv, CacheInRange, ReqInRange, Alone, Using, Holding, Owning, Stats
<1>3. ContentInRange'
  BY <1>1 DEF Basic, RangeInv, ContentInRange, Alone, Using, Holding, Owning, Stats
<1>4. ReqInRange'
  BY SMTT(30), <1>1 DEF Basic, RangeInv, ReqInRange, CacheInRange, Alone, Using, Holding, Owning,
        Stats
<1>5. MutexHeld'
  BY <1>1, ConnsAssumption DEF LockInv, MutexHeld, NONE, FREED, Alone, Using, Holding, Owning, Stats
<1>6. LockedAlive'
  BY <1>1, ConnsAssumption DEF LockInv, LockedAlive, OwnAlive, Entry, InRange, NONE, LookupUri,
        Alone, Using, Holding, Owning, Stats
<1>7. OwnAlive'
  BY <1>1, ConnsAssumption DEF LockInv, LockedAlive, OwnAlive, Entry, InRange, NONE, PlaceInv,
        OwnedAlone, Unpublished, Replaced, Alone, Using, Holding, Owning, Stats
<1>8. LookupUri'
  BY <1>1 DEF LockInv, LookupUri, Entry, InRange, PlaceInv, CacheAlive, Alone, Using, Holding,
        Owning, Stats
<1>9. CacheAlive'
  BY <1>1 DEF PlaceInv, CacheAlive, InRange, Unpublished, LockInv, OwnAlive, DupAlive,
        LockedAlive, Entry, Alone, Using, Holding, Owning, Stats
<1>10. LockedPlaced'
  BY <1>1 DEF PlaceInv, LockedPlaced, LookupPlaced, InRange, Replaced, LockInv, LockedAlive,
        Entry, MutexHeld, DupAlive, Alone, Using, Holding, Owning, Stats
<1>11. LookupPlaced'
  BY SMTT(30), <1>1 DEF PlaceInv, LockedPlaced, LookupPlaced, InRange, Replaced, LockInv,
        LockedAlive, Entry, LookupUri, DupAlive, Alone, Using, Holding, Owning, Stats
<1>12. Unpublished'
  BY <1>1 DEF PlaceInv, Unpublished, CacheAlive, OwnedAlone, InRange, Replaced, LockInv,
        LockedAlive, OwnAlive, Entry, DupAlive, Alone, Using, Holding, Owning, Stats
<1>13. OwnedAlone'
  BY <1>1 DEF PlaceInv, OwnedAlone, InRange, Unpublished, LockInv, OwnAlive, Entry, CacheAlive,
        Alone, Using, Holding, Owning, Stats
<1>14. DupAlive'
  BY <1>1 DEF PlaceInv, DupAlive, CacheAlive, InRange, MutexHeld, LockInv, Replaced, Unpublished,
        OwnAlive, LockedAlive, Entry, Alone, Using, Holding, Owning, Stats
<1> QED
  BY <1>2, <1>3, <1>4, <1>5, <1>6, <1>7, <1>8, <1>9, <1>10, <1>11, <1>12, <1>13, <1>14
    DEF RangeInv, LockInv, PlaceInv

(* Fail: the effect keeps the ranges, the locks and the places of the      *)
(* entries.                                                                *)
LEMMA FailSafe ==
    ASSUME SafeInv, NEW c \in Conns, Fails(c)
    PROVE  RangeInv' /\ LockInv' /\ PlaceInv'
<1>1. Basic /\ Basic' /\ InRange /\ RangeInv /\ LockInv /\ PlaceInv
  <2>1. TypeInv'
    BY DEF Fails
  <2> QED
    BY <2>1, Basics, Ranges, PTL DEF SafeInv
<1>2. CacheInRange'
  BY <1>1 DEF Basic, RangeInv, CacheInRange, ReqInRange, Alone, Using, Holding, Owning, Fails
<1>3. ContentInRange'
  BY <1>1 DEF Basic, RangeInv, ContentInRange, Alone, Using, Holding, Owning, Fails
<1>4. ReqInRange'
  BY <1>1 DEF Basic, RangeInv, ReqInRange, CacheInRange, Alone, Using, Holding, Owning, Fails
<1>5. MutexHeld'
  BY <1>1, ConnsAssumption DEF LockInv, MutexHeld, NONE, FREED, Alone, Using, Holding, Owning, Fails
<1>6. LockedAlive'
  BY <1>1, ConnsAssumption DEF LockInv, LockedAlive, OwnAlive, Entry, InRange, NONE, LookupUri,
        Alone, Using, Holding, Owning, Fails
<1>7. OwnAlive'
  BY <1>1, ConnsAssumption DEF LockInv, LockedAlive, OwnAlive, Entry, InRange, NONE, PlaceInv,
        OwnedAlone, Unpublished, Replaced, Alone, Using, Holding, Owning, Fails
<1>8. LookupUri'
  BY <1>1 DEF LockInv, LookupUri, Entry, InRange, PlaceInv, CacheAlive, Alone, Using, Holding,
        Owning, Fails
<1>9. CacheAlive'
  BY <1>1 DEF PlaceInv, CacheAlive, InRange, Unpublished, LockInv, OwnAlive, DupAlive,
        LockedAlive, Entry, Alone, Using, Holding, Owning, Fails
<1>10. LockedPlaced'
  BY <1>1 DEF PlaceInv, LockedPlaced, LookupPlaced, InRange, Replaced, LockInv, LockedAlive,
        Entry, MutexHeld, DupAlive, Alone, Using, Holding, Owning, Fails
<1>11. LookupPlaced'
  BY <1>1 DEF PlaceInv, LockedPlaced, LookupPlaced, InRange, Replaced, LockInv, LockedAlive,
        Entry, LookupUri, DupAlive, Alone, Using, Holding, Owning, Fails
<1>12. Unpublished'
  BY <1>1 DEF PlaceInv, Unpublished, CacheAlive, OwnedAlone, InRange, Replaced, LockInv,
        LockedAlive, OwnAlive, Entry, DupAlive, Alone, Using, Holding, Owning, Fails
<1>13. OwnedAlone'
  BY <1>1 DEF PlaceInv, OwnedAlone, InRange, Unpublished, LockInv, OwnAlive, Entry, CacheAlive,
        Alone, Using, Holding, Owning, Fails
<1>14. DupAlive'
  BY <1>1 DEF PlaceInv, DupAlive, CacheAlive, InRange, MutexHeld, LockInv, Replaced, Unpublished,
        OwnAlive, LockedAlive, Entry, Alone, Using, Holding, Owning, Fails
<1> QED
  BY <1>2, <1>3, <1>4, <1>5, <1>6, <1>7, <1>8, <1>9, <1>10, <1>11, <1>12, <1>13, <1>14
    DEF RangeInv, LockInv, PlaceInv

(* CreateStat: the effect keeps the ranges, the locks and the places of the *)
(* entries.                                                                *)
LEMMA CreateStatSafe ==
    ASSUME SafeInv, NEW c \in Conns, CreateStats(c)
    PROVE  RangeInv' /\ LockInv' /\ PlaceInv'
<1>1. Basic /\ Basic' /\ InRange /\ RangeInv /\ LockInv /\ PlaceInv
  <2>1. TypeInv'
    BY DEF CreateStats
  <2> QED
    BY <2>1, Basics, Ranges, PTL DEF SafeInv
<1>2. CacheInRange'
  BY <1>1 DEF Basic, RangeInv, CacheInRange, ReqInRange, Alone, Using, Holding, Owning, CreateStats
<1>3. ContentInRange'
  BY <1>1 DEF Basic, RangeInv, ContentInRange, Alone, Using, Holding, Owning, CreateStats
<1>4. ReqInRange'
  BY <1>1 DEF Basic, RangeInv, ReqInRange, CacheInRange, Alone, Using, Holding, Owning, CreateStats
<1>5. MutexHeld'
  BY <1>1, ConnsAssumption DEF LockInv, MutexHeld, NONE, FREED, Alone, Using, Holding, Owning,
        CreateStats
<1>6. LockedAlive'
  BY <1>1, ConnsAssumption DEF LockInv, LockedAlive, OwnAlive, Entry, InRange, NONE, LookupUri,
        Alone, Using, Holding, Owning, CreateStats
<1>7. OwnAlive'
  BY <1>1, ConnsAssumption DEF LockInv, LockedAlive, OwnAlive, Entry, InRange, NONE, PlaceInv,
        OwnedAlone, Unpublished, Replaced, Alone, Using, Holding, Owning, CreateStats
<1>8. LookupUri'
  BY <1>1 DEF LockInv, LookupUri, Entry, InRange, PlaceInv, CacheAlive, Alone, Using, Holding,
        Owning, CreateStats
<1>9. CacheAlive'
  BY <1>1 DEF PlaceInv, CacheAlive, InRange, Unpublished, LockInv, OwnAlive, DupAlive,
        LockedAlive, Entry, Alone, Using, Holding, Owning, CreateStats
<1>10. LockedPlaced'
  BY <1>1 DEF PlaceInv, LockedPlaced, LookupPlaced, InRange, Replaced, LockInv, LockedAlive,
        Entry, MutexHeld, DupAlive, Alone, Using, Holding, Owning, CreateStats
<1>11. LookupPlaced'
  BY SMTT(30), <1>1 DEF PlaceInv, LockedPlaced, LookupPlaced, InRange, Replaced, LockInv,
        LockedAlive, Entry, LookupUri, DupAlive, Alone, Using, Holding, Owning, CreateStats
<1>12. Unpublished'
  BY SMTT(30), <1>1 DEF PlaceInv, Unpublished, CacheAlive, OwnedAlone, InRange, Replaced,
        LockInv, LockedAlive, OwnAlive, Entry, DupAlive, Alone, Using, Holding, Owning,
        CreateStats
<1>13. OwnedAlone'
  BY <1>1 DEF PlaceInv, OwnedAlone, InRange, Unpublished, LockInv, OwnAlive, Entry, CacheAlive,
        Alone, Using, Holding, Owning, CreateStats
<1>14. DupAlive'
  BY <1>1 DEF PlaceInv, DupAlive, CacheAlive, InRange, MutexHeld, LockInv, Replaced, Unpublished,
        OwnAlive, LockedAlive, Entry, Alone, Using, Holding, Owning, CreateStats
<1> QED
  BY <1>2, <1>3, <1>4, <1>5, <1>6, <1>7, <1>8, <1>9, <1>10, <1>11, <1>12, <1>13, <1>14
    DEF RangeInv, LockInv, PlaceInv

(* Refresh: the effect keeps the ranges, the locks and the places of the   *)
(* entries.                                                                *)
LEMMA RefreshSafe ==
    ASSUME SafeInv, NEW c \in Conns, Refreshes(c), RefreshMoves(c)
    PROVE  RangeInv' /\ LockInv' /\ PlaceInv'
<1>1. Basic /\ Basic' /\ InRange /\ RangeInv /\ LockInv /\ PlaceInv
  <2>1. TypeInv'
    BY SMTT(30) DEF Refreshes, RefreshMoves
  <2> QED
    BY <2>1, Basics, Ranges, PTL DEF SafeInv
<1>2. /\ Alone(c) /\ pc[c] = "refresh" /\ pc'[c] \in {"remove", "respond"} /\ UNCHANGED <<mtx, cache, req>>
      /\ req[c].entry \in 1 .. Len(entries) /\ Len(entries') = Len(entries) /\ Len(contents') = Len(contents) + 1
      /\ \A f \in 1 .. Len(entries) :
            entries'[f].live = entries[f].live /\ entries'[f].uri = entries[f].uri
      /\ \A f \in 1 .. Len(entries) : entries'[f].holder = entries[f].holder
      /\ entries'[req[c].entry].content = Len(contents) + 1
      /\ \A f \in 1 .. Len(entries) : f # req[c].entry => entries'[f].content = entries[f].content
  BY <1>1 DEF Refreshes, RefreshMoves, Basic, RangeInv, ContentInRange
<1>3. CacheInRange'
  BY <1>1, <1>2 DEF Basic, RangeInv, CacheInRange, ReqInRange, Alone, Using, Holding, Owning
<1>4. ContentInRange'
  BY SMTT(30), <1>1, <1>2 DEF Basic, RangeInv, ContentInRange, Alone, Using, Holding, Owning
<1>5. ReqInRange'
  BY <1>1, <1>2 DEF Basic, RangeInv, ReqInRange, CacheInRange, Alone, Using, Holding, Owning
<1>6. MutexHeld'
  BY <1>1, <1>2, ConnsAssumption DEF LockInv, MutexHeld, NONE, FREED, Alone, Using, Holding, Owning
<1>7. LockedAlive'
  BY <1>1, <1>2, ConnsAssumption DEF LockInv, LockedAlive, OwnAlive, Entry, InRange, NONE,
        LookupUri, Alone, Using, Holding, Owning
<1>8. OwnAlive'
  BY <1>1, <1>2, ConnsAssumption DEF LockInv, LockedAlive, OwnAlive, Entry, InRange, NONE,
        PlaceInv, OwnedAlone, Unpublished, Replaced, Alone, Using, Holding, Owning
<1>9. LookupUri'
  BY <1>1, <1>2 DEF LockInv, LookupUri, Entry, InRange, PlaceInv, CacheAlive, Alone, Using,
        Holding, Owning
<1>10. CacheAlive'
  BY <1>1, <1>2 DEF PlaceInv, CacheAlive, InRange, Unpublished, LockInv, OwnAlive, DupAlive,
        LockedAlive, Entry, Alone, Using, Holding, Owning
<1>11. LockedPlaced'
  BY <1>1, <1>2 DEF PlaceInv, LockedPlaced, LookupPlaced, InRange, Replaced, LockInv,
        LockedAlive, Entry, MutexHeld, DupAlive, Alone, Using, Holding, Owning
<1>12. LookupPlaced'
  <2> SUFFICES ASSUME NEW d \in Conns, pc'[d] = "lock", entries'[req'[d].entry].live
               PROVE  \/ cache'[req'[d].uri] = req'[d].entry
                      \/ \E x \in Conns : pc'[x] = "dup" /\ req'[x].dup = req'[d].entry
                      \/ \E x \in Conns : pc'[x] = "destroy" /\ req'[x].entry = req'[d].entry
    BY DEF LookupPlaced, Replaced, Entry
  <2>1. d # c /\ pc[d] = "lock" /\ req'[d] = req[d] /\ req[d].entry \in 1 .. Len(entries)
    BY <1>1, <1>2 DEF Alone, InRange, Using
  <2>2. entries[req[d].entry].live
    BY <1>2, <2>1
  <2>3. CASE cache[req[d].uri] = req[d].entry
    BY <1>2, <2>1, <2>3
  <2>4. CASE \E x \in Conns : pc[x] = "dup" /\ req[x].dup = req[d].entry
    BY <1>2, <2>1, <2>4 DEF Alone
  <2>5. CASE \E x \in Conns : pc[x] = "destroy" /\ req[x].entry = req[d].entry
    BY <1>2, <2>1, <2>5 DEF Alone
  <2> QED
    BY <1>1, <2>1, <2>2, <2>3, <2>4, <2>5 DEF PlaceInv, LookupPlaced, Replaced, Entry
<1>13. Unpublished'
  BY <1>1, <1>2 DEF PlaceInv, Unpublished, CacheAlive, OwnedAlone, InRange, Replaced, LockInv,
        LockedAlive, OwnAlive, Entry, DupAlive, Alone, Using, Holding, Owning
<1>14. OwnedAlone'
  BY <1>1, <1>2 DEF PlaceInv, OwnedAlone, InRange, Unpublished, LockInv, OwnAlive, Entry,
        CacheAlive, Alone, Using, Holding, Owning
<1>15. DupAlive'
  BY SMTT(30), <1>1, <1>2 DEF PlaceInv, DupAlive, CacheAlive, InRange, MutexHeld, LockInv,
        Replaced, Unpublished, OwnAlive, LockedAlive, Entry, Alone, Using, Holding, Owning
<1> QED
  BY <1>3, <1>4, <1>5, <1>6, <1>7, <1>8, <1>9, <1>10, <1>11, <1>12, <1>13, <1>14, <1>15
    DEF RangeInv, LockInv, PlaceInv

(* Respond: the effect keeps the ranges, the locks and the places of the   *)
(* entries.                                                                *)
LEMMA RespondSafe ==
    ASSUME SafeInv, NEW c \in Conns, Responds(c), RespondMoves(c)
    PROVE  RangeInv' /\ LockInv' /\ PlaceInv'
<1>1. Basic /\ Basic' /\ InRange /\ RangeInv /\ LockInv /\ PlaceInv
  <2>1. TypeInv'
    BY SMTT(30) DEF Responds, RespondMoves
  <2> QED
    BY <2>1, Basics, Ranges, PTL DEF SafeInv
<1>2. /\ Alone(c) /\ pc[c] = "respond" /\ pc'[c] = "sent" /\ UNCHANGED <<mtx, cache>>
      /\ req'[c].uri = req[c].uri /\ req'[c].entry = req[c].entry /\ req'[c].dup = req[c].dup
      /\ req'[c].res.content <= Len(contents') /\ Len(contents') = Len(contents)
      /\ req[c].entry \in 1 .. Len(entries) /\ Len(entries') = Len(entries)
      /\ \A f \in 1 .. Len(entries) :
            entries'[f].live = entries[f].live /\ entries'[f].uri = entries[f].uri
      /\ \A f \in 1 .. Len(entries) : f # req[c].entry => entries'[f].holder = entries[f].holder
      /\ \A f \in 1 .. Len(entries) : entries'[f].content = entries[f].content
  <2>1. entries[req[c].entry].content \in 1 .. Len(contents) /\ Len(contents') = Len(contents)
    BY DEF Responds
  <2>2. req'[c].res.content <= Len(contents')
    BY <1>1, <2>1 DEF RespondMoves, Basic
  <2>3. /\ Alone(c) /\ pc[c] = "respond" /\ pc'[c] = "sent" /\ UNCHANGED <<mtx, cache>>
        /\ req'[c].uri = req[c].uri /\ req'[c].entry = req[c].entry /\ req'[c].dup = req[c].dup
    BY Zenon DEF RespondMoves
  <2>4. req[c].entry \in 1 .. Len(entries) /\ Len(entries') = Len(entries)
    BY Zenon DEF Responds
  <2>5. \A f \in 1 .. Len(entries) : f # req[c].entry => entries'[f] = entries[f]
    BY Zenon DEF Responds
  <2>6. /\ entries'[req[c].entry].live = entries[req[c].entry].live
        /\ entries'[req[c].entry].uri = entries[req[c].entry].uri
        /\ entries'[req[c].entry].content = entries[req[c].entry].content
    BY Zenon DEF Responds
  <2>7. ASSUME NEW f \in 1 .. Len(entries)
        PROVE  /\ entries'[f].live = entries[f].live /\ entries'[f].uri = entries[f].uri
               /\ f # req[c].entry => entries'[f].holder = entries[f].holder
               /\ entries'[f].content = entries[f].content
    <3>1. CASE f = req[c].entry
      BY <2>6, <3>1, Zenon
    <3>2. CASE f # req[c].entry
      BY <2>5, <3>2, Zenon
    <3> QED
      BY <3>1, <3>2
  <2> QED
    BY <2>1, <2>2, <2>3, <2>4, <2>7, Zenon
<1>3. CacheInRange'
  BY <1>1, <1>2 DEF Basic, RangeInv, CacheInRange, ReqInRange, Alone, Using, Holding, Owning
<1>4. ContentInRange'
  BY <1>1, <1>2 DEF Basic, RangeInv, ContentInRange, Alone, Using, Holding, Owning
<1>5. ReqInRange'
  BY <1>1, <1>2 DEF Basic, RangeInv, ReqInRange, CacheInRange, Alone, Using, Holding, Owning
<1>6. MutexHeld'
  BY <1>1, <1>2, ConnsAssumption DEF LockInv, MutexHeld, NONE, FREED, Alone, Using, Holding, Owning
<1>7. LockedAlive'
  BY SMTT(30), <1>1, <1>2, ConnsAssumption DEF LockInv, LockedAlive, OwnAlive, Entry, InRange,
        NONE, LookupUri, Alone, Using, Holding, Owning
<1>8. OwnAlive'
  BY SMTT(30), <1>1, <1>2, ConnsAssumption DEF LockInv, LockedAlive, OwnAlive, Entry, InRange,
        NONE, PlaceInv, OwnedAlone, Unpublished, Replaced, Alone, Using, Holding, Owning
<1>9. LookupUri'
  BY <1>1, <1>2 DEF LockInv, LookupUri, Entry, InRange, PlaceInv, CacheAlive, Alone, Using,
        Holding, Owning
<1>10. CacheAlive'
  BY <1>1, <1>2 DEF PlaceInv, CacheAlive, InRange, Unpublished, LockInv, OwnAlive, DupAlive,
        LockedAlive, Entry, Alone, Using, Holding, Owning
<1>11. LockedPlaced'
  BY SMTT(30), <1>1, <1>2 DEF PlaceInv, LockedPlaced, LookupPlaced, InRange, Replaced, LockInv,
        LockedAlive, Entry, MutexHeld, DupAlive, Alone, Using, Holding, Owning
<1>12. LookupPlaced'
  <2> SUFFICES ASSUME NEW d \in Conns, pc'[d] = "lock", entries'[req'[d].entry].live
               PROVE  \/ cache'[req'[d].uri] = req'[d].entry
                      \/ \E x \in Conns : pc'[x] = "dup" /\ req'[x].dup = req'[d].entry
                      \/ \E x \in Conns : pc'[x] = "destroy" /\ req'[x].entry = req'[d].entry
    BY DEF LookupPlaced, Replaced, Entry
  <2>1. d # c /\ pc[d] = "lock" /\ req'[d] = req[d] /\ req[d].entry \in 1 .. Len(entries)
    BY <1>1, <1>2 DEF Alone, InRange, Using
  <2>2. entries[req[d].entry].live
    BY <1>2, <2>1
  <2>3. CASE cache[req[d].uri] = req[d].entry
    BY <1>2, <2>1, <2>3
  <2>4. CASE \E x \in Conns : pc[x] = "dup" /\ req[x].dup = req[d].entry
    BY <1>2, <2>1, <2>4 DEF Alone
  <2>5. CASE \E x \in Conns : pc[x] = "destroy" /\ req[x].entry = req[d].entry
    BY <1>2, <2>1, <2>5 DEF Alone
  <2> QED
    BY <1>1, <2>1, <2>2, <2>3, <2>4, <2>5 DEF PlaceInv, LookupPlaced, Replaced, Entry
<1>13. Unpublished'
  BY <1>1, <1>2 DEF PlaceInv, Unpublished, CacheAlive, OwnedAlone, InRange, Replaced, LockInv,
        LockedAlive, OwnAlive, Entry, DupAlive, Alone, Using, Holding, Owning
<1>14. OwnedAlone'
  BY <1>1, <1>2 DEF PlaceInv, OwnedAlone, InRange, Unpublished, LockInv, OwnAlive, Entry,
        CacheAlive, Alone, Using, Holding, Owning
<1>15. DupAlive'
  BY <1>1, <1>2 DEF PlaceInv, DupAlive, CacheAlive, InRange, MutexHeld, LockInv, Replaced,
        Unpublished, OwnAlive, LockedAlive, Entry, Alone, Using, Holding, Owning
<1> QED
  BY <1>3, <1>4, <1>5, <1>6, <1>7, <1>8, <1>9, <1>10, <1>11, <1>12, <1>13, <1>14, <1>15
    DEF RangeInv, LockInv, PlaceInv

(* Remove: the effect keeps the ranges, the locks and the places of the    *)
(* entries.                                                                *)
LEMMA RemoveSafe ==
    ASSUME SafeInv, NEW c \in Conns, Removes(c)
    PROVE  RangeInv' /\ LockInv' /\ PlaceInv'
<1>1. Basic /\ Basic' /\ InRange /\ RangeInv /\ LockInv /\ PlaceInv
  <2>1. TypeInv'
    BY DEF Removes
  <2> QED
    BY <2>1, Basics, Ranges, PTL DEF SafeInv
<1>2. CacheInRange'
  BY <1>1 DEF Basic, RangeInv, CacheInRange, ReqInRange, Alone, Using, Holding, Owning, Removes
<1>3. ContentInRange'
  BY <1>1 DEF Basic, RangeInv, ContentInRange, Alone, Using, Holding, Owning, Removes
<1>4. ReqInRange'
  BY <1>1 DEF Basic, RangeInv, ReqInRange, CacheInRange, Alone, Using, Holding, Owning, Removes
<1>5. MutexHeld'
  BY <1>1, ConnsAssumption DEF LockInv, MutexHeld, NONE, FREED, Alone, Using, Holding, Owning,
        Removes
<1>6. LockedAlive'
  BY <1>1, ConnsAssumption DEF LockInv, LockedAlive, OwnAlive, Entry, InRange, NONE, LookupUri,
        Alone, Using, Holding, Owning, Removes
<1>7. OwnAlive'
  BY <1>1, ConnsAssumption DEF LockInv, LockedAlive, OwnAlive, Entry, InRange, NONE, PlaceInv,
        OwnedAlone, Unpublished, Replaced, Alone, Using, Holding, Owning, Removes
<1>8. LookupUri'
  BY <1>1 DEF LockInv, LookupUri, Entry, InRange, PlaceInv, CacheAlive, Alone, Using, Holding,
        Owning, Removes
<1>9. CacheAlive'
  BY <1>1 DEF PlaceInv, CacheAlive, InRange, Unpublished, LockInv, OwnAlive, DupAlive,
        LockedAlive, Entry, Alone, Using, Holding, Owning, Removes
<1>10. LockedPlaced'
  BY SMTT(30), <1>1 DEF PlaceInv, LockedPlaced, LookupPlaced, InRange, Replaced, LockInv,
        LockedAlive, Entry, MutexHeld, DupAlive, Alone, Using, Holding, Owning, Removes
<1>11. LookupPlaced'
  BY SMTT(30), <1>1 DEF PlaceInv, LockedPlaced, LookupPlaced, InRange, Replaced, LockInv,
        LockedAlive, Entry, LookupUri, DupAlive, Alone, Using, Holding, Owning, Removes
<1>12. Unpublished'
  BY <1>1 DEF PlaceInv, Unpublished, CacheAlive, OwnedAlone, InRange, Replaced, LockInv,
        LockedAlive, OwnAlive, Entry, DupAlive, Alone, Using, Holding, Owning, Removes
<1>13. OwnedAlone'
  BY <1>1 DEF PlaceInv, OwnedAlone, InRange, Unpublished, LockInv, OwnAlive, Entry, CacheAlive,
        Alone, Using, Holding, Owning, Removes
<1>14. DupAlive'
  BY <1>1 DEF PlaceInv, DupAlive, CacheAlive, InRange, MutexHeld, LockInv, Replaced, Unpublished,
        OwnAlive, LockedAlive, Entry, Alone, Using, Holding, Owning, Removes
<1> QED
  BY <1>2, <1>3, <1>4, <1>5, <1>6, <1>7, <1>8, <1>9, <1>10, <1>11, <1>12, <1>13, <1>14
    DEF RangeInv, LockInv, PlaceInv

(* Free: the effect keeps the ranges, the locks and the places of the      *)
(* entries.                                                                *)
LEMMA FreeSafe ==
    ASSUME SafeInv, NEW c \in Conns, Frees(c)
    PROVE  RangeInv' /\ LockInv' /\ PlaceInv'
<1>1. Basic /\ Basic' /\ InRange /\ RangeInv /\ LockInv /\ PlaceInv
  <2>1. TypeInv'
    BY DEF Frees
  <2> QED
    BY <2>1, Basics, Ranges, PTL DEF SafeInv
<1>2. /\ Alone(c) /\ pc[c] \in {"destroy", "full"} /\ pc'[c] = "sent" /\ UNCHANGED <<mtx, cache, req>>
      /\ req[c].entry \in 1 .. Len(entries) /\ Len(entries') = Len(entries) /\ Len(contents') = Len(contents)
      /\ \A f \in 1 .. Len(entries) : f # req[c].entry => entries'[f] = entries[f]
      /\ entries[req[c].entry].live /\ entries'[req[c].entry].live = FALSE /\ entries'[req[c].entry].content = 0
  BY <1>1 DEF Frees, Basic, RangeInv, ContentInRange
<1>3. CacheInRange'
  BY <1>1, <1>2 DEF Basic, RangeInv, CacheInRange, ReqInRange, Alone, Using, Holding, Owning
<1>4. ContentInRange'
  <2> SUFFICES ASSUME NEW f \in 1 .. Len(entries)
               PROVE  /\ entries'[f].content <= Len(contents)
                      /\ entries'[f].live => entries'[f].content # 0
    BY <1>2 DEF ContentInRange
  <2>1. CASE f = req[c].entry
    BY <1>1, <1>2, <2>1 DEF Basic
  <2>2. CASE f # req[c].entry
    BY <1>1, <1>2, <2>2 DEF RangeInv, ContentInRange
  <2> QED
    BY <2>1, <2>2
<1>5. ReqInRange'
  BY <1>1, <1>2 DEF Basic, RangeInv, ReqInRange, CacheInRange, Alone, Using, Holding, Owning
<1>6. MutexHeld'
  BY <1>1, <1>2, ConnsAssumption DEF LockInv, MutexHeld, NONE, FREED, Alone, Using, Holding, Owning
<1>7. LockedAlive'
  BY <1>1, <1>2, ConnsAssumption DEF LockInv, LockedAlive, OwnAlive, Entry, InRange, NONE,
        LookupUri, Alone, Using, Holding, Owning
<1>8. OwnAlive'
  BY <1>1, <1>2, ConnsAssumption DEF LockInv, LockedAlive, OwnAlive, Entry, InRange, NONE,
        PlaceInv, OwnedAlone, Unpublished, Replaced, Alone, Using, Holding, Owning
<1>9. LookupUri'
  BY <1>1, <1>2 DEF LockInv, LookupUri, Entry, InRange, PlaceInv, CacheAlive, Alone, Using,
        Holding, Owning
<1>10. CacheAlive'
  BY <1>1, <1>2 DEF PlaceInv, CacheAlive, InRange, Unpublished, LockInv, OwnAlive, DupAlive,
        LockedAlive, Entry, Alone, Using, Holding, Owning
<1>11. LockedPlaced'
  BY SMTT(30), <1>1, <1>2 DEF PlaceInv, LockedPlaced, LookupPlaced, InRange, Replaced, LockInv,
        LockedAlive, Entry, MutexHeld, DupAlive, Alone, Using, Holding, Owning
<1>12. LookupPlaced'
  <2> SUFFICES ASSUME NEW d \in Conns, pc'[d] = "lock", entries'[req'[d].entry].live
               PROVE  \/ cache'[req'[d].uri] = req'[d].entry
                      \/ \E x \in Conns : pc'[x] = "dup" /\ req'[x].dup = req'[d].entry
                      \/ \E x \in Conns : pc'[x] = "destroy" /\ req'[x].entry = req'[d].entry
    BY DEF LookupPlaced, Replaced, Entry
  <2>1. d # c /\ pc[d] = "lock" /\ req'[d] = req[d] /\ req[d].entry \in 1 .. Len(entries)
    BY <1>1, <1>2 DEF Alone, InRange, Using
  <2>2. entries[req[d].entry].live
    BY <1>2, <2>1
  <2>3. CASE cache[req[d].uri] = req[d].entry
    BY <1>2, <2>1, <2>3
  <2>4. CASE \E x \in Conns : pc[x] = "dup" /\ req[x].dup = req[d].entry
    BY <1>2, <2>1, <2>4 DEF Alone
  <2>5. CASE \E x \in Conns : pc[x] = "destroy" /\ req[x].entry = req[d].entry
    BY <1>2, <2>1, <2>5 DEF Alone
  <2> QED
    BY <1>1, <2>1, <2>2, <2>3, <2>4, <2>5 DEF PlaceInv, LookupPlaced, Replaced, Entry
<1>13. Unpublished'
  BY <1>1, <1>2 DEF PlaceInv, Unpublished, CacheAlive, OwnedAlone, InRange, Replaced, LockInv,
        LockedAlive, OwnAlive, Entry, DupAlive, Alone, Using, Holding, Owning
<1>14. OwnedAlone'
  BY <1>1, <1>2 DEF PlaceInv, OwnedAlone, InRange, Unpublished, LockInv, OwnAlive, Entry,
        CacheAlive, Alone, Using, Holding, Owning
<1>15. DupAlive'
  BY <1>1, <1>2 DEF PlaceInv, DupAlive, CacheAlive, InRange, MutexHeld, LockInv, Replaced,
        Unpublished, OwnAlive, LockedAlive, Entry, Alone, Using, Holding, Owning
<1> QED
  BY <1>3, <1>4, <1>5, <1>6, <1>7, <1>8, <1>9, <1>10, <1>11, <1>12, <1>13, <1>14, <1>15
    DEF RangeInv, LockInv, PlaceInv

(* Read: the effect keeps the ranges, the locks and the places of the      *)
(* entries.                                                                *)
LEMMA ReadSafe ==
    ASSUME SafeInv, NEW c \in Conns, Reads(c)
    PROVE  RangeInv' /\ LockInv' /\ PlaceInv'
<1>1. Basic /\ Basic' /\ InRange /\ RangeInv /\ LockInv /\ PlaceInv
  <2>1. TypeInv'
    BY DEF Reads
  <2> QED
    BY <2>1, Basics, Ranges, PTL DEF SafeInv
<1>2. /\ Alone(c) /\ pc[c] = "read" /\ pc'[c] = "set" /\ UNCHANGED <<mtx, cache>>
      /\ req'[c].uri = req[c].uri /\ req'[c].entry = Len(entries) + 1 /\ req'[c].dup = req[c].dup
      /\ Len(contents') = Len(contents) + 1 /\ req'[c].res.content \in {0, Len(contents) + 1}
      /\ Len(entries') = Len(entries) + 1 /\ \A f \in 1 .. Len(entries) : entries'[f] = entries[f]
      /\ entries'[Len(entries) + 1].uri = req[c].uri /\ entries'[Len(entries) + 1].content = Len(contents) + 1
      /\ entries'[Len(entries) + 1].holder = NONE /\ entries'[Len(entries) + 1].live
  BY <1>1 DEF Reads, Basic, RangeInv, ContentInRange
<1>3. CacheInRange'
  BY <1>1, <1>2 DEF Basic, RangeInv, CacheInRange, ReqInRange, Alone, Using, Holding, Owning
<1>4. ContentInRange'
  BY SMTT(30), <1>1, <1>2 DEF Basic, RangeInv, ContentInRange, Alone, Using, Holding, Owning
<1>5. ReqInRange'
  BY SMTT(30), <1>1, <1>2 DEF Basic, RangeInv, ReqInRange, CacheInRange, Alone, Using, Holding,
        Owning
<1>6. MutexHeld'
  BY <1>1, <1>2, ConnsAssumption DEF LockInv, MutexHeld, NONE, FREED, Alone, Using, Holding, Owning
<1>7. LockedAlive'
  BY <1>1, <1>2, ConnsAssumption DEF LockInv, LockedAlive, OwnAlive, Entry, InRange, NONE,
        LookupUri, Alone, Using, Holding, Owning
<1>8. OwnAlive'
  BY <1>1, <1>2, ConnsAssumption DEF LockInv, LockedAlive, OwnAlive, Entry, InRange, NONE,
        PlaceInv, OwnedAlone, Unpublished, Replaced, Alone, Using, Holding, Owning
<1>9. LookupUri'
  BY <1>1, <1>2 DEF LockInv, LookupUri, Entry, InRange, PlaceInv, CacheAlive, Alone, Using,
        Holding, Owning
<1>10. CacheAlive'
  BY <1>1, <1>2 DEF PlaceInv, CacheAlive, InRange, Unpublished, LockInv, OwnAlive, DupAlive,
        LockedAlive, Entry, Alone, Using, Holding, Owning
<1>11. LockedPlaced'
  BY <1>1, <1>2 DEF PlaceInv, LockedPlaced, LookupPlaced, InRange, Replaced, LockInv,
        LockedAlive, Entry, MutexHeld, DupAlive, Alone, Using, Holding, Owning
<1>12. LookupPlaced'
  <2> SUFFICES ASSUME NEW d \in Conns, pc'[d] = "lock", entries'[req'[d].entry].live
               PROVE  \/ cache'[req'[d].uri] = req'[d].entry
                      \/ \E x \in Conns : pc'[x] = "dup" /\ req'[x].dup = req'[d].entry
                      \/ \E x \in Conns : pc'[x] = "destroy" /\ req'[x].entry = req'[d].entry
    BY DEF LookupPlaced, Replaced, Entry
  <2>1. d # c /\ pc[d] = "lock" /\ req'[d] = req[d] /\ req[d].entry \in 1 .. Len(entries)
    BY <1>1, <1>2 DEF Alone, InRange, Using
  <2>2. entries[req[d].entry].live
    BY <1>2, <2>1
  <2>3. CASE cache[req[d].uri] = req[d].entry
    BY <1>2, <2>1, <2>3
  <2>4. CASE \E x \in Conns : pc[x] = "dup" /\ req[x].dup = req[d].entry
    BY <1>2, <2>1, <2>4 DEF Alone
  <2>5. CASE \E x \in Conns : pc[x] = "destroy" /\ req[x].entry = req[d].entry
    BY <1>2, <2>1, <2>5 DEF Alone
  <2> QED
    BY <1>1, <2>1, <2>2, <2>3, <2>4, <2>5 DEF PlaceInv, LookupPlaced, Replaced, Entry
<1>13. Unpublished'
  BY <1>1, <1>2 DEF PlaceInv, Unpublished, CacheAlive, OwnedAlone, InRange, Replaced, LockInv,
        LockedAlive, OwnAlive, Entry, DupAlive, Alone, Using, Holding, Owning
<1>14. OwnedAlone'
  BY <1>1, <1>2 DEF PlaceInv, OwnedAlone, InRange, Unpublished, LockInv, OwnAlive, Entry,
        CacheAlive, Alone, Using, Holding, Owning
<1>15. DupAlive'
  BY <1>1, <1>2 DEF PlaceInv, DupAlive, CacheAlive, InRange, MutexHeld, LockInv, Replaced,
        Unpublished, OwnAlive, LockedAlive, Entry, Alone, Using, Holding, Owning
<1> QED
  BY <1>3, <1>4, <1>5, <1>6, <1>7, <1>8, <1>9, <1>10, <1>11, <1>12, <1>13, <1>14, <1>15
    DEF RangeInv, LockInv, PlaceInv

(* SetFirst: the effect keeps the ranges, the locks and the places of the  *)
(* entries.                                                                *)
LEMMA SetFirstSafe ==
    ASSUME SafeInv, NEW c \in Conns, SetsFirst(c)
    PROVE  RangeInv' /\ LockInv' /\ PlaceInv'
<1>1. Basic /\ Basic' /\ InRange /\ RangeInv /\ LockInv /\ PlaceInv
  <2>1. TypeInv'
    BY DEF SetsFirst
  <2> QED
    BY <2>1, Basics, Ranges, PTL DEF SafeInv
<1>2. CacheInRange'
  BY <1>1 DEF Basic, RangeInv, CacheInRange, ReqInRange, Alone, Using, Holding, Owning, SetsFirst
<1>3. ContentInRange'
  BY <1>1 DEF Basic, RangeInv, ContentInRange, Alone, Using, Holding, Owning, SetsFirst
<1>4. ReqInRange'
  BY <1>1 DEF Basic, RangeInv, ReqInRange, CacheInRange, Alone, Using, Holding, Owning, SetsFirst
<1>5. MutexHeld'
  BY <1>1, ConnsAssumption DEF LockInv, MutexHeld, NONE, FREED, Alone, Using, Holding, Owning,
        SetsFirst
<1>6. LockedAlive'
  BY <1>1, ConnsAssumption DEF LockInv, LockedAlive, OwnAlive, Entry, InRange, NONE, LookupUri,
        Alone, Using, Holding, Owning, SetsFirst
<1>7. OwnAlive'
  BY <1>1, ConnsAssumption DEF LockInv, LockedAlive, OwnAlive, Entry, InRange, NONE, PlaceInv,
        OwnedAlone, Unpublished, Replaced, Alone, Using, Holding, Owning, SetsFirst
<1>8. LookupUri'
  BY <1>1 DEF LockInv, LookupUri, Entry, InRange, PlaceInv, CacheAlive, Alone, Using, Holding,
        Owning, SetsFirst
<1>9. CacheAlive'
  BY <1>1, ConnsAssumption DEF PlaceInv, CacheAlive, InRange, Unpublished, LockInv, OwnAlive,
        DupAlive, LockedAlive, Entry, NONE, MutexHeld, Alone, Using, Holding, Owning, SetsFirst
<1>10. LockedPlaced'
  BY <1>1, ConnsAssumption DEF PlaceInv, LockedPlaced, LookupPlaced, InRange, Replaced, LockInv,
        LockedAlive, Entry, MutexHeld, DupAlive, NONE, Alone, Using, Holding, Owning, SetsFirst
<1>11. LookupPlaced'
  BY <1>1, ConnsAssumption DEF PlaceInv, LockedPlaced, LookupPlaced, InRange, Replaced, LockInv,
        LockedAlive, Entry, LookupUri, DupAlive, NONE, MutexHeld, Alone, Using, Holding, Owning,
        SetsFirst
<1>12. Unpublished'
  BY <1>1 DEF PlaceInv, Unpublished, CacheAlive, OwnedAlone, InRange, Replaced, LockInv,
        LockedAlive, OwnAlive, Entry, DupAlive, Alone, Using, Holding, Owning, SetsFirst
<1>13. OwnedAlone'
  BY <1>1 DEF PlaceInv, OwnedAlone, InRange, Unpublished, LockInv, OwnAlive, Entry, CacheAlive,
        Alone, Using, Holding, Owning, SetsFirst
<1>14. DupAlive'
  BY <1>1, ConnsAssumption DEF PlaceInv, DupAlive, CacheAlive, InRange, MutexHeld, LockInv,
        Replaced, Unpublished, OwnAlive, LockedAlive, Entry, NONE, Alone, Using, Holding, Owning,
        SetsFirst
<1> QED
  BY <1>2, <1>3, <1>4, <1>5, <1>6, <1>7, <1>8, <1>9, <1>10, <1>11, <1>12, <1>13, <1>14
    DEF RangeInv, LockInv, PlaceInv

(* SetDuplicate: the effect keeps the ranges, the locks and the places of  *)
(* the entries.                                                            *)
LEMMA SetDuplicateSafe ==
    ASSUME SafeInv, NEW c \in Conns, SetsDuplicate(c)
    PROVE  RangeInv' /\ LockInv' /\ PlaceInv'
<1>1. Basic /\ Basic' /\ InRange /\ RangeInv /\ LockInv /\ PlaceInv
  <2>1. TypeInv'
    BY DEF SetsDuplicate
  <2> QED
    BY <2>1, Basics, Ranges, PTL DEF SafeInv
<1>2. CacheInRange'
  BY <1>1 DEF Basic, RangeInv, CacheInRange, ReqInRange, Alone, Using, Holding, Owning,
        SetsDuplicate
<1>3. ContentInRange'
  BY <1>1 DEF Basic, RangeInv, ContentInRange, Alone, Using, Holding, Owning, SetsDuplicate
<1>4. ReqInRange'
  BY SMTT(30), <1>1 DEF Basic, RangeInv, ReqInRange, CacheInRange, Alone, Using, Holding, Owning,
        SetsDuplicate
<1>5. MutexHeld'
  BY <1>1, ConnsAssumption DEF LockInv, MutexHeld, NONE, FREED, Alone, Using, Holding, Owning,
        SetsDuplicate
<1>6. LockedAlive'
  BY <1>1, ConnsAssumption DEF LockInv, LockedAlive, OwnAlive, Entry, InRange, NONE, LookupUri,
        Alone, Using, Holding, Owning, SetsDuplicate
<1>7. OwnAlive'
  BY <1>1, ConnsAssumption DEF LockInv, LockedAlive, OwnAlive, Entry, InRange, NONE, PlaceInv,
        OwnedAlone, Unpublished, Replaced, Alone, Using, Holding, Owning, SetsDuplicate
<1>8. LookupUri'
  BY <1>1 DEF LockInv, LookupUri, Entry, InRange, PlaceInv, CacheAlive, Alone, Using, Holding,
        Owning, SetsDuplicate
<1>9. CacheAlive'
  BY <1>1 DEF PlaceInv, CacheAlive, InRange, Unpublished, LockInv, OwnAlive, DupAlive,
        LockedAlive, Entry, Alone, Using, Holding, Owning, SetsDuplicate
<1>10. LockedPlaced'
  BY SMTT(30), <1>1 DEF PlaceInv, LockedPlaced, LookupPlaced, InRange, Replaced, LockInv,
        LockedAlive, Entry, MutexHeld, DupAlive, Alone, Using, Holding, Owning, SetsDuplicate
<1>11. LookupPlaced'
  BY SMTT(30), <1>1 DEF PlaceInv, LockedPlaced, LookupPlaced, InRange, Replaced, LockInv,
        LockedAlive, Entry, LookupUri, DupAlive, Alone, Using, Holding, Owning, SetsDuplicate
<1>12. Unpublished'
  BY SMTT(30), <1>1 DEF PlaceInv, Unpublished, CacheAlive, OwnedAlone, InRange, Replaced,
        LockInv, LockedAlive, OwnAlive, Entry, DupAlive, Alone, Using, Holding, Owning,
        SetsDuplicate
<1>13. OwnedAlone'
  BY <1>1 DEF PlaceInv, OwnedAlone, InRange, Unpublished, LockInv, OwnAlive, Entry, CacheAlive,
        Alone, Using, Holding, Owning, SetsDuplicate
<1>14. DupAlive'
  BY SMTT(30), <1>1 DEF PlaceInv, DupAlive, CacheAlive, InRange, MutexHeld, LockInv, Replaced,
        Unpublished, OwnAlive, LockedAlive, Entry, Alone, Using, Holding, Owning, SetsDuplicate
<1> QED
  BY <1>2, <1>3, <1>4, <1>5, <1>6, <1>7, <1>8, <1>9, <1>10, <1>11, <1>12, <1>13, <1>14
    DEF RangeInv, LockInv, PlaceInv

(* LockDuplicate: the effect keeps the ranges, the locks and the places of *)
(* the entries.                                                            *)
LEMMA LockDuplicateSafe ==
    ASSUME SafeInv, NEW c \in Conns, LocksDuplicate(c)
    PROVE  RangeInv' /\ LockInv' /\ PlaceInv'
<1>1. Basic /\ Basic' /\ InRange /\ RangeInv /\ LockInv /\ PlaceInv
  <2>1. TypeInv'
    BY DEF LocksDuplicate
  <2> QED
    BY <2>1, Basics, Ranges, PTL DEF SafeInv
<1>2. /\ Alone(c) /\ req' = req /\ mtx' = NONE /\ pc[c] = "dup" /\ pc'[c] \in {"sent", "full"}
      /\ cache'[req[c].uri] = IF pc'[c] = "sent" THEN req[c].entry ELSE 0
      /\ \A w \in Uris : w # req[c].uri => cache'[w] = cache[w]
      /\ req[c].dup \in 1 .. Len(entries) /\ Len(entries') = Len(entries) /\ Len(contents') = Len(contents)
      /\ \A f \in 1 .. Len(entries) : f # req[c].dup => entries'[f] = entries[f]
      /\ entries[req[c].dup].live /\ entries[req[c].dup].holder = NONE
      /\ entries'[req[c].dup].live = FALSE /\ entries'[req[c].dup].content = 0
  BY <1>1 DEF LocksDuplicate, Basic, RangeInv, ContentInRange
<1>3. CacheInRange'
  BY SMTT(30), <1>1, <1>2 DEF Basic, RangeInv, CacheInRange, ReqInRange, Alone, Using, Holding,
        Owning
<1>4. ContentInRange'
  BY <1>1, <1>2 DEF Basic, RangeInv, ContentInRange, Alone, Using, Holding, Owning
<1>5. ReqInRange'
  BY SMTT(30), <1>1, <1>2 DEF Basic, RangeInv, ReqInRange, CacheInRange, Alone, Using, Holding,
        Owning
<1>6. MutexHeld'
  BY <1>1, <1>2, ConnsAssumption DEF LockInv, MutexHeld, NONE, FREED, Alone, Using, Holding, Owning
<1>7. LockedAlive'
  BY SMTT(30), <1>1, <1>2, ConnsAssumption DEF LockInv, LockedAlive, OwnAlive, Entry, InRange,
        NONE, LookupUri, Alone, Using, Holding, Owning
<1>8. OwnAlive'
  BY <1>1, <1>2, ConnsAssumption DEF LockInv, LockedAlive, OwnAlive, Entry, InRange, NONE,
        PlaceInv, OwnedAlone, Unpublished, Replaced, Alone, Using, Holding, Owning
<1>9. LookupUri'
  BY <1>1, <1>2 DEF LockInv, LookupUri, Entry, InRange, PlaceInv, CacheAlive, Alone, Using,
        Holding, Owning
<1>10. CacheAlive'
  <2>1. \A w \in Uris : cache[w] # req[c].dup
    BY <1>1, <1>2 DEF PlaceInv, CacheAlive, DupAlive, InRange
  <2>2. req[c].entry \in 1 .. Len(entries) /\ req[c].entry # req[c].dup /\ req[c].uri \in Uris
    BY <1>1, <1>2 DEF PlaceInv, Unpublished, Replaced, InRange, Using, Owning
  <2>3. entries[req[c].entry].live /\ entries[req[c].entry].uri = req[c].uri
    BY <1>1, <1>2 DEF LockInv, OwnAlive, Entry, Owning
  <2> QED
    BY SMTT(30), <1>1, <1>2, <2>1, <2>2, <2>3 DEF PlaceInv, CacheAlive, InRange
<1>11. LockedPlaced'
  BY <1>1, <1>2, ConnsAssumption DEF PlaceInv, LockedPlaced, LookupPlaced, InRange, Replaced,
        LockInv, LockedAlive, Entry, MutexHeld, DupAlive, NONE, Alone, Using, Holding, Owning
<1>12. LookupPlaced'
  BY SMTT(30), <1>1, <1>2, ConnsAssumption
    DEF PlaceInv, LockedPlaced, LookupPlaced, InRange, Replaced, LockInv, LockedAlive, Entry,
        LookupUri, DupAlive, NONE, MutexHeld, Alone, Using, Holding, Owning
<1>13. Unpublished'
  BY SMTT(30), <1>1, <1>2 DEF PlaceInv, Unpublished, CacheAlive, OwnedAlone, InRange, Replaced,
        LockInv, LockedAlive, OwnAlive, Entry, DupAlive, Alone, Using, Holding, Owning
<1>14. OwnedAlone'
  BY <1>1, <1>2 DEF PlaceInv, OwnedAlone, InRange, Unpublished, LockInv, OwnAlive, Entry,
        CacheAlive, Alone, Using, Holding, Owning
<1>15. DupAlive'
  BY <1>1, <1>2, ConnsAssumption DEF PlaceInv, DupAlive, CacheAlive, InRange, MutexHeld, LockInv,
        Replaced, Unpublished, OwnAlive, LockedAlive, Entry, NONE, Alone, Using, Holding, Owning
<1> QED
  BY <1>3, <1>4, <1>5, <1>6, <1>7, <1>8, <1>9, <1>10, <1>11, <1>12, <1>13, <1>14, <1>15
    DEF RangeInv, LockInv, PlaceInv

(* Finalize: the effect keeps the ranges, the locks and the places of the  *)
(* entries.                                                                *)
LEMMA FinalizeSafe ==
    ASSUME SafeInv, NEW c \in Conns, Finalizes(c)
    PROVE  RangeInv' /\ LockInv' /\ PlaceInv'
<1>1. Basic /\ Basic' /\ InRange /\ RangeInv /\ LockInv /\ PlaceInv
  <2>1. TypeInv'
    BY DEF Finalizes
  <2> QED
    BY <2>1, Basics, Ranges, PTL DEF SafeInv
<1>2. /\ Alone(c) /\ pc[c] = "sent" /\ pc'[c] = "idle" /\ UNCHANGED <<mtx, cache, entries>>
      /\ req'[c].entry = 0 /\ req'[c].dup = 0 /\ req'[c].res.content = 0 /\ Len(contents') = Len(contents)
  BY <1>1, Blank, UrisAssumption DEF Finalizes, Basic, RangeInv, ContentInRange
<1>3. CacheInRange'
  BY <1>1, <1>2 DEF Basic, RangeInv, CacheInRange, ReqInRange, Alone, Using, Holding, Owning
<1>4. ContentInRange'
  BY <1>1, <1>2 DEF Basic, RangeInv, ContentInRange, Alone, Using, Holding, Owning
<1>5. ReqInRange'
  BY <1>1, <1>2 DEF Basic, RangeInv, ReqInRange, CacheInRange, Alone, Using, Holding, Owning
<1>6. MutexHeld'
  BY <1>1, <1>2, ConnsAssumption DEF LockInv, MutexHeld, NONE, FREED, Alone, Using, Holding, Owning
<1>7. LockedAlive'
  BY <1>1, <1>2, ConnsAssumption DEF LockInv, LockedAlive, OwnAlive, Entry, InRange, NONE,
        LookupUri, Alone, Using, Holding, Owning
<1>8. OwnAlive'
  BY <1>1, <1>2, ConnsAssumption DEF LockInv, LockedAlive, OwnAlive, Entry, InRange, NONE,
        PlaceInv, OwnedAlone, Unpublished, Replaced, Alone, Using, Holding, Owning
<1>9. LookupUri'
  BY <1>1, <1>2 DEF LockInv, LookupUri, Entry, InRange, PlaceInv, CacheAlive, Alone, Using,
        Holding, Owning
<1>10. CacheAlive'
  BY <1>1, <1>2 DEF PlaceInv, CacheAlive, InRange, Unpublished, LockInv, OwnAlive, DupAlive,
        LockedAlive, Entry, Alone, Using, Holding, Owning
<1>11. LockedPlaced'
  BY SMTT(30), <1>1, <1>2 DEF PlaceInv, LockedPlaced, LookupPlaced, InRange, Replaced, LockInv,
        LockedAlive, Entry, MutexHeld, DupAlive, Alone, Using, Holding, Owning
<1>12. LookupPlaced'
  <2> SUFFICES ASSUME NEW d \in Conns, pc'[d] = "lock", entries'[req'[d].entry].live
               PROVE  \/ cache'[req'[d].uri] = req'[d].entry
                      \/ \E x \in Conns : pc'[x] = "dup" /\ req'[x].dup = req'[d].entry
                      \/ \E x \in Conns : pc'[x] = "destroy" /\ req'[x].entry = req'[d].entry
    BY DEF LookupPlaced, Replaced, Entry
  <2>1. d # c /\ pc[d] = "lock" /\ req'[d] = req[d] /\ req[d].entry \in 1 .. Len(entries)
    BY <1>1, <1>2 DEF Alone, InRange, Using
  <2>2. entries[req[d].entry].live
    BY <1>2, <2>1
  <2>3. CASE cache[req[d].uri] = req[d].entry
    BY <1>2, <2>1, <2>3
  <2>4. CASE \E x \in Conns : pc[x] = "dup" /\ req[x].dup = req[d].entry
    BY <1>2, <2>1, <2>4 DEF Alone
  <2>5. CASE \E x \in Conns : pc[x] = "destroy" /\ req[x].entry = req[d].entry
    BY <1>2, <2>1, <2>5 DEF Alone
  <2> QED
    BY <1>1, <2>1, <2>2, <2>3, <2>4, <2>5 DEF PlaceInv, LookupPlaced, Replaced, Entry
<1>13. Unpublished'
  BY <1>1, <1>2 DEF PlaceInv, Unpublished, CacheAlive, OwnedAlone, InRange, Replaced, LockInv,
        LockedAlive, OwnAlive, Entry, DupAlive, Alone, Using, Holding, Owning
<1>14. OwnedAlone'
  BY <1>1, <1>2 DEF PlaceInv, OwnedAlone, InRange, Unpublished, LockInv, OwnAlive, Entry,
        CacheAlive, Alone, Using, Holding, Owning
<1>15. DupAlive'
  BY <1>1, <1>2 DEF PlaceInv, DupAlive, CacheAlive, InRange, MutexHeld, LockInv, Replaced,
        Unpublished, OwnAlive, LockedAlive, Entry, Alone, Using, Holding, Owning
<1> QED
  BY <1>3, <1>4, <1>5, <1>6, <1>7, <1>8, <1>9, <1>10, <1>11, <1>12, <1>13, <1>14, <1>15
    DEF RangeInv, LockInv, PlaceInv

(* Destroy: the effect keeps the ranges, the locks and the places of the   *)
(* entries.                                                                *)
LEMMA DestroySafe ==
    ASSUME SafeInv, Destroys
    PROVE  RangeInv' /\ LockInv' /\ PlaceInv'
<1>1. Basic /\ Basic' /\ InRange /\ RangeInv /\ LockInv /\ PlaceInv
  <2>1. TypeInv'
    BY DEF Destroys
  <2> QED
    BY <2>1, Basics, Ranges, PTL DEF SafeInv
<1>2. /\ UNCHANGED <<pc, req>> /\ mtx = NONE /\ mtx' = FREED /\ \A u \in Uris : cache'[u] = 0
      /\ \A c \in Conns : pc[c] \in {"idle", "sent"}
      /\ Len(entries') = Len(entries) /\ Len(contents') = Len(contents)
  BY DEF Destroys
<1>3. \A e \in 1 .. Len(entries) :
         entries'[e] = entries[e] \/ (entries'[e].live = FALSE /\ entries'[e].content = 0)
  BY DEF Destroys, FreedEntry
<1>4. RangeInv'
  BY <1>1, <1>2, <1>3 DEF Basic, RangeInv, CacheInRange, ContentInRange, ReqInRange, Using,
        Holding, Owning
<1>5. LockInv'
  BY <1>2, ConnsAssumption
     DEF LockInv, MutexHeld, LockedAlive, OwnAlive, LookupUri, Holding, Owning, FREED
<1>6. PlaceInv'
  BY <1>2 DEF PlaceInv, CacheAlive, LockedPlaced, LookupPlaced, Unpublished, OwnedAlone,
        DupAlive, Holding, Owning
<1> QED
  BY <1>4, <1>5, <1>6

(* A step that leaves server and requests alone keeps them safe.           *)
LEMMA KeptSafe ==
    ASSUME SafeInv, UNCHANGED <<mtx, cache, entries, contents, pc, req>>
    PROVE  RangeInv' /\ LockInv' /\ PlaceInv'
<1>1. RangeInv /\ LockInv /\ PlaceInv
  BY DEF SafeInv
<1>2. RangeInv'
  BY <1>1 DEF RangeInv, CacheInRange, ContentInRange, ReqInRange
<1>3. LockInv'
  BY <1>1 DEF LockInv, MutexHeld, LockedAlive, OwnAlive, LookupUri, Entry
<1>4. PlaceInv'
  BY <1>1 DEF PlaceInv, CacheAlive, LockedPlaced, LookupPlaced, Unpublished, OwnedAlone,
        DupAlive, Replaced, Entry
<1> QED
  BY <1>2, <1>3, <1>4

(* The actions of one connection, sorted by what they change.              *)
Effect(c) ==
  \/ \E u \in Uris : Gets(c, u)
  \/ Locks(c) \/ Stats(c) \/ Fails(c) \/ (Refreshes(c) /\ RefreshMoves(c))
  \/ (Responds(c) /\ RespondMoves(c)) \/ Removes(c) \/ Frees(c) \/ CreateStats(c) \/ Reads(c)
  \/ SetsFirst(c) \/ SetsDuplicate(c) \/ LocksDuplicate(c) \/ Finalizes(c)
Idles == UNCHANGED <<file, edits, mtx, cache, entries, contents, pc, req, clean>>

(* Every step is one of them, or leaves what is shared as it was.          *)
LEMMA StepEffect ==
    ASSUME SafeInv, [Next]_vars
    PROVE  /\ TypeInv'
           /\ \/ (\E c \in Conns : Effect(c)) /\ UNCHANGED <<file, edits>>
              \/ Destroys /\ UNCHANGED <<file, edits>>
              \/ \E u \in Uris : Edits(u)
              \/ Idles
<1>1. CASE UNCHANGED vars
  BY <1>1 DEF vars, SafeInv, TypeInv, Idles
<1>2. CASE ~crashed /\ Destroy /\ UNCHANGED <<file, edits>>
  BY <1>2, DestroyEffect DEF Destroys
<1>3. ASSUME NEW u \in Uris, EditFile(u)
      PROVE  TypeInv' /\ Edits(u)
  BY <1>3, EditEffect DEF Edits
<1>4. ASSUME NEW c \in Conns, Serve(c), ~crashed, UNCHANGED <<file, edits>>
      PROVE  TypeInv' /\ (Effect(c) \/ Idles)
  <2>1. CASE \E u \in Uris : GetCacheEntry(c, u)
    BY <1>4, <2>1, GetEffect DEF Gets, Effect
  <2>2. CASE LockEntry(c)
    <3>1. CASE crashed'
      BY <1>4, <2>2, <3>1, CrashEffect DEF Idles
    <3>2. CASE ~crashed'
      BY <1>4, <2>2, <3>2, LockEffect DEF Locks, Effect
    <3> QED
      BY <3>1, <3>2
  <2>3. CASE Stat(c)
    BY <1>4, <2>3, StatEffect DEF Stats, Effect
  <2>4. CASE RefreshNoFile(c) \/ CreateFails(c)
    BY <1>4, <2>4, FailEffect DEF Fails, Effect
  <2>5. CASE Refresh(c)
    BY <1>4, <2>5, RefreshEffect, RefreshTypes DEF RefreshMoves, Effect
  <2>6. CASE Respond(c)
    BY <1>4, <2>6, RespondEffect, RespondTypes DEF RespondMoves, Effect
  <2>7. CASE RemoveCacheEntry(c)
    <3>1. CASE crashed'
      BY <1>4, <2>7, <3>1, CrashEffect DEF Idles
    <3>2. CASE ~crashed'
      BY <1>4, <2>7, <3>2, RemoveEffect DEF Removes, Effect
    <3> QED
      BY <3>1, <3>2
  <2>8. CASE DestroyInvalid(c) \/ DestroyUncached(c)
    BY <1>4, <2>8, FreeEffect DEF Frees, Effect
  <2>9. CASE CreateStat(c)
    BY <1>4, <2>9, CreateStatEffect DEF CreateStats, Effect
  <2>10. CASE CreateReads(c)
    BY <1>4, <2>10, ReadEffect DEF Reads, Effect
  <2>11. CASE SetFirst(c)
    BY <1>4, <2>11, SetFirstEffect DEF SetsFirst, Effect
  <2>12. CASE SetDuplicate(c)
    BY <1>4, <2>12, SetDuplicateEffect DEF SetsDuplicate, Effect
  <2>13. CASE LockDuplicate(c)
    BY <1>4, <2>13, LockDuplicateEffect DEF LocksDuplicate, Effect
  <2>14. CASE Finalize(c)
    BY <1>4, <2>14, FinalizeEffect DEF Finalizes, Effect
  <2> QED
    BY <1>4, <2>1, <2>2, <2>3, <2>4, <2>5, <2>6, <2>7, <2>8, <2>9, <2>10, <2>11, <2>12, <2>13,
       <2>14
      DEF Serve
<1> QED
  BY <1>1, <1>2, <1>3, <1>4 DEF Next

(* The first state, and every step.                                        *)
LEMMA SafeInit == Init => SafeInv
<1> SUFFICES ASSUME Init PROVE SafeInv
  OBVIOUS
<1>1. NoReq \in ReqRec /\ NoReq.entry = 0 /\ NoReq.dup = 0 /\ NoReq.res.content = 0
  BY UrisAssumption, Blank
<1>2. file \in [Uris -> FileRec]
  <2>1. \A r \in {NoFile} \cup [ver : {1}, mtime : {1}, size : FileSizes] : r \in FileRec
    <3>1. NoFile \in FileRec
      BY DEF FileRec, NoFile
    <3>2. \A r \in [ver : {1}, mtime : {1}, size : FileSizes] : r \in FileRec
      <4>1. \A n \in FileSizes : n \in Nat
        BY FileSizesAssumption
      <4> QED
        BY <4>1 DEF FileRec
    <3> QED
      BY <3>1, <3>2
  <2> QED
    BY <2>1 DEF Init
<1>3. TypeInv
  <2>1. /\ edits \in Nat /\ cache_space \in Nat /\ requests \in Nat /\ grown \in Int
        /\ mtx \in Conns \cup {NONE, FREED} /\ cache \in [Uris -> Nat]
    BY BoundsAssumption DEF Init
  <2>2. entries \in Seq(EntryRec) /\ contents \in Seq(ContentRec)
    BY DEF Init
  <2>3. pc \in [Conns -> Steps] /\ req \in [Conns -> ReqRec]
    BY <1>1 DEF Init, Steps
  <2>4. clean \in [Conns -> BOOLEAN] /\ crashed \in BOOLEAN
    BY DEF Init
  <2> QED
    BY <1>2, <2>1, <2>2, <2>3, <2>4 DEF TypeInv
<1>4. RangeInv
  BY <1>1 DEF Init, RangeInv, CacheInRange, ContentInRange, ReqInRange, Using, Holding, Owning
<1>5. LockInv
  BY ConnsAssumption DEF Init, LockInv, MutexHeld, LockedAlive, OwnAlive, LookupUri, Holding,
        Owning, NONE
<1>6. PlaceInv
  BY DEF Init, PlaceInv, CacheAlive, LockedPlaced, LookupPlaced, Unpublished, OwnedAlone,
        DupAlive, Holding, Owning
<1> QED
  BY <1>3, <1>4, <1>5, <1>6 DEF SafeInv

(* Every step keeps the ranges, the locks and the places of the entries.   *)
LEMMA SafeStep == SafeInv /\ [Next]_vars => SafeInv'
<1> SUFFICES ASSUME SafeInv, [Next]_vars PROVE SafeInv'
  OBVIOUS
<1>1. TypeInv'
  BY StepEffect
<1>2. RangeInv' /\ LockInv' /\ PlaceInv'
  <2>1. ASSUME NEW c \in Conns, Effect(c) PROVE RangeInv' /\ LockInv' /\ PlaceInv'
    BY <2>1, GetSafe, LockSafe, StatSafe, FailSafe, CreateStatSafe, RefreshSafe, RespondSafe,
       RemoveSafe,
       FreeSafe, ReadSafe, SetFirstSafe, SetDuplicateSafe, LockDuplicateSafe, FinalizeSafe DEF Effect
  <2>2. CASE Destroys
    BY <2>2, DestroySafe
  <2>3. CASE (\E u \in Uris : Edits(u)) \/ Idles
    <3>1. UNCHANGED <<mtx, cache, entries, contents, pc, req>>
      BY <2>3 DEF Edits, Idles
    <3> QED
      BY <3>1, KeptSafe
  <2> QED
    BY <2>1, <2>2, <2>3, StepEffect
<1> QED
  BY <1>1, <1>2 DEF SafeInv

(* The safety invariant holds in every reachable state.                    *)
LEMMA SafeAlways == Spec => []SafeInv
BY SafeInit, SafeStep, PTL DEF Spec

(* Entries are safe once they are locked (EntriesSafe): nobody frees the   *)
(* entry that another connection holds, made or replaces, and              *)
(* remove_cache_entry finds the very entry it has locked in the table.     *)
THEOREM LockedEntriesAreSafe == Spec => []EntriesSafe
<1>1. SafeInv => EntriesSafe
  <2> SUFFICES ASSUME SafeInv PROVE EntriesSafe
    OBVIOUS
  <2>1. Basic /\ InRange /\ TypeInv /\ RangeInv /\ LockInv /\ PlaceInv
    BY Ranges DEF SafeInv
  <2>2. TypeOK
    <3>1. cache \in [Uris -> 0 .. Len(entries)]
      BY <2>1 DEF TypeInv, Basic, RangeInv, CacheInRange
    <3>2. \A e \in DOMAIN entries : /\ entries[e].content \in 0 .. Len(contents)
                                    /\ entries[e].holder \in Conns \cup {NONE}
      <4>1. entries \in Seq(EntryRec) /\ DOMAIN entries = 1 .. Len(entries)
        BY <2>1, LenProperties DEF TypeInv
      <4>2. \A e \in 1 .. Len(entries) : entries[e].holder \in Conns \cup {NONE}
        BY <4>1, EntryFields
      <4> QED
        BY <2>1, <4>1, <4>2 DEF Basic, RangeInv, ContentInRange
    <3>3. \A c \in Conns : req[c].entry \in 0 .. Len(entries) /\ req[c].dup \in 0 .. Len(entries)
      BY <2>1 DEF Basic, RangeInv, ReqInRange
    <3> QED
      BY <2>1, <3>1, <3>2, <3>3 DEF TypeOK, TypeInv
  <2>3. OnlyLookupUnsafe
    BY <2>1 DEF OnlyLookupUnsafe, LockInv, LockedAlive, OwnAlive, PlaceInv, DupAlive, Holding,
          Owning
  <2>4. RemovesItsOwn
    <3> SUFFICES ASSUME NEW c \in Conns, pc[c] = "remove", mtx = NONE
                 PROVE  cache[req[c].uri] = req[c].entry
      BY DEF RemovesItsOwn
    <3>1. ~Replaced(req[c].entry)
      BY <2>1, ConnsAssumption DEF Replaced, LockInv, MutexHeld, NONE
    <3> QED
      BY <2>1, <3>1 DEF PlaceInv, LockedPlaced, Holding
  <2> QED
    BY <2>2, <2>3, <2>4 DEF EntriesSafe
<1> QED
  BY <1>1, SafeAlways, PTL

-----------------------------------------------------------------------------
(* The references to a content: the entries that are alive and the         *)
(* responses in flight.  A content belongs to one entry at most, and a     *)
(* request that has no answer yet refers to none.                          *)
Live(i)    == {e \in 1 .. Len(entries) : entries[e].live /\ entries[e].content = i}
Answers(i) == {c \in Conns : req[c].res.content = i}

DistinctContents ==
  \A e, f \in 1 .. Len(entries) :
    entries[e].live /\ entries[f].live /\ entries[e].content = entries[f].content => e = f
NoAnswerYet == \A c \in Conns : pc[c] \notin Answering => req[c].res = NotFound
Counted ==
  \A i \in 1 .. Len(contents) : contents[i].count = Cardinality(Live(i)) + Cardinality(Answers(i))
RefInv == DistinctContents /\ NoAnswerYet /\ Counted

(* Adding or taking away one holder changes their number by one.           *)
LEMMA OneMoreOrLess ==
    ASSUME NEW S, IsFiniteSet(S), NEW x
    PROVE  /\ Cardinality(S) \in Nat
           /\ x \notin S => Cardinality(S \cup {x}) = Cardinality(S) + 1
           /\ x \in S => Cardinality(S \ {x}) = Cardinality(S) - 1
BY FS_CardinalityType, FS_AddElement, FS_RemoveElement

(* Only finitely many entries and answers hold a content.                  *)
LEMMA HoldersFinite ==
    ASSUME SafeInv, NEW i
    PROVE  IsFiniteSet(Live(i)) /\ IsFiniteSet(Answers(i))
<1>1. Len(entries) \in Nat
  BY Ranges DEF Basic
<1>2. IsFiniteSet(1 .. Len(entries))
  BY <1>1, FS_Interval
<1>3. Live(i) \subseteq 1 .. Len(entries) /\ Answers(i) \subseteq Conns
  BY DEF Live, Answers
<1> QED
  BY <1>2, <1>3, ConnsAssumption, FS_Subset

(* Nothing refers to a content before it is made.                          *)
LEMMA NewContentFree ==
    ASSUME SafeInv
    PROVE  Live(Len(contents) + 1) = {} /\ Answers(Len(contents) + 1) = {}
<1>1. Basic /\ RangeInv
  BY Ranges DEF SafeInv
<1> QED
  BY <1>1 DEF Live, Answers, Basic, RangeInv, ContentInRange, ReqInRange

(* A dropped reference.                                                    *)
LEMMA Dropped ==
    ASSUME SafeInv, NEW i \in 1 .. Len(contents), contents' = RefcountDec(contents, i)
    PROVE  /\ Len(contents') = Len(contents) /\ contents'[i].count = contents[i].count - 1
           /\ \A j \in 1 .. Len(contents) : j # i => contents'[j] = contents[j]
           /\ contents[i].count # 1 => contents'[i].ver = contents[i].ver /\ contents'[i].len = contents[i].len
<1>1. contents \in Seq(ContentRec)
  BY DEF SafeInv, TypeInv
<1> QED
  BY <1>1, RefcountDeced

(* The three ways in which the references to one content change: an entry  *)
(* gives it up, a response gives it up, a response takes it.               *)
LEMMA EntryGivesUp ==
    ASSUME SafeInv, Counted, NEW e \in 1 .. Len(entries), entries[e].live,
           NEW i \in 1 .. Len(contents), i = entries[e].content, contents' = RefcountDec(contents, i),
           Len(entries') = Len(entries), entries'[e].live = FALSE,
           \A f \in 1 .. Len(entries) : f # e => entries'[f] = entries[f],
           \A d \in Conns : req'[d].res = req[d].res
    PROVE  Counted'
<1>1. /\ Len(contents') = Len(contents) /\ contents'[i].count = contents[i].count - 1
      /\ \A j \in 1 .. Len(contents) : j # i => contents'[j] = contents[j]
  BY Dropped
<1>2. \A j : Answers(j)' = Answers(j)
  BY DEF Answers
<1>3. e \in Live(i) /\ Live(i)' = Live(i) \ {e} /\ \A j : j # i => Live(j)' = Live(j)
  BY DEF Live
<1>4. /\ \A j : Cardinality(Answers(j)) \in Nat /\ Cardinality(Live(j)) \in Nat
      /\ Cardinality(Live(i)') = Cardinality(Live(i)) - 1
  BY <1>3, HoldersFinite, OneMoreOrLess
<1>5. \A j \in 1 .. Len(contents') : contents'[j].count = Cardinality(Live(j)') + Cardinality(Answers(j)')
  <2> SUFFICES ASSUME NEW j \in 1 .. Len(contents)
               PROVE  contents'[j].count = Cardinality(Live(j)') + Cardinality(Answers(j)')
    BY <1>1
  <2>1. contents[j].count = Cardinality(Live(j)) + Cardinality(Answers(j))
    BY DEF Counted
  <2>2. CASE j = i
    BY <1>1, <1>2, <1>4, <2>1, <2>2
  <2>3. CASE j # i
    BY <1>1, <1>2, <1>3, <2>1, <2>3
  <2> QED
    BY <2>2, <2>3
<1> QED
  BY <1>5 DEF Counted

(* A connection that is done gives back the reference of its response.     *)
LEMMA ResponseGivesUp ==
    ASSUME SafeInv, Counted, NEW c \in Conns, NEW i \in 1 .. Len(contents), i = req[c].res.content,
           contents' = RefcountDec(contents, i), entries' = entries,
           req'[c].res.content = 0, \A d \in Conns : d # c => req'[d].res = req[d].res
    PROVE  Counted'
<1>1. /\ Len(contents') = Len(contents) /\ contents'[i].count = contents[i].count - 1
      /\ \A j \in 1 .. Len(contents) : j # i => contents'[j] = contents[j]
  BY Dropped
<1>2. \A j : Live(j)' = Live(j)
  BY DEF Live
<1>3. c \in Answers(i) /\ Answers(i)' = Answers(i) \ {c}
  BY DEF Answers
<1>4. \A j \in 1 .. Len(contents) : j # i => Answers(j)' = Answers(j)
  BY DEF Answers
<1>5. /\ \A j : Cardinality(Answers(j)) \in Nat /\ Cardinality(Live(j)) \in Nat
      /\ Cardinality(Answers(i)') = Cardinality(Answers(i)) - 1
  BY <1>3, HoldersFinite, OneMoreOrLess
<1>6. \A j \in 1 .. Len(contents') : contents'[j].count = Cardinality(Live(j)') + Cardinality(Answers(j)')
  <2> SUFFICES ASSUME NEW j \in 1 .. Len(contents)
               PROVE  contents'[j].count = Cardinality(Live(j)') + Cardinality(Answers(j)')
    BY <1>1
  <2>1. contents[j].count = Cardinality(Live(j)) + Cardinality(Answers(j))
    BY DEF Counted
  <2>2. CASE j = i
    BY <1>1, <1>2, <1>5, <2>1, <2>2
  <2>3. CASE j # i
    BY <1>1, <1>2, <1>4, <2>1, <2>3
  <2> QED
    BY <2>2, <2>3
<1> QED
  BY <1>6 DEF Counted

(* What does not touch the references keeps the counts.                    *)
LEMMA SameHolders ==
    ASSUME Counted, Len(contents') = Len(contents),
           \A j \in 1 .. Len(contents) : contents'[j].count = contents[j].count,
           Len(entries') = Len(entries),
           \A f \in 1 .. Len(entries) : /\ entries'[f].live = entries[f].live
                                        /\ entries'[f].content = entries[f].content,
           \A d \in Conns : req'[d].res.content = req[d].res.content
    PROVE  Counted'
<1>1. \A j : Live(j)' = Live(j) /\ Answers(j)' = Answers(j)
  BY DEF Live, Answers
<1>2. \A j \in 1 .. Len(contents') : contents'[j].count = Cardinality(Live(j)') + Cardinality(Answers(j)')
  BY <1>1 DEF Counted
<1> QED
  BY <1>2 DEF Counted

(* Most steps leave the references alone.                                  *)
LEMMA QuietRef ==
    ASSUME SafeInv, RefInv, NEW c \in Conns,
           \/ \E u \in Uris : Gets(c, u)
           \/ Locks(c) \/ Stats(c) \/ Fails(c) \/ CreateStats(c) \/ Removes(c) \/ SetsFirst(c) \/ SetsDuplicate(c)
    PROVE  RefInv'
<1>1. DistinctContents /\ NoAnswerYet /\ Counted
  BY DEF RefInv
<1>2. /\ contents' = contents /\ Len(entries') = Len(entries)
      /\ \A f \in 1 .. Len(entries) : /\ entries'[f].live = entries[f].live
                                      /\ entries'[f].content = entries[f].content
      /\ Alone(c)
  BY DEF Gets, Locks, Stats, Fails, CreateStats, Removes, SetsFirst, SetsDuplicate
<1>3. /\ req'[c].res = req[c].res
      /\ pc'[c] \notin Answering => pc[c] \notin Answering
  <2>1. CASE \E u \in Uris : Gets(c, u)
    <3>1. req'[c].res = NotFound /\ pc[c] = "idle"
      BY <2>1 DEF Gets
    <3>2. "idle" \notin Answering
      BY DEF Answering, Owning
    <3> QED
      BY <1>1, <3>1, <3>2 DEF NoAnswerYet
  <2>2. CASE Locks(c) \/ Stats(c) \/ Fails(c) \/ CreateStats(c)
    <3>1. req'[c].res = req[c].res /\ pc[c] \in {"lock", "stat", "refresh", "read", "create"}
      BY <2>2 DEF Locks, Stats, Fails, CreateStats
    <3> QED
      BY <3>1 DEF Answering, Owning
  <2>3. CASE Removes(c) \/ SetsFirst(c) \/ SetsDuplicate(c)
    <3>1. /\ req'[c].res = req[c].res
          /\ pc[c] = "remove" \/ pc'[c] \in {"sent", "full", "dup"}
      BY <2>3 DEF Removes, SetsFirst, SetsDuplicate
    <3> QED
      BY <3>1 DEF Answering, Owning
  <2> QED
    BY <2>1, <2>2, <2>3
<1>4. \A d \in Conns : req'[d].res = req[d].res
  BY <1>2, <1>3 DEF Alone
<1>5. DistinctContents'
  BY <1>1, <1>2 DEF DistinctContents
<1>6. NoAnswerYet'
  BY <1>1, <1>2, <1>3 DEF NoAnswerYet, Alone
<1>7. Counted'
  BY <1>1, <1>2, <1>4, SameHolders
<1> QED
  BY <1>5, <1>6, <1>7 DEF RefInv

(* Refresh: the effect keeps the counts equal to the references.           *)
LEMMA RefreshRef ==
    ASSUME SafeInv, RefInv, NEW c \in Conns, Refreshes(c), RefreshMoves(c)
    PROVE  RefInv'
<1>1. DistinctContents /\ NoAnswerYet /\ Counted /\ Basic /\ RangeInv /\ Entry(c).live
  BY SMTT(30), Ranges DEF RefInv, SafeInv, LockInv, LockedAlive, Holding, RefreshMoves
<1>2. PICK e \in 1 .. Len(entries), i \in 1 .. Len(contents), n \in Nat :
         /\ e = req[c].entry /\ i = entries[e].content /\ n = Len(contents) + 1
  BY SMTT(60), <1>1 DEF Refreshes, Basic
<1>3. /\ entries[e].live /\ entries'[e].live /\ entries'[e].content = n /\ Len(entries') = Len(entries)
      /\ \A f \in 1 .. Len(entries) : f # e => entries'[f] = entries[f]
      /\ Len(contents') = n /\ contents'[n].count = 1 /\ contents'[i].count = contents[i].count - 1
      /\ \A j \in 1 .. Len(contents) : j # i => contents'[j] = contents[j]
      /\ req' = req
  BY <1>1, <1>2 DEF Refreshes, RefreshMoves, Entry
<1>4. DistinctContents'
  <2>1. \A f \in 1 .. Len(entries) : entries[f].content # n
    BY <1>1, <1>2 DEF Basic, RangeInv, ContentInRange
  <2> QED
    BY <1>1, <1>3, <2>1 DEF DistinctContents
<1>5. NoAnswerYet'
  <2>1. pc[c] \notin Answering /\ Alone(c)
    BY DEF RefreshMoves, Answering, Owning
  <2> QED
    BY <1>1, <1>3, <2>1 DEF NoAnswerYet, Alone
<1>6. Counted'
  <2>1. \A j : Answers(j)' = Answers(j)
    BY SMTT(30), <1>3 DEF Answers
  <2>2. e \in Live(i) /\ Live(i)' = Live(i) \ {e} /\ Live(n)' = Live(n) \cup {e}
    BY SMTT(60), <1>1, <1>2, <1>3 DEF Live, Basic
  <2>3. ASSUME NEW j, j # i, j # n PROVE Live(j)' = Live(j)
    <3>1. \A f \in 1 .. Len(entries) :
             entries'[f].live /\ entries'[f].content = j <=> entries[f].live /\ entries[f].content = j
      BY <1>2, <1>3, <2>3
    <3> QED
      BY <1>3, <3>1 DEF Live
  <2>4. Live(n) = {} /\ Answers(n) = {}
    BY <1>2, NewContentFree
  <2>5. /\ \A j : Cardinality(Answers(j)) \in Nat /\ Cardinality(Live(j)) \in Nat
        /\ Cardinality(Live(i)') = Cardinality(Live(i)) - 1
    BY <2>2, HoldersFinite, OneMoreOrLess
  <2>6. Cardinality(Live(n)') = 1 /\ Cardinality(Answers(n)') = 0
    <3>1. Live(n)' = {e} /\ Answers(n)' = {}
      BY <2>1, <2>2, <2>4
    <3>2. Cardinality({e}) = 1 /\ Cardinality({}) = 0
      BY FS_EmptySet, FS_Singleton
    <3> QED
      BY <3>1, <3>2
  <2>7. ASSUME NEW j \in 1 .. n PROVE contents'[j].count = Cardinality(Live(j)') + Cardinality(Answers(j)')
    <3>1. CASE j = n
      BY <1>3, <2>6, <3>1
    <3>2. CASE j = i
      <4>1. contents[i].count = Cardinality(Live(i)) + Cardinality(Answers(i))
        BY <1>1 DEF Counted
      <4> QED
        BY <1>3, <2>1, <2>5, <3>2, <4>1
    <3>3. CASE j # n /\ j # i
      <4>1. j \in 1 .. Len(contents)
        BY <1>1, <1>2, <3>3 DEF Basic
      <4>2. contents[j].count = Cardinality(Live(j)) + Cardinality(Answers(j))
        BY <1>1, <4>1 DEF Counted
      <4> QED
        BY <1>3, <2>1, <2>3, <3>3, <4>1, <4>2
    <3> QED
      BY <3>1, <3>2, <3>3
  <2>8. \A j \in 1 .. Len(contents') : contents'[j].count = Cardinality(Live(j)') + Cardinality(Answers(j)')
    BY <1>3, <2>7
  <2> QED
    BY <2>8 DEF Counted
<1> QED
  BY <1>4, <1>5, <1>6 DEF RefInv

(* Respond: the effect keeps the counts equal to the references.           *)
LEMMA RespondRef ==
    ASSUME SafeInv, RefInv, NEW c \in Conns, Responds(c), RespondMoves(c)
    PROVE  RefInv'
<1>1. DistinctContents /\ NoAnswerYet /\ Counted
  BY SMTT(30) DEF RefInv
<1>2. PICK e \in 1 .. Len(entries), i \in 1 .. Len(contents) : e = req[c].entry /\ i = entries[e].content
  BY SMTT(30) DEF Responds
<1>3. /\ Len(entries') = Len(entries) /\ Len(contents') = Len(contents)
      /\ \A f \in 1 .. Len(entries) : /\ entries'[f].live = entries[f].live
                                      /\ entries'[f].content = entries[f].content
      /\ \A j \in 1 .. Len(contents) : j # i => contents'[j] = contents[j]
      /\ contents'[i].count = contents[i].count + IF entries[e].size = 0 THEN 0 ELSE 1
      /\ req'[c].res.content = IF entries[e].size = 0 THEN 0 ELSE i
      /\ Alone(c) /\ pc[c] = "respond" /\ pc'[c] = "sent"
  BY <1>2 DEF Responds, RespondMoves
<1>4. req[c].res.content = 0
  BY <1>1, <1>3 DEF NoAnswerYet, NotFound, Answering, Owning
<1>5. DistinctContents'
  BY <1>1, <1>3 DEF DistinctContents
<1>6. NoAnswerYet'
  BY <1>1, <1>3 DEF NoAnswerYet, Alone, Answering, Owning
<1>7. Counted'
  <2>1. \A j \in 1 .. Len(contents) : contents[j].count = Cardinality(Live(j)) + Cardinality(Answers(j))
    BY <1>1 DEF Counted
  <2>2. /\ \A j : Cardinality(Answers(j)) \in Nat /\ Cardinality(Live(j)) \in Nat
    BY HoldersFinite, OneMoreOrLess
  <2>3. \A j : Live(j)' = Live(j)
    BY <1>3 DEF Live
  <2>4. \A j \in 1 .. Len(contents) : j # i => Answers(j)' = Answers(j)
    <3> TAKE j \in 1 .. Len(contents)
    <3> SUFFICES ASSUME j # i PROVE Answers(j)' = Answers(j)
      OBVIOUS
    <3>1. j # 0 /\ i # 0
      BY <1>2
    <3>2. \A d \in Conns : req'[d].res.content = j <=> req[d].res.content = j
      BY <1>3, <1>4, <3>1 DEF Alone
    <3> QED
      BY <3>2 DEF Answers
  <2>5. contents'[i].count = Cardinality(Live(i)') + Cardinality(Answers(i)')
    <3>1. CASE entries[e].size = 0
      <4>1. Answers(i)' = Answers(i)
        BY <1>3, <1>4, <3>1 DEF Answers, Alone
      <4> QED
        BY <1>3, <2>1, <2>2, <2>3, <3>1, <4>1
    <3>2. CASE entries[e].size # 0
      <4>1. c \notin Answers(i) /\ Answers(i)' = Answers(i) \cup {c}
        BY <1>3, <1>4, <3>2 DEF Answers, Alone
      <4>2. Cardinality(Answers(i)') = Cardinality(Answers(i)) + 1
        BY <4>1, HoldersFinite, OneMoreOrLess
      <4> QED
        BY <1>3, <2>1, <2>2, <2>3, <3>2, <4>2
    <3> QED
      BY <3>1, <3>2
  <2>6. \A j \in 1 .. Len(contents') : contents'[j].count = Cardinality(Live(j)') + Cardinality(Answers(j)')
    BY <1>3, <2>1, <2>3, <2>4, <2>5
  <2> QED
    BY <2>6 DEF Counted
<1> QED
  BY <1>5, <1>6, <1>7 DEF RefInv

(* Free: the effect keeps the counts equal to the references.              *)
LEMMA FreeRef ==
    ASSUME SafeInv, RefInv, NEW c \in Conns, Frees(c) \/ LocksDuplicate(c)
    PROVE  RefInv'
<1>1. DistinctContents /\ NoAnswerYet /\ Counted
  BY DEF RefInv
<1>2. PICK e \in 1 .. Len(entries), i \in 1 .. Len(contents) :
         /\ i = entries[e].content /\ entries[e].live /\ contents' = RefcountDec(contents, i)
         /\ Len(entries') = Len(entries) /\ entries'[e].live = FALSE
         /\ \A f \in 1 .. Len(entries) : f # e => entries'[f] = entries[f]
  BY DEF Frees, LocksDuplicate
<1>3. req' = req /\ Alone(c) /\ (pc'[c] \in Answering \/ pc[c] \notin Answering)
  BY DEF Frees, LocksDuplicate, Answering, Owning
<1>4. DistinctContents'
  BY <1>1, <1>2 DEF DistinctContents
<1>5. NoAnswerYet'
  BY <1>1, <1>3 DEF NoAnswerYet, Alone
<1>6. Counted'
  BY <1>1, <1>2, <1>3, EntryGivesUp
<1> QED
  BY <1>4, <1>5, <1>6 DEF RefInv

(* Read: the effect keeps the counts equal to the references.              *)
LEMMA ReadRef ==
    ASSUME SafeInv, RefInv, NEW c \in Conns, Reads(c)
    PROVE  RefInv'
<1>1. DistinctContents /\ NoAnswerYet /\ Counted /\ Basic /\ RangeInv
  BY Ranges DEF RefInv, SafeInv
<1>2. PICK e \in Nat, i \in Nat : e = Len(entries) + 1 /\ i = Len(contents) + 1
  BY <1>1 DEF Basic
<1>3. /\ Len(entries') = e /\ Len(contents') = i
      /\ \A f \in 1 .. Len(entries) : entries'[f] = entries[f]
      /\ \A j \in 1 .. Len(contents) : contents'[j] = contents[j]
      /\ entries'[e].live /\ entries'[e].content = i
      /\ contents'[i].count = IF req[c].sb.size = 0 THEN 1 ELSE 2
      /\ req'[c].res.content = IF req[c].sb.size = 0 THEN 0 ELSE i
      /\ Alone(c) /\ pc[c] = "read" /\ pc'[c] = "set"
  BY <1>2 DEF Reads
<1>4. req[c].res.content = 0
  BY <1>1, <1>3 DEF NoAnswerYet, NotFound, Answering, Owning
<1>5. DistinctContents'
  BY <1>1, <1>2, <1>3 DEF DistinctContents, Basic, RangeInv, ContentInRange
<1>6. NoAnswerYet'
  BY <1>1, <1>3 DEF NoAnswerYet, Alone, Answering, Owning
<1>7. Counted'
  <2>1. \A j \in 1 .. Len(contents) : contents[j].count = Cardinality(Live(j)) + Cardinality(Answers(j))
    BY <1>1 DEF Counted
  <2>2. \A j \in 1 .. Len(contents) : Live(j)' = Live(j) /\ Answers(j)' = Answers(j)
    <3> TAKE j \in 1 .. Len(contents)
    <3>1. Live(j)' = Live(j)
      BY <1>1, <1>2, <1>3 DEF Live, Basic
    <3>2. Answers(j)' = Answers(j)
      BY <1>1, <1>2, <1>3, <1>4 DEF Answers, Alone, Basic
    <3> QED
      BY <3>1, <3>2
  <2>3. Live(i) = {} /\ Answers(i) = {}
    BY <1>2, NewContentFree
  <2>4. Live(i)' = {e}
    <3>1. \A f \in 1 .. Len(entries) : ~(entries[f].live /\ entries[f].content = i)
      BY <2>3 DEF Live
    <3>2. \A f \in 1 .. e : entries'[f].live /\ entries'[f].content = i <=> f = e
      BY <1>1, <1>2, <1>3, <3>1 DEF Basic
    <3>3. e \in 1 .. e
      BY <1>1, <1>2 DEF Basic
    <3> QED
      BY <1>3, <3>2, <3>3 DEF Live
  <2>5. Answers(i)' = IF req[c].sb.size = 0 THEN {} ELSE {c}
    BY <1>1, <1>2, <1>3, <1>4, <2>3 DEF Answers, Alone, Basic
  <2>6. contents'[i].count = Cardinality(Live(i)') + Cardinality(Answers(i)')
    <3>1. Cardinality({e}) = 1 /\ Cardinality({c}) = 1 /\ Cardinality({}) = 0
      BY FS_EmptySet, FS_Singleton
    <3>2. CASE req[c].sb.size = 0
      BY <1>3, <2>4, <2>5, <3>1, <3>2
    <3>3. CASE req[c].sb.size # 0
      BY <1>3, <2>4, <2>5, <3>1, <3>3
    <3> QED
      BY <3>2, <3>3
  <2>7. \A j \in 1 .. Len(contents') : contents'[j].count = Cardinality(Live(j)') + Cardinality(Answers(j)')
    <3> TAKE j \in 1 .. Len(contents')
    <3>1. CASE j = i
      BY <2>6, <3>1
    <3>2. CASE j # i
      <4>1. j \in 1 .. Len(contents) /\ contents'[j] = contents[j]
        BY <1>1, <1>2, <1>3, <3>2 DEF Basic
      <4> QED
        BY <2>1, <2>2, <4>1
    <3> QED
      BY <3>1, <3>2
  <2> QED
    BY <2>7 DEF Counted
<1> QED
  BY <1>5, <1>6, <1>7 DEF RefInv

(* Finalize: the effect keeps the counts equal to the references.          *)
LEMMA FinalizeRef ==
    ASSUME SafeInv, RefInv, NEW c \in Conns, Finalizes(c)
    PROVE  RefInv'
<1>1. DistinctContents /\ NoAnswerYet /\ Counted
  BY DEF RefInv
<1>2. /\ Alone(c) /\ pc'[c] = "idle" /\ req'[c] = NoReq /\ entries' = entries
      /\ Len(contents') = Len(contents)
  BY DEF Finalizes
<1>3. req'[c].res = NotFound /\ req'[c].res.content = 0
  BY <1>2, UrisAssumption, Blank
<1>4. DistinctContents'
  BY <1>1, <1>2 DEF DistinctContents
<1>5. NoAnswerYet'
  BY <1>1, <1>2, <1>3 DEF NoAnswerYet, Alone
<1>6. Counted'
  <2>1. CASE req[c].res.content = 0
    <3>1. contents' = contents /\ \A d \in Conns : req'[d].res.content = req[d].res.content
      BY <1>2, <1>3, <2>1 DEF Finalizes, Alone
    <3> QED
      BY <1>1, <1>2, <3>1, SameHolders
  <2>2. CASE req[c].res.content # 0
    <3>1. PICK i \in 1 .. Len(contents) : i = req[c].res.content /\ contents' = RefcountDec(contents, i)
      BY <2>2, Ranges DEF Finalizes, Basic
    <3>2. \A d \in Conns : d # c => req'[d].res = req[d].res
      BY <1>2 DEF Alone
    <3> QED
      BY <1>1, <1>2, <1>3, <3>1, <3>2, ResponseGivesUp
  <2> QED
    BY <2>1, <2>2
<1> QED
  BY <1>4, <1>5, <1>6 DEF RefInv

(* Destroy: the effect keeps the counts equal to the references.           *)
LEMMA DestroyRef ==
    ASSUME SafeInv, RefInv, Destroys
    PROVE  RefInv'
<1>1. DistinctContents /\ NoAnswerYet /\ Counted /\ InRange /\ CacheAlive /\ contents \in Seq(ContentRec)
  BY Ranges DEF RefInv, SafeInv, PlaceInv, TypeInv
<1>2. \A e \in Gone : e \in 1 .. Len(entries) /\ entries[e].live
  BY <1>1 DEF Gone, CacheAlive, InRange
<1>3. /\ UNCHANGED <<pc, req>> /\ Len(entries') = Len(entries) /\ Len(contents') = Len(contents)
      /\ \A e \in 1 .. Len(entries) : e \notin Gone => entries'[e] = entries[e]
      /\ \A i \in 1 .. Len(contents) :
           contents'[i] = IF \E e \in Gone : entries[e].content = i
                          THEN RefcountDec(contents, i)[i] ELSE contents[i]
  BY DEF Destroys
<1>4. \A e \in 1 .. Len(entries) : e \in Gone => entries'[e].live = FALSE
  BY DEF Destroys, FreedEntry
<1>5. DistinctContents'
  BY <1>1, <1>3, <1>4 DEF DistinctContents
<1>6. NoAnswerYet'
  BY <1>1, <1>3 DEF NoAnswerYet
<1>7. ASSUME NEW i \in 1 .. Len(contents)
      PROVE  contents'[i].count = Cardinality(Live(i)') + Cardinality(Answers(i)')
  <2>1. contents[i].count = Cardinality(Live(i)) + Cardinality(Answers(i)) /\ Answers(i)' = Answers(i)
    BY <1>1, <1>3 DEF Counted, Answers
  <2>2. Cardinality(Live(i)) \in Nat /\ Cardinality(Answers(i)) \in Nat
    BY HoldersFinite, OneMoreOrLess
  <2>3. CASE \E e \in Gone : entries[e].content = i
    <3>1. PICK e \in Gone : entries[e].content = i
      BY <2>3
    <3>2. e \in Live(i) /\ Live(i)' = Live(i) \ {e}
      <4>1. e \in 1 .. Len(entries) /\ entries[e].live /\ entries'[e].live = FALSE
        BY <1>2, <1>4
      <4>2. \A f \in 1 .. Len(entries) :
               entries'[f].live /\ entries'[f].content = i <=> entries[f].live /\ entries[f].content = i /\ f # e
        BY <1>1, <1>3, <1>4, <3>1, <4>1 DEF DistinctContents
      <4> QED
        BY <1>3, <3>1, <4>1, <4>2 DEF Live
    <3>3. Cardinality(Live(i)') = Cardinality(Live(i)) - 1
      BY <3>2, HoldersFinite, OneMoreOrLess
    <3>4. contents'[i].count = contents[i].count - 1
      BY <1>1, <1>3, <2>3, RefcountDeced
    <3> QED
      BY <2>1, <2>2, <3>3, <3>4
  <2>4. CASE ~\E e \in Gone : entries[e].content = i
    <3>1. contents'[i] = contents[i]
      BY <1>3, <2>4
    <3>2. Live(i)' = Live(i)
      BY <1>3, <1>4, <2>4 DEF Live
    <3> QED
      BY <2>1, <3>1, <3>2
  <2> QED
    BY <2>3, <2>4
<1>8. \A i \in 1 .. Len(contents') : contents'[i].count = Cardinality(Live(i)') + Cardinality(Answers(i)')
  BY <1>3, <1>7
<1> QED
  BY <1>5, <1>6, <1>8 DEF RefInv, Counted

(* Nothing is counted at the start.                                        *)
LEMMA RefInit == Init => RefInv
<1> SUFFICES ASSUME Init PROVE RefInv
  OBVIOUS
<1>1. NoReq.res = NotFound
  BY UrisAssumption, Blank
<1>2. entries = <<>> /\ contents = <<>> /\ \A c \in Conns : req[c] = NoReq
  BY DEF Init
<1> QED
  BY <1>1, <1>2 DEF RefInv, DistinctContents, NoAnswerYet, Counted

(* Every step keeps the counts equal to the references.                    *)
LEMMA RefStep == SafeInv /\ RefInv /\ [Next]_vars => RefInv'
<1> SUFFICES ASSUME SafeInv, RefInv, [Next]_vars PROVE RefInv'
  OBVIOUS
<1>1. ASSUME NEW c \in Conns, Effect(c) PROVE RefInv'
  BY <1>1, QuietRef, RefreshRef, RespondRef, FreeRef, ReadRef, FinalizeRef DEF Effect
<1>2. CASE Destroys
  BY <1>2, DestroyRef
<1>3. CASE (\E u \in Uris : Edits(u)) \/ Idles
  <2>1. UNCHANGED <<entries, contents, pc, req>>
    BY <1>3 DEF Edits, Idles
  <2>2. Counted'
    BY <2>1, SameHolders DEF RefInv
  <2>3. DistinctContents' /\ NoAnswerYet'
    BY <2>1 DEF RefInv, DistinctContents, NoAnswerYet
  <2> QED
    BY <2>2, <2>3 DEF RefInv
<1> QED
  BY <1>1, <1>2, <1>3, StepEffect

(* The counts are right in every reachable state.                          *)
LEMMA RefAlways == Spec => [](SafeInv /\ RefInv)
<1>1. Init => SafeInv /\ RefInv
  BY SafeInit, RefInit
<1>2. SafeInv /\ RefInv /\ [Next]_vars => SafeInv' /\ RefInv'
  BY SafeStep, RefStep
<1> QED
  BY <1>1, <1>2, PTL DEF Spec

(* A count is always the number of entries and responses that refer to the *)
(* content (CountsAreHolders): no response in flight loses its bytes when  *)
(* its entry is refreshed, replaced or removed, and none keeps them longer *)
(* than it lasts (uo_refcount.c, uo_http_file_server.c:142-260).           *)
THEOREM CountsAreReferences == Spec => []CountsAreHolders
<1>1. SafeInv /\ RefInv => CountsAreHolders
  <2> SUFFICES ASSUME SafeInv, RefInv, NEW i \in DOMAIN contents
               PROVE  contents[i].count = Holders(i)
    BY DEF CountsAreHolders
  <2>1. DOMAIN contents = 1 .. Len(contents) /\ DOMAIN entries = 1 .. Len(entries)
    BY LenProperties DEF SafeInv, TypeInv
  <2>2. Holders(i) = Cardinality(Live(i)) + Cardinality(Answers(i))
    BY <2>1 DEF Holders, Live, Answers
  <2> QED
    BY <2>1, <2>2 DEF RefInv, Counted
<1> QED
  BY <1>1, RefAlways, PTL

-----------------------------------------------------------------------------
(* What is fresh: an entry or a stat with the time that only the current   *)
(* version of the file can have is of that version; a request whose file   *)
(* nobody touched has the stat of what is there, and answers with it when  *)
(* the file has a time of its own.                                         *)
VerOk(u) ==
  /\ file[u].ver <= edits
  /\ file[u].ver # 0 => file[u].mtime \in 1 .. edits
EntryOk(e) ==
  LET now == file[entries[e].uri]
  IN  /\ entries[e].uri \in Uris /\ entries[e].mtime \in 1 .. edits
      /\ entries[e].mtime = now.ver =>
           /\ contents[entries[e].content].ver = now.ver
           /\ contents[entries[e].content].len = now.size
           /\ entries[e].size = now.size
StatOk(c) ==
  pc[c] \in {"refresh", "read"} =>
    /\ req[c].sb.ver # 0 /\ req[c].sb.mtime \in 1 .. edits
    /\ req[c].sb.mtime = file[req[c].uri].ver \/ clean[c] => req[c].sb = file[req[c].uri]
AnswerOk(c) ==
  LET res == req[c].res
      now == file[req[c].uri]
  IN  /\ now.ver = 0 => res = NotFound
      /\ now.ver # 0 =>
           /\ res.status = 200 /\ res.len = now.size
           /\ res.content # 0 => contents[res.content].ver = now.ver /\ contents[res.content].len = now.size
CleanOk(c) ==
  clean[c] => /\ pc[c] = "respond" => Entry(c).mtime = file[req[c].uri].mtime
              /\ pc[c] \in {"remove", "destroy"} => file[req[c].uri].ver = 0
              /\ pc[c] \in Answering /\ OwnTime(req[c].uri) => AnswerOk(c)
FreshInv ==
  /\ \A u \in Uris : VerOk(u)
  /\ \A e \in 1 .. Len(entries) : entries[e].live => EntryOk(e)
  /\ \A c \in Conns : StatOk(c) /\ CleanOk(c)

(* A content that is referred to is there.                                 *)
HeldInv ==
  /\ \A c \in Conns : req[c].res.content # 0 => contents[req[c].res.content].count # 0
  /\ \A e \in 1 .. Len(entries) : entries[e].live => contents[entries[e].content].count # 0

(* A content that an entry or an answer refers to is counted, hence not    *)
(* freed.                                                                  *)
LEMMA Held == SafeInv /\ RefInv => HeldInv
<1> SUFFICES ASSUME SafeInv, RefInv PROVE HeldInv
  OBVIOUS
<1>1. Basic /\ RangeInv /\ Counted
  BY Ranges DEF SafeInv, RefInv
<1>2. ASSUME NEW i \in 1 .. Len(contents), Live(i) # {} \/ Answers(i) # {}
      PROVE  contents[i].count # 0
  <2>1. Cardinality(Live(i)) \in Nat /\ Cardinality(Answers(i)) \in Nat
    BY HoldersFinite, OneMoreOrLess
  <2>2. Cardinality(Live(i)) # 0 \/ Cardinality(Answers(i)) # 0
    BY <1>2, HoldersFinite, FS_EmptySet
  <2> QED
    BY <1>1, <2>1, <2>2 DEF Counted
<1>3. ASSUME NEW c \in Conns, req[c].res.content # 0 PROVE contents[req[c].res.content].count # 0
  <2>1. req[c].res.content \in 1 .. Len(contents)
    BY <1>1, <1>3 DEF Basic, RangeInv, ReqInRange
  <2>2. c \in Answers(req[c].res.content)
    BY DEF Answers
  <2> QED
    BY <1>2, <2>1, <2>2
<1>4. ASSUME NEW e \in 1 .. Len(entries), entries[e].live PROVE contents[entries[e].content].count # 0
  <2>1. entries[e].content \in 1 .. Len(contents)
    BY <1>1, <1>4 DEF Basic, RangeInv, ContentInRange
  <2>2. e \in Live(entries[e].content)
    BY <1>4 DEF Live
  <2> QED
    BY <1>2, <2>1, <2>2
<1> QED
  BY <1>3, <1>4 DEF HeldInv

(* A step never changes the bytes of a content that keeps a reference.     *)
Same(i) == contents'[i].ver = contents[i].ver /\ contents'[i].len = contents[i].len

(* The bytes of a content with a reference left are not written again.     *)
LEMMA BytesStay ==
    ASSUME SafeInv, [Next]_vars, NEW i \in 1 .. Len(contents), contents'[i].count # 0
    PROVE  Same(i)
<1>1. contents \in Seq(ContentRec) /\ contents[i].count \in Int
  BY ContentFields DEF SafeInv, TypeInv
<1>2. ASSUME NEW k \in 1 .. Len(contents), contents' = RefcountDec(contents, k)
      PROVE  Same(i)
  <2>1. CASE k = i
    BY <1>1, <1>2, <2>1, Dropped DEF Same
  <2>2. CASE k # i
    BY <1>2, <2>2, Dropped DEF Same
  <2> QED
    BY <2>1, <2>2
<1>3. ASSUME NEW c \in Conns, Effect(c) PROVE Same(i)
  <2>1. CASE \/ \E u \in Uris : Gets(c, u)
             \/ Locks(c) \/ Stats(c) \/ Fails(c) \/ CreateStats(c) \/ Removes(c) \/ SetsFirst(c) \/ SetsDuplicate(c)
    BY <2>1 DEF Same, Gets, Locks, Stats, Fails, CreateStats, Removes, SetsFirst, SetsDuplicate
  <2>2. CASE Refreshes(c)
    <3>1. PICK k \in 1 .. Len(contents) :
             /\ \A j \in 1 .. Len(contents) : j # k => contents'[j] = contents[j]
             /\ contents'[k].count = contents[k].count - 1
             /\ contents[k].count # 1 => Same(k)
      BY <2>2 DEF Refreshes, Same
    <3>2. CASE k = i
      BY <1>1, <3>1, <3>2
    <3>3. CASE k # i
      BY <3>1, <3>3 DEF Same
    <3> QED
      BY SMTT(30), <3>2, <3>3
  <2>3. CASE Responds(c)
    BY <2>3 DEF Responds, Same
  <2>4. CASE Frees(c) \/ LocksDuplicate(c)
    <3>1. PICK k \in 1 .. Len(contents) : contents' = RefcountDec(contents, k)
      BY <2>4 DEF Frees, LocksDuplicate
    <3> QED
      BY <1>2, <3>1
  <2>5. CASE Reads(c)
    BY <2>5 DEF Reads, Same
  <2>6. CASE Finalizes(c)
    <3>1. CASE req[c].res.content = 0
      BY <2>6, <3>1 DEF Finalizes, Same
    <3>2. CASE req[c].res.content # 0
      <4>1. PICK k \in 1 .. Len(contents) : contents' = RefcountDec(contents, k)
        BY <2>6, <3>2, Ranges DEF Finalizes, Basic
      <4> QED
        BY <1>2, <4>1
    <3> QED
      BY <3>1, <3>2
  <2> QED
    BY <1>3, <2>1, <2>2, <2>3, <2>4, <2>5, <2>6 DEF Effect
<1>4. CASE Destroys
  <2>1. CASE contents'[i] = contents[i]
    BY <2>1 DEF Same
  <2>2. CASE contents'[i] = RefcountDec(contents, i)[i]
    BY <1>1, <2>2, RefcountDeced DEF Same
  <2> QED
    BY <1>4, <2>1, <2>2 DEF Destroys
<1>5. CASE (\E u \in Uris : Edits(u)) \/ Idles
  BY <1>5 DEF Edits, Idles, Same
<1> QED
  BY <1>3, <1>4, <1>5, StepEffect

(* Hence what entries and answers refer to keeps its bytes.                *)
LEMMA HeldBytesStay ==
    ASSUME SafeInv, SafeInv', RefInv', [Next]_vars
    PROVE  /\ \A d \in Conns : req'[d].res.content \in 1 .. Len(contents) => Same(req'[d].res.content)
           /\ \A e \in 1 .. Len(entries') :
                entries'[e].live /\ entries'[e].content \in 1 .. Len(contents) => Same(entries'[e].content)
<1>1. HeldInv'
  BY Held, PTL
<1>2. /\ \A d \in Conns : req'[d].res.content # 0 => contents'[req'[d].res.content].count # 0
      /\ \A e \in 1 .. Len(entries') : entries'[e].live => contents'[entries'[e].content].count # 0
  BY <1>1 DEF HeldInv
<1>3. \A i \in 1 .. Len(contents) : contents'[i].count # 0 => Same(i)
  BY BytesStay
<1> QED
  BY <1>2, <1>3

(* An entry that was not replaced, and the requests of the connections     *)
(* that do not take the step, stay as fresh as they were.                  *)
LEMMA EntryStays ==
    ASSUME SafeInv, SafeInv', RefInv', FreshInv, [Next]_vars, UNCHANGED <<file, edits>>,
           NEW e \in 1 .. Len(entries), e \in 1 .. Len(entries'), entries[e].live, entries'[e].live,
           entries'[e].uri = entries[e].uri, entries'[e].mtime = entries[e].mtime,
           entries'[e].size = entries[e].size, entries'[e].content = entries[e].content
    PROVE  EntryOk(e)'
<1>1. EntryOk(e)
  BY DEF FreshInv
<1>2. entries[e].content \in 1 .. Len(contents)
  BY Ranges DEF Basic, SafeInv, RangeInv, ContentInRange
<1>3. Same(entries[e].content)
  BY <1>2, HeldBytesStay
<1> QED
  BY <1>1, <1>3 DEF EntryOk, Same

(* A right answer stays right while the file is not edited.                *)
LEMMA AnswerStays ==
    ASSUME SafeInv, SafeInv', RefInv', [Next]_vars, UNCHANGED <<file, edits>>,
           NEW d \in Conns, req'[d].res = req[d].res, req'[d].uri = req[d].uri, AnswerOk(d)
    PROVE  AnswerOk(d)'
<1>1. req[d].res.content = 0 \/ req[d].res.content \in 1 .. Len(contents)
  BY Ranges DEF Basic, SafeInv, RangeInv, ReqInRange
<1>2. CASE req[d].res.content = 0
  BY <1>2 DEF AnswerOk
<1>3. CASE req[d].res.content \in 1 .. Len(contents)
  <2>1. Same(req[d].res.content)
    BY <1>3, HeldBytesStay
  <2> QED
    BY <2>1 DEF AnswerOk, Same
<1> QED
  BY <1>1, <1>2, <1>3

(* Nobody else refreshes the entry that a connection has locked.           *)
LEMMA Untouched ==
    ASSUME SafeInv, NEW c \in Conns, NEW d \in Conns, d # c, Effect(c), pc[d] \in Holding
    PROVE  entries'[req[d].entry].mtime = entries[req[d].entry].mtime
<1>1. /\ req[d].entry \in 1 .. Len(entries) /\ entries[req[d].entry].holder = d /\ entries[req[d].entry].live
      /\ LockInv /\ PlaceInv
  BY Ranges DEF InRange, Using, SafeInv, LockInv, LockedAlive, Entry
<1>2. CASE \/ \E u \in Uris : Gets(c, u)
           \/ Stats(c) \/ Fails(c) \/ CreateStats(c) \/ Removes(c) \/ SetsFirst(c) \/ SetsDuplicate(c) \/ Finalizes(c)
  BY <1>2 DEF Gets, Stats, Fails, CreateStats, Removes, SetsFirst, SetsDuplicate, Finalizes
<1>3. CASE Locks(c)
  BY SMTT(30), <1>1, <1>3 DEF Locks
<1>4. CASE Refreshes(c) /\ RefreshMoves(c)
  <2>1. entries[req[c].entry].holder = c
    BY <1>1, <1>4 DEF RefreshMoves, LockInv, LockedAlive, Holding, Entry
  <2> QED
    BY SMTT(30), <1>1, <1>4, <2>1 DEF Refreshes
<1>5. CASE Responds(c)
  BY <1>1, <1>5 DEF Responds
<1>6. CASE Frees(c)
  <2>1. entries[req[c].entry].holder \in {c, NONE}
    BY <1>1, <1>6 DEF Frees, LockInv, LockedAlive, OwnAlive, Holding, Owning, Entry
  <2>2. req[c].entry # req[d].entry
    BY <1>1, <2>1, ConnsAssumption DEF NONE
  <2> QED
    BY <1>1, <1>6, <2>2 DEF Frees
<1>7. CASE Reads(c)
  BY <1>1, <1>7 DEF Reads
<1>8. CASE LocksDuplicate(c)
  <2>1. req[c].dup # req[d].entry
    BY <1>1, <1>8, ConnsAssumption DEF LocksDuplicate, NONE
  <2> QED
    BY <1>1, <1>8, <2>1 DEF LocksDuplicate
<1> QED
  BY <1>2, <1>3, <1>4, <1>5, <1>6, <1>7, <1>8 DEF Effect

(* A step of one connection keeps what the others know.                    *)
LEMMA OthersFresh ==
    ASSUME SafeInv, SafeInv', RefInv', FreshInv, [Next]_vars, UNCHANGED <<file, edits>>,
           NEW c \in Conns, Effect(c), NEW d \in Conns, d # c
    PROVE  StatOk(d)' /\ CleanOk(d)'
<1>1. StatOk(d) /\ CleanOk(d)
  BY SMTT(30) DEF FreshInv
<1>2. req'[d] = req[d] /\ pc'[d] = pc[d] /\ clean'[d] = clean[d]
  BY DEF Effect, Alone, Gets, Locks, Stats, Fails, RefreshMoves, RespondMoves, Removes, Frees,
        CreateStats,
         Reads, SetsFirst, SetsDuplicate, LocksDuplicate, Finalizes
<1>3. StatOk(d)'
  BY <1>1, <1>2 DEF StatOk
<1>4. CleanOk(d)'
  <2> SUFFICES ASSUME clean[d]
               PROVE  /\ pc[d] = "respond" => entries'[req[d].entry].mtime = file[req[d].uri].mtime
                      /\ pc[d] \in {"remove", "destroy"} => file[req[d].uri].ver = 0
                      /\ pc[d] \in Answering /\ OwnTime(req[d].uri) => AnswerOk(d)'
    BY <1>2 DEF CleanOk, Entry, OwnTime
  <2>1. pc[d] = "respond" => entries'[req[d].entry].mtime = file[req[d].uri].mtime
    BY <1>1, Untouched DEF CleanOk, Entry, Holding
  <2>2. pc[d] \in Answering /\ OwnTime(req[d].uri) => AnswerOk(d)'
    BY <1>1, <1>2, AnswerStays DEF CleanOk
  <2> QED
    BY <1>1, <2>1, <2>2 DEF CleanOk
<1> QED
  BY <1>3, <1>4

(* The entries after a step of one connection: only try_refresh and        *)
(* entry_create give one new bytes.                                        *)
LEMMA EntriesFresh ==
    ASSUME SafeInv, SafeInv', RefInv', FreshInv, [Next]_vars, UNCHANGED <<file, edits>>,
           NEW c \in Conns, Effect(c), NEW e \in 1 .. Len(entries'), entries'[e].live
    PROVE  EntryOk(e)'
<1>1. /\ Basic /\ InRange /\ LockInv /\ StatOk(c) /\ file \in [Uris -> FileRec] /\ req[c] \in ReqRec
      /\ \A f \in 1 .. Len(entries) : entries[f].live => EntryOk(f)
  BY SMTT(30), Ranges DEF SafeInv, TypeInv, FreshInv
<1>2. CASE \/ \E u \in Uris : Gets(c, u)
           \/ Locks(c) \/ Stats(c) \/ Fails(c) \/ CreateStats(c) \/ Removes(c) \/ SetsFirst(c) \/ SetsDuplicate(c)
           \/ Finalizes(c) \/ Responds(c)
  <2>1. /\ e \in 1 .. Len(entries) /\ entries'[e].live = entries[e].live
        /\ entries'[e].uri = entries[e].uri /\ entries'[e].mtime = entries[e].mtime
        /\ entries'[e].size = entries[e].size /\ entries'[e].content = entries[e].content
    BY <1>2 DEF Gets, Locks, Stats, Fails, CreateStats, Removes, SetsFirst, SetsDuplicate,
          Finalizes, Responds
  <2> QED
    BY <2>1, EntryStays
<1>3. CASE Frees(c) \/ LocksDuplicate(c)
  <2>1. e \in 1 .. Len(entries) /\ entries'[e] = entries[e]
    BY <1>3 DEF Frees, LocksDuplicate
  <2> QED
    BY <2>1, EntryStays
<1>4. CASE Refreshes(c) /\ RefreshMoves(c)
  <2>1. CASE e # req[c].entry
    <3>1. e \in 1 .. Len(entries) /\ entries'[e] = entries[e]
      BY <1>4, <2>1 DEF Refreshes
    <3> QED
      BY <3>1, EntryStays
  <2>2. CASE e = req[c].entry
    <3> DEFINE n   == Len(contents) + 1
               sb  == req[c].sb
               now == file[req[c].uri]
    <3>1. /\ entries'[e].uri = entries[e].uri /\ entries'[e].mtime = sb.mtime /\ entries'[e].size = sb.size
          /\ entries'[e].content = n /\ contents'[n].ver = now.ver
          /\ contents'[n].len = IF now.size <= sb.size THEN now.size ELSE sb.size
      BY <1>4, <2>2 DEF Refreshes
    <3>2. entries[e].uri = req[c].uri /\ req[c].uri \in Uris
      BY <1>1, <1>4, <2>2 DEF RefreshMoves, LockInv, LockedAlive, Holding, Entry, InRange
    <3>3. sb.mtime \in 1 .. edits /\ (sb.mtime = now.ver => sb = now)
      BY <1>1, <1>4 DEF StatOk, RefreshMoves
    <3>4. now.size \in Nat
      <4>1. now \in FileRec
        BY <1>1, <3>2
      <4> QED
        BY <4>1 DEF FileRec
    <3>5. sb.mtime = now.ver => contents'[n].ver = now.ver /\ contents'[n].len = now.size /\ sb.size = now.size
      BY <3>1, <3>3, <3>4
    <3> HIDE DEF n
    <3> QED
      BY SMTT(30), <3>1, <3>2, <3>3, <3>5 DEF EntryOk
  <2> QED
    BY SMTT(30), <2>1, <2>2
<1>5. CASE Reads(c)
  <2>1. CASE e \in 1 .. Len(entries)
    <3>1. entries'[e] = entries[e]
      BY <1>5, <2>1 DEF Reads
    <3> QED
      BY <2>1, <3>1, EntryStays
  <2>2. CASE e \notin 1 .. Len(entries)
    <3> DEFINE n   == Len(contents) + 1
               sb  == req[c].sb
               now == file[req[c].uri]
    <3>1. e = Len(entries) + 1
      BY <1>1, <1>5, <2>2 DEF Reads, Basic
    <3>2. /\ entries'[e].uri = req[c].uri /\ entries'[e].mtime = sb.mtime /\ entries'[e].size = sb.size
          /\ entries'[e].content = n /\ contents'[n].ver = now.ver /\ contents'[n].len = sb.size
      BY <1>5, <3>1 DEF Reads
    <3>3. sb.mtime \in 1 .. edits /\ (sb.mtime = now.ver => sb = now)
      BY <1>1, <1>5 DEF StatOk, Reads
    <3>4. req[c].uri \in Uris
      BY <1>1 DEF InRange
    <3> HIDE DEF n
    <3> QED
      BY <3>2, <3>3, <3>4 DEF EntryOk
  <2> QED
    BY <2>1, <2>2
<1> QED
  BY <1>2, <1>3, <1>4, <1>5 DEF Effect

(* The request of the connection that takes the step.                      *)
LEMMA OwnFresh ==
    ASSUME SafeInv, SafeInv', RefInv, RefInv', FreshInv, [Next]_vars, UNCHANGED <<file, edits>>,
           NEW c \in Conns, Effect(c)
    PROVE  StatOk(c)' /\ CleanOk(c)'
<1>1. /\ Basic /\ InRange /\ LockInv /\ StatOk(c) /\ CleanOk(c) /\ NoAnswerYet
      /\ file \in [Uris -> FileRec] /\ req[c] \in ReqRec /\ req[c].uri \in Uris
      /\ \A f \in 1 .. Len(entries) : entries[f].live => EntryOk(f)
      /\ \A u \in Uris : VerOk(u)
  BY Ranges DEF SafeInv, TypeInv, FreshInv, RefInv, InRange
<1>2. file[req[c].uri].ver \in Nat /\ file[req[c].uri].size \in Nat
  <2>1. file[req[c].uri] \in FileRec
    BY <1>1
  <2> QED
    BY <2>1 DEF FileRec
<1>3. CASE \E u \in Uris : Gets(c, u)
  <2>1. pc'[c] \in {"create", "lock"}
    BY <1>3 DEF Gets
  <2> QED
    BY <2>1 DEF StatOk, CleanOk, Answering, Owning
<1>4. CASE Locks(c) \/ Finalizes(c)
  <2>1. pc'[c] \in {"stat", "idle"}
    BY <1>4 DEF Locks, Finalizes
  <2> QED
    BY <2>1 DEF StatOk, CleanOk, Answering, Owning
<1>5. CASE Stats(c)
  <2>1. /\ pc'[c] = IF file[req[c].uri].ver = 0 THEN "remove"
                   ELSE IF file[req[c].uri].mtime = Entry(c).mtime THEN "respond" ELSE "refresh"
        /\ req'[c].sb = file[req[c].uri] /\ req'[c].uri = req[c].uri /\ req'[c].entry = req[c].entry
        /\ entries' = entries
    BY <1>5 DEF Stats
  <2>2. file[req[c].uri].ver # 0 => file[req[c].uri].mtime \in 1 .. edits
    BY <1>1 DEF VerOk
  <2>3. StatOk(c)'
    BY <2>1, <2>2 DEF StatOk
  <2>4. CleanOk(c)'
    BY <2>1 DEF CleanOk, Entry, Answering, Owning
  <2> QED
    BY <2>3, <2>4
<1>6. CASE CreateStats(c)
  <2>1. /\ pc[c] = "create" /\ pc'[c] = IF file[req[c].uri].ver = 0 THEN "sent" ELSE "read"
        /\ req'[c].sb = file[req[c].uri] /\ req'[c].uri = req[c].uri /\ req'[c].res = req[c].res
    BY <1>6 DEF CreateStats
  <2>2. file[req[c].uri].ver # 0 => file[req[c].uri].mtime \in 1 .. edits
    BY <1>1 DEF VerOk
  <2>3. req[c].res = NotFound
    BY <1>1, <2>1 DEF NoAnswerYet, Answering, Owning
  <2>4. StatOk(c)'
    BY <2>1, <2>2 DEF StatOk
  <2>5. CleanOk(c)'
    BY <2>1, <2>3 DEF CleanOk, AnswerOk, Answering, Owning
  <2> QED
    BY <2>4, <2>5
<1>7. CASE Fails(c)
  <2>1. CASE pc[c] = "refresh"
    <3>1. pc'[c] = "remove" /\ file[req[c].uri].ver = 0 /\ req' = req
      BY <1>7, <2>1 DEF Fails
    <3> QED
      BY <3>1 DEF StatOk, CleanOk, Answering, Owning
  <2>2. CASE pc[c] = "read"
    <3>1. pc'[c] = "sent" /\ Unreadable(c) /\ req' = req /\ clean' = clean
      BY <1>7, <2>2 DEF Fails
    <3>2. ~clean[c]
      BY <1>1, <1>2, <2>2, <3>1 DEF StatOk, Unreadable
    <3> QED
      BY <3>1, <3>2 DEF StatOk, CleanOk
  <2> QED
    BY <1>7, <2>1, <2>2 DEF Fails
<1>8. CASE Refreshes(c) /\ RefreshMoves(c)
  <2>1. /\ pc[c] = "refresh" /\ req' = req /\ clean' = clean
        /\ pc'[c] = IF file[req[c].uri].size < req[c].sb.size THEN "remove" ELSE "respond"
        /\ entries'[req[c].entry].mtime = req[c].sb.mtime
    BY <1>8 DEF Refreshes, RefreshMoves
  <2>2. clean[c] => req[c].sb = file[req[c].uri]
    BY <1>1, <2>1 DEF StatOk
  <2>3. clean[c] => pc'[c] = "respond" /\ entries'[req[c].entry].mtime = file[req[c].uri].mtime
    BY <1>2, <2>1, <2>2
  <2>4. pc'[c] \in {"remove", "respond"}
    BY <2>1
  <2> QED
    BY SMTT(30), <2>1, <2>3, <2>4 DEF StatOk, CleanOk, Entry, Answering, Owning
<1>9. CASE Responds(c) /\ RespondMoves(c)
  <2> DEFINE e == req[c].entry
             i == entries[e].content
             now == file[req[c].uri]
  <2>1. /\ pc[c] = "respond" /\ pc'[c] = "sent" /\ clean' = clean /\ req'[c].uri = req[c].uri
        /\ req'[c].res.status = 200 /\ req'[c].res.len = entries[e].size
        /\ req'[c].res.content = IF entries[e].size = 0 THEN 0 ELSE i
        /\ contents'[i].ver = contents[i].ver /\ contents'[i].len = contents[i].len
        /\ e \in 1 .. Len(entries)
    BY SMTT(60), <1>9 DEF Responds, RespondMoves
  <2>2. entries[e].live /\ entries[e].uri = req[c].uri
    BY <1>1, <2>1 DEF LockInv, LockedAlive, Holding, Entry
  <2>3. EntryOk(e)
    BY <1>1, <2>1, <2>2
  <2>4. ASSUME clean[c], OwnTime(req[c].uri) PROVE AnswerOk(c)'
    <3>1. entries[e].mtime = now.ver
      BY <1>1, <2>1, <2>4 DEF CleanOk, Entry, OwnTime
    <3>2. /\ contents[i].ver = now.ver /\ contents[i].len = now.size /\ entries[e].size = now.size
          /\ now.ver \in 1 .. edits
      BY <2>2, <2>3, <3>1 DEF EntryOk
    <3>3. now.ver # 0
      BY <1>2, <3>2
    <3> HIDE DEF i
    <3> QED
      BY <2>1, <3>2, <3>3 DEF AnswerOk
  <2> QED
    BY SMTT(30), <2>1, <2>4 DEF StatOk, CleanOk, OwnTime
<1>10. CASE Removes(c)
  <2>1. pc[c] = "remove" /\ pc'[c] = "destroy" /\ req' = req /\ clean' = clean
    BY <1>10 DEF Removes
  <2> QED
    BY <1>1, <2>1 DEF StatOk, CleanOk, Answering, Owning
<1>11. CASE Frees(c)
  <2>1. pc[c] \in {"destroy", "full"} /\ pc'[c] = "sent" /\ req' = req /\ clean' = clean
    BY <1>11 DEF Frees
  <2>2. ASSUME clean[c], OwnTime(req[c].uri) PROVE AnswerOk(c)'
    <3>1. CASE pc[c] = "destroy"
      <4>1. req[c].res = NotFound /\ file[req[c].uri].ver = 0
        BY <1>1, <2>2, <3>1 DEF NoAnswerYet, CleanOk, Answering, Owning
      <4> QED
        BY <2>1, <4>1 DEF AnswerOk
    <3>2. CASE pc[c] = "full"
      <4>1. AnswerOk(c)
        BY <1>1, <2>2, <3>2 DEF CleanOk, Answering, Owning
      <4> QED
        BY <2>1, <4>1, AnswerStays
    <3> QED
      BY <2>1, <3>1, <3>2
  <2> QED
    BY <2>1, <2>2 DEF StatOk, CleanOk, OwnTime
<1>12. CASE Reads(c)
  <2> DEFINE n   == Len(contents) + 1
             now == file[req[c].uri]
             sb  == req[c].sb
  <2>1. /\ pc[c] = "read" /\ pc'[c] = "set" /\ clean' = clean /\ req'[c].uri = req[c].uri
        /\ req'[c].res.status = 200 /\ req'[c].res.len = sb.size
        /\ req'[c].res.content = IF sb.size = 0 THEN 0 ELSE n
        /\ contents'[n].ver = now.ver /\ contents'[n].len = sb.size /\ ~Unreadable(c)
    BY <1>12 DEF Reads
  <2>2. ASSUME clean[c], OwnTime(req[c].uri) PROVE AnswerOk(c)'
    <3>1. sb = now /\ now.ver # 0
      BY <1>1, <2>1, <2>2 DEF StatOk, Unreadable
    <3> HIDE DEF n
    <3> QED
      BY <2>1, <3>1 DEF AnswerOk
  <2> QED
    BY <2>1, <2>2 DEF StatOk, CleanOk, OwnTime
<1>13. CASE SetsFirst(c) \/ SetsDuplicate(c) \/ LocksDuplicate(c)
  <2>1. /\ pc[c] \in {"set", "dup"} /\ pc'[c] \in {"sent", "full", "dup"} /\ clean' = clean
        /\ req'[c].res = req[c].res /\ req'[c].uri = req[c].uri
    BY <1>13 DEF SetsFirst, SetsDuplicate, LocksDuplicate
  <2>2. ASSUME clean[c], OwnTime(req[c].uri) PROVE AnswerOk(c)'
    <3>1. AnswerOk(c)
      BY <1>1, <2>1, <2>2 DEF CleanOk, Answering, Owning
    <3> QED
      BY <2>1, <3>1, AnswerStays
  <2> QED
    BY <2>1, <2>2 DEF StatOk, CleanOk, OwnTime
<1> QED
  BY <1>3, <1>4, <1>5, <1>6, <1>7, <1>8, <1>9, <1>10, <1>11, <1>12, <1>13 DEF Effect

(* Destroy: the effect keeps what is known of the files.                   *)
LEMMA DestroyFresh ==
    ASSUME SafeInv, SafeInv', RefInv', FreshInv, [Next]_vars, UNCHANGED <<file, edits>>, Destroys
    PROVE  FreshInv'
<1>1. /\ UNCHANGED <<pc, req, clean>> /\ \A c \in Conns : pc[c] \in {"idle", "sent"}
      /\ Len(entries') = Len(entries)
  BY DEF Destroys
<1>2. \A u \in Uris : VerOk(u)'
  BY DEF FreshInv, VerOk
<1>3. ASSUME NEW e \in 1 .. Len(entries'), entries'[e].live PROVE EntryOk(e)'
  <2>1. e \in 1 .. Len(entries) /\ entries'[e] = entries[e]
    BY <1>1, <1>3 DEF Destroys, FreedEntry
  <2> QED
    BY <1>3, <2>1, EntryStays
<1>4. ASSUME NEW c \in Conns PROVE StatOk(c)' /\ CleanOk(c)'
  <2>1. CleanOk(c)
    BY DEF FreshInv
  <2>2. clean[c] /\ pc[c] \in Answering /\ OwnTime(req[c].uri) => AnswerOk(c)'
    BY <1>1, <2>1, AnswerStays DEF CleanOk
  <2> QED
    BY <1>1, <2>2 DEF StatOk, CleanOk, OwnTime
<1> QED
  BY <1>2, <1>3, <1>4 DEF FreshInv

(* A change of a file gives it a version that nobody has seen.             *)
LEMMA EditFresh ==
    ASSUME SafeInv, FreshInv, NEW u \in Uris, Edits(u)
    PROVE  FreshInv'
<1>1. /\ UNCHANGED <<entries, contents, pc, req>> /\ edits' = edits + 1 /\ edits \in Nat
      /\ file'[u].ver \in {0, edits + 1} /\ (file'[u].ver # 0 => file'[u].mtime \in 1 .. edits')
      /\ \A w \in Uris : w # u => file'[w] = file[w]
      /\ \A c \in Conns : clean'[c] => clean[c] /\ (req[c].uri # u \/ pc[c] = "idle")
      /\ \A c \in Conns : req[c].uri \in Uris
  BY Ranges DEF Edits, SafeInv, TypeInv, Basic
<1>2. \A w \in Uris : file[w].ver \in Nat /\ VerOk(w)
  <2>1. \A w \in Uris : file[w] \in FileRec
    BY DEF SafeInv, TypeInv
  <2>2. \A w \in Uris : file[w].ver \in Nat
    BY <2>1 DEF FileRec
  <2> QED
    BY <2>2 DEF FreshInv
<1>3. ASSUME NEW w \in Uris PROVE VerOk(w)'
  BY <1>1, <1>2 DEF VerOk
<1>4. ASSUME NEW e \in 1 .. Len(entries), entries[e].live PROVE EntryOk(e)'
  <2>1. EntryOk(e)
    BY <1>4 DEF FreshInv
  <2>2. entries[e].uri \in Uris /\ entries[e].mtime \in 1 .. edits
    BY <2>1 DEF EntryOk
  <2>3. entries[e].mtime \in 1 .. edits'
    BY <1>1, <2>2
  <2>4. CASE entries[e].uri = u
    <3>1. entries[e].mtime # file'[u].ver
      BY <1>1, <2>2
    <3> QED
      BY <1>1, <2>2, <2>3, <2>4, <3>1 DEF EntryOk
  <2>5. CASE entries[e].uri # u
    <3>1. file'[entries[e].uri] = file[entries[e].uri]
      BY <1>1, <2>2, <2>5
    <3> QED
      BY <1>1, <2>1, <2>2, <2>3, <3>1 DEF EntryOk
  <2> QED
    BY <2>4, <2>5
<1>5. ASSUME NEW c \in Conns PROVE StatOk(c)' /\ CleanOk(c)'
  <2>1. StatOk(c) /\ CleanOk(c)
    BY DEF FreshInv
  <2>2. CASE req[c].uri = u
    <3>1. clean'[c] => pc[c] = "idle"
      BY <1>1, <2>2
    <3>2. StatOk(c)'
      <4> SUFFICES ASSUME pc[c] \in {"refresh", "read"}
                   PROVE  /\ req[c].sb.ver # 0 /\ req[c].sb.mtime \in 1 .. edits'
                          /\ req[c].sb.mtime # file'[u].ver /\ ~clean'[c]
        BY <1>1, <2>2 DEF StatOk
      <4>1. req[c].sb.ver # 0 /\ req[c].sb.mtime \in 1 .. edits
        BY <2>1 DEF StatOk
      <4> QED
        BY <1>1, <3>1, <4>1
    <3>3. CleanOk(c)'
      BY <1>1, <3>1 DEF CleanOk, Answering, Owning
    <3> QED
      BY <3>2, <3>3
  <2>3. CASE req[c].uri # u
    <3>1. file'[req[c].uri] = file[req[c].uri] /\ (clean'[c] => clean[c])
      BY <1>1, <2>3
    <3>2. StatOk(c)'
      <4>1. pc[c] \in {"refresh", "read"} => req[c].sb.mtime \in 1 .. edits'
        BY <1>1, <2>1 DEF StatOk
      <4> QED
        BY <1>1, <2>1, <3>1, <4>1 DEF StatOk
    <3>3. CleanOk(c)'
      BY <1>1, <2>1, <3>1 DEF CleanOk, AnswerOk, Entry, OwnTime
    <3> QED
      BY <3>2, <3>3
  <2> QED
    BY <2>2, <2>3
<1>6. \A e \in 1 .. Len(entries') : entries'[e].live => EntryOk(e)'
  BY <1>1, <1>4
<1> QED
  BY <1>3, <1>5, <1>6 DEF FreshInv

(* Nothing is known of any file at the start.                              *)
LEMMA FreshInit == Init => FreshInv
<1> SUFFICES ASSUME Init PROVE FreshInv
  OBVIOUS
<1>1. edits = 1 /\ entries = <<>> /\ \A c \in Conns : pc[c] = "idle"
  BY DEF Init
<1>2. ASSUME NEW u \in Uris PROVE file[u].ver <= 1 /\ (file[u].ver # 0 => file[u].mtime = 1)
  <2>1. file[u] \in {NoFile} \cup [ver : {1}, mtime : {1}, size : FileSizes]
    BY DEF Init
  <2>2. CASE file[u] = NoFile
    BY <2>2 DEF NoFile
  <2>3. CASE file[u] \in [ver : {1}, mtime : {1}, size : FileSizes]
    BY <2>3
  <2> QED
    BY <2>1, <2>2, <2>3
<1> QED
  BY <1>1, <1>2 DEF FreshInv, VerOk, StatOk, CleanOk, Answering, Owning

(* Every step keeps what is known of the files.                            *)
LEMMA FreshStep == SafeInv /\ RefInv /\ FreshInv /\ [Next]_vars => FreshInv'
<1> SUFFICES ASSUME SafeInv, RefInv, FreshInv, [Next]_vars PROVE FreshInv'
  OBVIOUS
<1>1. SafeInv' /\ RefInv'
  BY SafeStep, RefStep
<1>2. ASSUME NEW c \in Conns, Effect(c), UNCHANGED <<file, edits>> PROVE FreshInv'
  <2>1. \A u \in Uris : VerOk(u)'
    BY <1>2 DEF FreshInv, VerOk
  <2>2. \A e \in 1 .. Len(entries') : entries'[e].live => EntryOk(e)'
    BY <1>1, <1>2, EntriesFresh
  <2>3. \A d \in Conns : StatOk(d)' /\ CleanOk(d)'
    BY <1>1, <1>2, OwnFresh, OthersFresh
  <2> QED
    BY <2>1, <2>2, <2>3 DEF FreshInv
<1>3. CASE Destroys /\ UNCHANGED <<file, edits>>
  BY <1>1, <1>3, DestroyFresh
<1>4. CASE \E u \in Uris : Edits(u)
  BY <1>4, EditFresh
<1>5. CASE Idles
  BY <1>5 DEF Idles, FreshInv, VerOk, EntryOk, StatOk, CleanOk, AnswerOk, Entry, OwnTime
<1> QED
  BY <1>2, <1>3, <1>4, <1>5, StepEffect

(* A request whose file nobody touched while it was served gets exactly    *)
(* what is on disk, whatever the other connections cache, refresh, replace *)
(* and remove meanwhile, when the last change gave the file a time that no *)
(* earlier version had; only then does st_mtime tell the versions apart    *)
(* (Undisturbed; uo_http_file_server_serve).                               *)
THEOREM UndisturbedRequestsAreFresh == Spec => []Undisturbed
<1>1. Init => SafeInv /\ RefInv /\ FreshInv
  BY SafeInit, RefInit, FreshInit
<1>2. SafeInv /\ RefInv /\ FreshInv /\ [Next]_vars => SafeInv' /\ RefInv' /\ FreshInv'
  BY SafeStep, RefStep, FreshStep
<1>3. FreshInv => Undisturbed
  <2> SUFFICES ASSUME FreshInv, NEW c \in Conns, pc[c] = "sent", clean[c], OwnTime(req[c].uri)
               PROVE  AnswerOk(c)
    BY DEF Undisturbed, AnswerOk
  <2> QED
    BY DEF FreshInv, CleanOk, Answering
<1> QED
  BY <1>1, <1>2, <1>3, PTL DEF Spec

-----------------------------------------------------------------------------
(* The entries whose bytes the cache has to account for: those of the      *)
(* table and the one that is being replaced.  No entry is there twice.     *)
Sizes   == [e \in 1 .. Len(entries) |-> entries[e].size]
InCache == {e \in 1 .. Len(entries) : (\E u \in Uris : cache[u] = e) \/ Replaced(e)}
SpaceInv == mtx # FREED => cache_space + SumOver(Sizes, InCache) = CacheSize + grown

(* The accounted entries are finitely many, and their sizes are naturals.  *)
Accountable ==
  /\ IsFiniteSet(InCache) /\ Len(entries) \in Nat
  /\ \A e \in InCache : e \in 1 .. Len(entries)
  /\ \A e \in 1 .. Len(entries) : Sizes[e] = entries[e].size /\ Sizes[e] \in Nat
  /\ \A u \in Uris : cache[u] # 0 => cache[u] \in InCache
  /\ \A c \in Conns : pc[c] = "dup" => req[c].dup \in InCache
  /\ cache_space \in Nat /\ grown \in Int

(* What is accounted for is finite, and so are the sizes.                  *)
LEMMA InCacheFacts == SafeInv => Accountable
<1> SUFFICES ASSUME SafeInv PROVE Accountable
  OBVIOUS
<1>1. entries \in Seq(EntryRec) /\ Basic /\ InRange /\ cache_space \in Nat /\ grown \in Int
  BY Ranges DEF SafeInv, TypeInv
<1>2. IsFiniteSet(1 .. Len(entries)) /\ Len(entries) \in Nat
  <2>1. PICK n \in Nat : n = Len(entries)
    BY <1>1 DEF Basic
  <2> QED
    BY <2>1, FS_Interval
<1>3. IsFiniteSet(InCache)
  BY <1>2, FS_Subset DEF InCache
<1>4. \A e \in 1 .. Len(entries) : Sizes[e] = entries[e].size /\ Sizes[e] \in Nat
  BY <1>1, EntryFields DEF Sizes
<1> QED
  BY <1>1, <1>2, <1>3, <1>4 DEF Accountable, InCache, InRange, Replaced

(* The same after a step.                                                  *)
LEMMA InCacheFactsNext == SafeInv' => Accountable'
BY InCacheFacts, PTL

(* A step that neither changes the table nor starts or ends a replacement. *)
LEMMA InCacheSame ==
    ASSUME SafeInv, SafeInv', UNCHANGED cache,
           \A e \in 1 .. Len(entries) : e \in 1 .. Len(entries'),
           \A d \in Conns : pc'[d] = "dup" <=> pc[d] = "dup",
           \A d \in Conns : pc[d] = "dup" => req'[d].dup = req[d].dup
    PROVE  InCache' = InCache
<1>1. InRange
  BY Ranges
<1>2. \A e : Replaced(e)' <=> Replaced(e)
  BY DEF Replaced
<1>3. \A e \in InCache' : e \in 1 .. Len(entries)
  BY <1>1, <1>2 DEF InCache, InRange, Replaced
<1> QED
  BY <1>2, <1>3 DEF InCache

(* The sum over the same entries with the same sizes.                      *)
LEMMA SumStays ==
    ASSUME SafeInv, SafeInv', NEW E, IsFiniteSet(E),
           \A e \in E : e \in 1 .. Len(entries) /\ e \in 1 .. Len(entries'),
           \A e \in E : entries'[e].size = entries[e].size
    PROVE  SumOver(Sizes', E) = SumOver(Sizes, E)
<1>1. \A e \in E : Sizes'[e] = Sizes[e]
  BY InCacheFacts DEF Accountable, Sizes
<1> QED
  BY <1>1, SumSame

(* What is accounted for does not change in most steps.                    *)
LEMMA QuietSpace ==
    ASSUME SafeInv, SafeInv', SpaceInv, UNCHANGED <<mtx, cache, cache_space, grown>>,
           \A e \in 1 .. Len(entries) : e \in 1 .. Len(entries'),
           \A d \in Conns : pc'[d] = "dup" <=> pc[d] = "dup",
           \A d \in Conns : pc[d] = "dup" => req'[d].dup = req[d].dup,
           \A e \in InCache : entries'[e].size = entries[e].size
    PROVE  SpaceInv'
<1>1. InCache' = InCache
  BY InCacheSame
<1>2. SumOver(Sizes', InCache) = SumOver(Sizes, InCache)
  BY InCacheFacts, SumStays DEF Accountable
<1> QED
  BY <1>1, <1>2 DEF SpaceInv

(* Refresh: the entry grows or shrinks in the cache.                       *)
LEMMA RefreshSpace ==
    ASSUME SafeInv, SafeInv', SpaceInv, NEW c \in Conns, Refreshes(c), RefreshMoves(c), Refresh(c)
    PROVE  SpaceInv'
<1> DEFINE e == req[c].entry
<1>1. /\ e \in 1 .. Len(entries) /\ Len(entries') = Len(entries)
      /\ \A f \in 1 .. Len(entries) : f # e => entries'[f] = entries[f]
      /\ entries'[e].size = req[c].sb.size
  BY DEF Refreshes
<1>2. /\ pc[c] = "refresh" /\ UNCHANGED <<mtx, cache, cache_space>> /\ req' = req /\ Alone(c)
      /\ pc'[c] \in {"remove", "respond"}
      /\ grown' = grown + req[c].sb.size - entries[e].size
  BY DEF RefreshMoves, Refresh, Entry
<1>3. InCache' = InCache
  BY <1>1, <1>2, InCacheSame DEF Alone
<1>4. e \in InCache
  <2>1. cache[req[c].uri] = e \/ Replaced(e)
    BY <1>2 DEF SafeInv, PlaceInv, LockedPlaced, Holding
  <2>2. req[c].uri \in Uris
    BY Ranges DEF InRange
  <2> QED
    BY <1>1, <2>1, <2>2 DEF InCache
<1>5. /\ \A f \in InCache : f \in 1 .. Len(entries)
      /\ \A f \in 1 .. Len(entries) : Sizes[f] = entries[f].size /\ Sizes[f] \in Nat
      /\ \A f \in 1 .. Len(entries') : Sizes'[f] = entries'[f].size /\ Sizes'[f] \in Nat
      /\ cache_space \in Nat /\ grown \in Int /\ IsFiniteSet(InCache)
  BY InCacheFacts, InCacheFactsNext DEF Accountable
<1>6. \A f \in InCache : Sizes[f] \in Int /\ Sizes'[f] \in Int /\ (f # e => Sizes[f] = Sizes'[f])
  BY <1>1, <1>5
<1> HIDE DEF e
<1>7. /\ SumOver(Sizes', InCache) = SumOver(Sizes, InCache) - Sizes[e] + Sizes'[e]
      /\ SumOver(Sizes, InCache) \in Int
  <2>1. PICK f, h, E, x : f = Sizes /\ h = Sizes' /\ E = InCache /\ x = e
    OBVIOUS
  <2>2. \A y \in E : f[y] \in Int /\ h[y] \in Int /\ (y # x => f[y] = h[y])
    BY <1>4, <1>5, <1>6, <2>1
  <2>a. IsFiniteSet(E) /\ x \in E
    BY <1>4, <1>5, <2>1
  <2>3. SumOver(h, E) = SumOver(f, E) - f[x] + h[x]
    BY <2>2, <2>a, SumChange, SMTT(20)
  <2>4. SumOver(f, E) \in Int
    BY <2>2, <2>a, SumRemove
  <2> QED
    BY <2>1, <2>3, <2>4
<1>8. Sizes[e] = entries[e].size /\ Sizes'[e] = req[c].sb.size /\ Sizes[e] \in Int /\ Sizes'[e] \in Int
  BY <1>1, <1>5
<1>9. CacheSize \in Nat
  BY BoundsAssumption
<1>10. PICK x, y \in Int : x = SumOver(Sizes, InCache) /\ y = SumOver(Sizes', InCache)
  BY <1>7, <1>8
<1>11. mtx # FREED => cache_space' + y = CacheSize + grown'
  <2>1. y = x - entries[e].size + req[c].sb.size /\ entries[e].size \in Int /\ req[c].sb.size \in Int
    BY <1>7, <1>8, <1>10
  <2>2. mtx # FREED => cache_space + x = CacheSize + grown
    BY <1>10 DEF SpaceInv
  <2>3. mtx' = mtx /\ cache_space' = cache_space /\ cache_space \in Int /\ grown \in Int
    BY <1>2, <1>5
  <2>4. PICK z, w \in Int : z = entries[e].size /\ w = req[c].sb.size
    BY <2>1
  <2>5. y = x - z + w /\ grown' = grown + w - z
    BY <1>2, <2>1, <2>4
  <2> QED
    BY <1>9, <2>2, <2>3, <2>5
<1> QED
  BY <1>2, <1>3, <1>10, <1>11 DEF SpaceInv

(* Remove: the entry leaves the table and its bytes are given back.        *)
LEMMA RemoveSpace ==
    ASSUME SafeInv, SafeInv', SpaceInv, NEW c \in Conns, Removes(c), RemoveCacheEntry(c), ~crashed'
    PROVE  SpaceInv'
<1> DEFINE u == req[c].uri
           e == cache[u]
<1>1. /\ pc[c] = "remove" /\ mtx = NONE /\ UNCHANGED <<mtx, entries, grown>> /\ req' = req /\ Alone(c)
      /\ pc'[c] = "destroy" /\ e # 0 /\ cache'[u] = 0
      /\ \A w \in Uris : w # u => cache'[w] = cache[w]
      /\ cache_space' = cache_space + entries[e].size
  BY DEF Removes, RemoveCacheEntry, Crash
<1>2. u \in Uris
  BY Ranges DEF InRange
<1>3. /\ \A f \in InCache : f \in 1 .. Len(entries)
      /\ \A f \in 1 .. Len(entries) : Sizes[f] = entries[f].size /\ Sizes[f] \in Nat
      /\ cache_space \in Nat /\ grown \in Int /\ IsFiniteSet(InCache) /\ e \in InCache
  BY <1>1, <1>2, InCacheFacts DEF Accountable
<1>4. \A d \in Conns : pc[d] # "dup" /\ pc'[d] # "dup"
  BY <1>1, ConnsAssumption DEF Alone, SafeInv, LockInv, MutexHeld, NONE
<1>5. InCache' = InCache \ {e}
  <2>1. \A f : ~Replaced(f) /\ ~Replaced(f)'
    BY <1>4 DEF Replaced
  <2>2. \A w \in Uris : w # u /\ cache[w] # 0 => cache[w] # e
    BY <1>1, <1>2 DEF SafeInv, PlaceInv, CacheAlive
  <2>3. ASSUME NEW f \in InCache' PROVE f \in InCache \ {e}
    <3>1. f \in 1 .. Len(entries) /\ \E w \in Uris : cache'[w] = f
      BY <1>1, <2>1, <2>3 DEF InCache
    <3>2. PICK w \in Uris : cache'[w] = f
      BY <3>1
    <3>3. w # u /\ cache[w] = f /\ f # 0
      BY <1>1, <3>1, <3>2
    <3> QED
      BY <2>2, <3>1, <3>3 DEF InCache
  <2>4. ASSUME NEW f \in InCache \ {e} PROVE f \in InCache'
    <3>1. PICK w \in Uris : cache[w] = f
      BY <2>1, <2>4 DEF InCache
    <3>2. cache'[w] = f
      BY <1>1, <2>4, <3>1
    <3> QED
      BY <1>1, <1>3, <2>4, <3>2 DEF InCache
  <2> QED
    BY <2>3, <2>4
<1> HIDE DEF e, u
<1>6. /\ SumOver(Sizes, InCache \ {e}) = SumOver(Sizes, InCache) - Sizes[e]
      /\ SumOver(Sizes, InCache) \in Int
  BY <1>3, SumRemove
<1>7. Sizes' = Sizes
  BY <1>1 DEF Sizes
<1>8. CacheSize \in Nat /\ mtx # FREED
  BY <1>1, BoundsAssumption DEF NONE, FREED
<1>9. Sizes[e] = entries[e].size /\ Sizes[e] \in Int
  BY <1>3
<1> QED
  BY <1>1, <1>3, <1>5, <1>6, <1>7, <1>8, <1>9 DEF SpaceInv

(* Free: the entry was not accounted for any more.                         *)
LEMMA FreeSpace ==
    ASSUME SafeInv, SafeInv', SpaceInv, NEW c \in Conns, Frees(c), UNCHANGED <<cache_space, grown>>
    PROVE  SpaceInv'
<1> DEFINE e == req[c].entry
<1>1. /\ pc[c] \in {"destroy", "full"} /\ pc'[c] = "sent" /\ req' = req /\ Alone(c)
      /\ UNCHANGED <<mtx, cache>> /\ e \in 1 .. Len(entries) /\ Len(entries') = Len(entries)
      /\ entries[e].live
      /\ \A f \in 1 .. Len(entries) : f # e => entries'[f] = entries[f]
  BY DEF Frees
<1>2. entries[e].uri = req[c].uri
  BY <1>1 DEF SafeInv, LockInv, LockedAlive, OwnAlive, Holding, Owning, Entry
<1>3. e \notin InCache
  <2>1. cache[req[c].uri] # e /\ ~Replaced(e)
    BY <1>1 DEF SafeInv, PlaceInv, Unpublished, Owning
  <2>2. \A w \in Uris : cache[w] = e => w = req[c].uri
    BY <1>1, <1>2 DEF SafeInv, PlaceInv, CacheAlive
  <2> QED
    BY <2>1, <2>2 DEF InCache
<1>4. \A f \in InCache : entries'[f].size = entries[f].size
  BY <1>1, <1>3, InCacheFacts DEF Accountable
<1> QED
  BY <1>1, <1>4, QuietSpace DEF Alone

(* The entry that is made new is not accounted for yet.                    *)
LEMMA OwnedOutside ==
    ASSUME SafeInv, NEW c \in Conns, pc[c] \in Owning
    PROVE  /\ req[c].entry \notin InCache /\ req[c].entry \in 1 .. Len(entries)
           /\ req[c].uri \in Uris
<1> DEFINE e == req[c].entry
<1>1. InRange /\ e \in 1 .. Len(entries) /\ req[c].uri \in Uris
  BY Ranges DEF InRange, Using
<1>2. entries[e].uri = req[c].uri
  BY DEF SafeInv, LockInv, OwnAlive, Entry
<1>3. cache[req[c].uri] # e /\ ~Replaced(e)
  BY DEF SafeInv, PlaceInv, Unpublished
<1>4. \A w \in Uris : cache[w] = e => w = req[c].uri
  BY <1>1, <1>2 DEF SafeInv, PlaceInv, CacheAlive
<1> QED
  BY <1>1, <1>3, <1>4 DEF InCache

(* SetFirst: the new entry is published when there is room for it.         *)
LEMMA SetFirstSpace ==
    ASSUME SafeInv, SafeInv', SpaceInv, NEW c \in Conns, SetsFirst(c), SetFirst(c)
    PROVE  SpaceInv'
<1> DEFINE u == req[c].uri
           e == req[c].entry
           z == entries[e].size
<1>1. /\ pc[c] = "set" /\ mtx = NONE /\ UNCHANGED <<mtx, entries, grown>> /\ req' = req /\ Alone(c)
      /\ pc'[c] \in {"sent", "full"} /\ cache[u] = 0
      /\ \A w \in Uris : w # u => cache'[w] = cache[w]
  BY DEF SetsFirst, SetFirst
<1>2. /\ cache_space' = IF cache_space < z THEN cache_space ELSE cache_space - z
      /\ cache' = [cache EXCEPT ![u] = IF cache_space < z THEN 0 ELSE e]
  BY DEF SetFirst, Settle, Entry
<1>3. e \notin InCache /\ e \in 1 .. Len(entries) /\ u \in Uris
  BY <1>1, OwnedOutside DEF Owning
<1>4. /\ \A f \in InCache : f \in 1 .. Len(entries)
      /\ \A f \in 1 .. Len(entries) : Sizes[f] = entries[f].size /\ Sizes[f] \in Nat
      /\ cache_space \in Nat /\ grown \in Int /\ IsFiniteSet(InCache)
  BY InCacheFacts DEF Accountable
<1>5. \A d \in Conns : pc[d] # "dup" /\ pc'[d] # "dup"
  BY <1>1, ConnsAssumption DEF Alone, SafeInv, LockInv, MutexHeld, NONE
<1>6. cache \in [Uris -> Nat] /\ Sizes' = Sizes /\ CacheSize \in Nat /\ mtx # FREED
  BY <1>1, BoundsAssumption DEF SafeInv, TypeInv, Sizes, NONE, FREED
<1>7. \A f : ~Replaced(f) /\ ~Replaced(f)'
  BY <1>5 DEF Replaced
<1>8. CASE cache_space < z
  <2>1. cache' = cache /\ cache_space' = cache_space
    BY <1>1, <1>2, <1>3, <1>6, <1>8
  <2>2. InCache' = InCache
    BY <1>1, <1>7, <2>1 DEF InCache
  <2> QED
    BY <1>1, <1>6, <2>1, <2>2 DEF SpaceInv
<1>9. CASE ~(cache_space < z)
  <2>1. cache'[u] = e /\ cache_space' = cache_space - z
    BY <1>2, <1>3, <1>6, <1>9
  <2>2. InCache' = InCache \cup {e}
    <3>1. ASSUME NEW f \in InCache' PROVE f \in InCache \cup {e}
      <4>1. f \in 1 .. Len(entries)
        BY <1>1, <3>1 DEF InCache
      <4>2. PICK w \in Uris : cache'[w] = f
        BY <1>7, <3>1 DEF InCache
      <4>3. CASE w = u
        BY <2>1, <4>2, <4>3
      <4>4. CASE w # u
        BY <1>1, <4>1, <4>2, <4>4 DEF InCache
      <4> QED
        BY <4>3, <4>4
    <3>2. ASSUME NEW f \in InCache PROVE f \in InCache'
      <4>1. f \in 1 .. Len(entries) /\ f # 0
        BY <1>4
      <4>2. PICK w \in Uris : cache[w] = f
        BY <1>7 DEF InCache
      <4>3. cache'[w] = f
        BY <1>1, <4>1, <4>2
      <4> QED
        BY <1>1, <4>1, <4>3 DEF InCache
    <3>3. e \in InCache'
      BY <1>1, <1>3, <2>1 DEF InCache
    <3> QED
      BY <3>1, <3>2, <3>3
  <2> HIDE DEF e, u
  <2>3. /\ SumOver(Sizes, InCache \cup {e}) = SumOver(Sizes, InCache) + Sizes[e]
        /\ SumOver(Sizes, InCache) \in Int
    <3>1. \A y \in InCache \cup {e} : Sizes[y] \in Int
      BY <1>3, <1>4
    <3> QED
      BY <1>3, <1>4, <3>1, SumAdd
  <2>4. Sizes[e] = z /\ z \in Int
    BY <1>3, <1>4
  <2>5. PICK x \in Int : x = SumOver(Sizes, InCache)
    BY <2>3
  <2>6. cache_space + x = CacheSize + grown
    BY <1>6, <2>5 DEF SpaceInv
  <2>7. PICK y \in Int : y = z
    BY <2>4
  <2>8. SumOver(Sizes', InCache') = x + y
    BY <1>6, <2>2, <2>3, <2>4, <2>5, <2>7
  <2>9. cache_space' + (x + y) = CacheSize + grown'
    <3>1. grown' = grown /\ cache_space \in Nat /\ grown \in Int /\ CacheSize \in Nat
      BY <1>1, <1>4, <1>6
    <3>2. cache_space' = cache_space - y
      BY <2>1, <2>7
    <3> QED
      BY <2>6, <3>1, <3>2
  <2> QED
    BY <2>8, <2>9 DEF SpaceInv
<1> QED
  BY <1>8, <1>9

(* SetDuplicate: the entry of the table becomes the one that is replaced.  *)
LEMMA SetDuplicateSpace ==
    ASSUME SafeInv, SafeInv', SpaceInv, NEW c \in Conns, SetsDuplicate(c),
           UNCHANGED <<cache_space, grown>>
    PROVE  SpaceInv'
<1> DEFINE u == req[c].uri
           d == cache[u]
<1>1. /\ pc[c] = "set" /\ mtx = NONE /\ mtx' = c /\ UNCHANGED entries /\ Alone(c)
      /\ pc'[c] = "dup" /\ d # 0 /\ req'[c].dup = d /\ cache'[u] = 0
      /\ \A w \in Uris : w # u => cache'[w] = cache[w]
  BY DEF SetsDuplicate
<1>2. u \in Uris
  BY Ranges DEF InRange
<1>3. /\ \A f \in InCache : f \in 1 .. Len(entries)
      /\ d \in InCache
  BY <1>1, <1>2, InCacheFacts DEF Accountable
<1>4. \A b \in Conns : pc[b] # "dup" /\ (pc'[b] = "dup" <=> b = c)
  BY <1>1, ConnsAssumption DEF Alone, SafeInv, LockInv, MutexHeld, NONE
<1>5. \A f : ~Replaced(f) /\ (Replaced(f)' <=> f = d)
  BY <1>1, <1>4 DEF Replaced
<1>6. InCache' = InCache
  <2>1. ASSUME NEW f \in InCache' PROVE f \in InCache
    <3>1. f \in 1 .. Len(entries) /\ f # 0
      BY <1>1, <2>1 DEF InCache
    <3>2. CASE f = d
      BY <1>3, <3>2
    <3>3. CASE f # d
      <4>1. PICK w \in Uris : cache'[w] = f
        BY <1>5, <2>1, <3>3 DEF InCache
      <4>2. cache[w] = f
        BY <1>1, <3>1, <4>1
      <4> QED
        BY <3>1, <4>2 DEF InCache
    <3> QED
      BY <3>2, <3>3
  <2>2. ASSUME NEW f \in InCache PROVE f \in InCache'
    <3>1. PICK w \in Uris : cache[w] = f
      BY <1>5, <2>2 DEF InCache
    <3>2. f = d \/ cache'[w] = f
      BY <1>1, <3>1
    <3> QED
      BY <1>1, <1>3, <1>5, <2>2, <3>2 DEF InCache
  <2> QED
    BY <2>1, <2>2
<1>7. Sizes' = Sizes
  BY <1>1 DEF Sizes
<1>8. mtx # FREED
  BY <1>1 DEF NONE, FREED
<1> QED
  BY <1>6, <1>7, <1>8 DEF SpaceInv

(* LockDuplicate: the bytes of the replaced entry are given back, those of *)
(* the new one are taken when there is room for it.                        *)
LEMMA LockDuplicateSpace ==
    ASSUME SafeInv, SafeInv', SpaceInv, NEW c \in Conns, LocksDuplicate(c), LockDuplicate(c)
    PROVE  SpaceInv'
<1> DEFINE u == req[c].uri
           e == req[c].entry
           d == req[c].dup
           z == entries[e].size
           space == cache_space + entries[d].size
           Kept  == InCache \ {d}
<1>1. /\ pc[c] = "dup" /\ mtx' = NONE /\ UNCHANGED grown /\ req' = req /\ Alone(c)
      /\ pc'[c] \in {"sent", "full"} /\ Len(entries') = Len(entries)
      /\ \A w \in Uris : w # u => cache'[w] = cache[w]
      /\ \A f \in 1 .. Len(entries) : f # d => entries'[f] = entries[f]
  BY DEF LocksDuplicate, LockDuplicate
<1>2. /\ cache_space' = IF space < z THEN space ELSE space - z
      /\ cache' = [cache EXCEPT ![u] = IF space < z THEN 0 ELSE e]
  BY DEF LockDuplicate, Settle, Entry
<1>3. e \notin InCache /\ e \in 1 .. Len(entries) /\ u \in Uris
  BY <1>1, OwnedOutside DEF Owning
<1>4. /\ \A f \in InCache : f \in 1 .. Len(entries)
      /\ \A f \in 1 .. Len(entries) : Sizes[f] = entries[f].size /\ Sizes[f] \in Nat
      /\ cache_space \in Nat /\ grown \in Int /\ IsFiniteSet(InCache) /\ d \in InCache
  BY <1>1, InCacheFacts DEF Accountable
<1>5. \A b \in Conns : (pc[b] = "dup" <=> b = c) /\ pc'[b] # "dup"
  BY <1>1, ConnsAssumption DEF Alone, SafeInv, LockInv, MutexHeld, NONE
<1>6. cache \in [Uris -> Nat] /\ CacheSize \in Nat /\ mtx = c /\ mtx # FREED
  BY <1>1, BoundsAssumption, ConnsAssumption DEF SafeInv, TypeInv, LockInv, MutexHeld, FREED
<1>7. \A f : (Replaced(f) <=> f = d) /\ ~Replaced(f)'
  BY <1>1, <1>5 DEF Replaced
<1>8. cache[u] = 0 /\ entries[d].uri = u
  BY <1>1 DEF SafeInv, PlaceInv, DupAlive
<1>9. \A w \in Uris : cache[w] # 0 => cache[w] # d
  BY <1>3, <1>8 DEF SafeInv, PlaceInv, CacheAlive
<1>10. \A f \in Kept : f # 0 /\ f \in 1 .. Len(entries) /\ \E w \in Uris : w # u /\ cache[w] = f
  BY <1>4, <1>7, <1>8 DEF InCache
<1>11. \A f \in 1 .. Len(entries) : f \in InCache' <=> f \in Kept \/ cache'[u] = f
  <2>1. ASSUME NEW f \in 1 .. Len(entries), f \in InCache', cache'[u] # f PROVE f \in Kept
    <3>1. PICK w \in Uris : cache'[w] = f
      BY <1>7, <2>1 DEF InCache
    <3>2. w # u /\ cache[w] = f /\ f # 0
      BY <1>1, <2>1, <3>1
    <3> QED
      BY <1>9, <2>1, <3>2 DEF InCache
  <2>2. ASSUME NEW f \in Kept PROVE f \in InCache'
    BY <1>1, <1>10 DEF InCache
  <2>3. ASSUME NEW f \in 1 .. Len(entries), cache'[u] = f PROVE f \in InCache'
    BY <1>1, <1>3, <2>3 DEF InCache
  <2> QED
    BY <2>1, <2>2, <2>3
<1>12. \A f \in InCache' : f \in 1 .. Len(entries)
  BY <1>1 DEF InCache
<1>13. /\ \A f \in Kept \cup {e} : f \in 1 .. Len(entries) /\ f # d
       /\ e \notin Kept
  BY <1>3, <1>4
<1>14. IsFiniteSet(Kept) /\ SumOver(Sizes', Kept) = SumOver(Sizes, Kept)
  <2>1. IsFiniteSet(Kept)
    BY <1>4, FS_Subset
  <2>2. \A f \in Kept : /\ f \in 1 .. Len(entries) /\ f \in 1 .. Len(entries')
                         /\ entries'[f].size = entries[f].size
    BY <1>1, <1>13
  <2> HIDE DEF Kept
  <2> QED
    BY <2>1, <2>2, SumStays
<1>15. /\ SumOver(Sizes, Kept) = SumOver(Sizes, InCache) - Sizes[d]
       /\ SumOver(Sizes, InCache) \in Int
  <2>1. \A y \in InCache : Sizes[y] \in Int
    BY <1>4
  <2> QED
    BY <1>4, <2>1, SumRemove
<1>16. Sizes[d] = entries[d].size /\ Sizes[e] = z /\ Sizes[d] \in Int /\ Sizes[e] \in Int
  BY <1>3, <1>4
<1>17. PICK x, y, v \in Int : x = SumOver(Sizes, InCache) /\ y = entries[d].size /\ v = z
  BY <1>15, <1>16
<1>18. cache_space + x = CacheSize + grown /\ SumOver(Sizes', Kept) = x - y /\ space = cache_space + y
  BY <1>6, <1>14, <1>15, <1>16, <1>17 DEF SpaceInv
<1>19. CASE space < z
  <2>1. cache'[u] = 0 /\ cache_space' = cache_space + y
    BY <1>2, <1>3, <1>6, <1>18, <1>19
  <2>2. InCache' = Kept
    BY <1>10, <1>11, <1>12, <2>1
  <2>3. cache_space' + (x - y) = CacheSize + grown'
    BY <1>1, <1>4, <1>6, <1>18, <2>1
  <2> QED
    BY <1>18, <2>2, <2>3 DEF SpaceInv
<1>20. CASE ~(space < z)
  <2>1. cache'[u] = e /\ cache_space' = (cache_space + y) - v
    <3>1. cache' = [cache EXCEPT ![u] = e] /\ cache_space' = space - z
      BY <1>2, <1>20
    <3>2. cache'[u] = e
      BY <1>3, <1>6, <3>1
    <3>3. cache_space' = (cache_space + y) - v
      BY <1>17, <3>1
    <3> QED
      BY <3>2, <3>3
  <2>2. InCache' = Kept \cup {e}
    BY <1>3, <1>10, <1>11, <1>12, <2>1
  <2>3. \A f \in Kept \cup {e} : Sizes'[f] = Sizes[f] /\ Sizes'[f] \in Int
    <3>1. ASSUME NEW f \in Kept \cup {e} PROVE Sizes'[f] = Sizes[f] /\ Sizes'[f] \in Int
      <4>1. f \in 1 .. Len(entries) /\ entries'[f] = entries[f]
        BY <1>1, <1>13
      <4> QED
        BY <1>1, <1>4, <4>1 DEF Sizes
    <3> QED
      BY <3>1
  <2> HIDE DEF e, Kept
  <2>4. SumOver(Sizes', Kept \cup {e}) = SumOver(Sizes', Kept) + Sizes'[e]
    BY <1>13, <1>14, <2>3, SumAdd
  <2>5. SumOver(Sizes', InCache') = (x - y) + v
    BY <1>16, <1>17, <1>18, <2>2, <2>3, <2>4
  <2>6. cache_space' + ((x - y) + v) = CacheSize + grown'
    BY <1>1, <1>4, <1>6, <1>18, <2>1
  <2> QED
    BY <2>5, <2>6 DEF SpaceInv
<1> QED
  BY <1>19, <1>20

(* Every step of a connection keeps the account.                           *)
LEMMA ServeSpace ==
    ASSUME SafeInv, SafeInv', SpaceInv, NEW c \in Conns, Serve(c), ~crashed,
           UNCHANGED <<file, edits>>
    PROVE  SpaceInv'
<1>0. ASSUME crashed', LockEntry(c) \/ RemoveCacheEntry(c) PROVE SpaceInv'
  <2>1. UNCHANGED <<mtx, cache, cache_space, entries, pc, req, grown>>
    BY <1>0 DEF LockEntry, RemoveCacheEntry, Crash
  <2> QED
    BY <2>1, QuietSpace
<1>1. CASE \E u \in Uris : GetCacheEntry(c, u)
  <2>1. PICK u \in Uris : GetCacheEntry(c, u)
    BY <1>1
  <2>2. Gets(c, u)
    BY <2>1, GetEffect
  <2>3. UNCHANGED <<mtx, cache, cache_space, entries, grown>>
    BY <2>1 DEF GetCacheEntry
  <2>4. Alone(c) /\ pc[c] = "idle" /\ pc'[c] # "dup"
    BY <2>2 DEF Gets
  <2> QED
    BY <2>3, <2>4, QuietSpace DEF Alone
<1>2. CASE LockEntry(c) /\ ~crashed'
  <2>1. Locks(c)
    BY <1>2, LockEffect
  <2>2. UNCHANGED <<mtx, cache, cache_space, grown>>
    BY <1>2 DEF LockEntry, Crash
  <2>3. /\ \A e \in 1 .. Len(entries) : e \in 1 .. Len(entries') /\ entries'[e].size = entries[e].size
        /\ Alone(c) /\ pc[c] = "lock" /\ pc'[c] = "stat" /\ req' = req
    BY <2>1 DEF Locks
  <2> QED
    BY <2>2, <2>3, QuietSpace, InCacheFacts DEF Alone, Accountable
<1>3. CASE Stat(c)
  <2>1. Stats(c) /\ UNCHANGED <<mtx, cache, cache_space, entries, grown>>
    BY <1>3, StatEffect DEF Stat
  <2>2. Alone(c) /\ pc[c] = "stat" /\ pc'[c] # "dup"
    BY <2>1 DEF Stats
  <2> QED
    BY <2>1, <2>2, QuietSpace DEF Alone
<1>4. CASE RefreshNoFile(c) \/ CreateFails(c)
  <2>1. Fails(c) /\ UNCHANGED <<mtx, cache, cache_space, entries, grown>>
    BY <1>4, FailEffect DEF RefreshNoFile, CreateFails
  <2>2. Alone(c) /\ pc[c] # "dup" /\ pc'[c] # "dup"
    BY <2>1 DEF Fails
  <2> QED
    BY <2>1, <2>2, QuietSpace DEF Alone
<1>5. CASE Refresh(c)
  BY <1>5, RefreshEffect, RefreshTypes, RefreshSpace DEF RefreshMoves
<1>6. CASE Respond(c)
  <2>1. Responds(c) /\ RespondMoves(c) /\ UNCHANGED <<mtx, cache, cache_space, grown>>
    BY <1>6, RespondEffect, RespondTypes DEF Respond, RespondMoves
  <2>2. /\ \A e \in 1 .. Len(entries) : e \in 1 .. Len(entries') /\ entries'[e].size = entries[e].size
        /\ Alone(c) /\ pc[c] = "respond" /\ pc'[c] = "sent"
    BY <2>1 DEF Responds, RespondMoves
  <2> QED
    BY <2>1, <2>2, QuietSpace, InCacheFacts DEF Alone, Accountable
<1>7. CASE RemoveCacheEntry(c) /\ ~crashed'
  BY <1>7, RemoveEffect, RemoveSpace DEF Removes
<1>8. CASE DestroyInvalid(c) \/ DestroyUncached(c)
  <2>1. Frees(c) /\ UNCHANGED <<cache_space, grown>>
    BY <1>8, FreeEffect DEF DestroyInvalid, DestroyUncached
  <2> QED
    BY <2>1, FreeSpace
<1>9. CASE CreateStat(c)
  <2>1. CreateStats(c) /\ UNCHANGED <<mtx, cache, cache_space, entries, grown>>
    BY <1>9, CreateStatEffect DEF CreateStat
  <2>2. Alone(c) /\ pc[c] = "create" /\ pc'[c] # "dup"
    BY <2>1 DEF CreateStats
  <2> QED
    BY <2>1, <2>2, QuietSpace DEF Alone
<1>10. CASE CreateReads(c)
  <2>1. Reads(c) /\ UNCHANGED <<mtx, cache, cache_space, grown>>
    BY <1>10, ReadEffect DEF CreateReads
  <2>2. /\ Len(entries') = Len(entries) + 1
        /\ \A e \in 1 .. Len(entries) : entries'[e] = entries[e]
        /\ Alone(c) /\ pc[c] = "read" /\ pc'[c] = "set"
    BY <2>1 DEF Reads
  <2>3. Accountable
    BY InCacheFacts
  <2>4. \A e \in 1 .. Len(entries) : e \in 1 .. Len(entries') /\ entries'[e].size = entries[e].size
    BY <2>2, <2>3 DEF Accountable
  <2> QED
    BY <2>1, <2>2, <2>3, <2>4, QuietSpace DEF Alone, Accountable
<1>11. CASE SetFirst(c)
  BY <1>11, SetFirstEffect, SetFirstSpace
<1>12. CASE SetDuplicate(c)
  <2>1. SetsDuplicate(c) /\ UNCHANGED <<cache_space, grown>>
    BY <1>12, SetDuplicateEffect DEF SetDuplicate
  <2> QED
    BY <2>1, SetDuplicateSpace
<1>13. CASE LockDuplicate(c)
  BY <1>13, LockDuplicateEffect, LockDuplicateSpace
<1>14. CASE Finalize(c)
  <2>1. Finalizes(c) /\ UNCHANGED <<mtx, cache, cache_space, entries, grown>>
    BY <1>14, FinalizeEffect DEF Finalize
  <2>2. Alone(c) /\ pc[c] = "sent" /\ pc'[c] = "idle"
    BY <2>1 DEF Finalizes
  <2> QED
    BY <2>1, <2>2, QuietSpace DEF Alone
<1> QED
  BY <1>0, <1>1, <1>2, <1>3, <1>4, <1>5, <1>6, <1>7, <1>8, <1>9, <1>10, <1>11, <1>12, <1>13, <1>14
    DEF Serve

(* Every step keeps the account; a destroyed server has none.              *)
LEMMA SpaceStep == SafeInv /\ SpaceInv /\ [Next]_vars => SpaceInv'
<1> SUFFICES ASSUME SafeInv, SpaceInv, [Next]_vars PROVE SpaceInv'
  OBVIOUS
<1>1. SafeInv'
  BY SafeStep
<1>2. CASE UNCHANGED vars
  BY <1>2 DEF vars, SpaceInv, InCache, Sizes, Replaced
<1>3. ASSUME NEW c \in Conns, Serve(c), ~crashed, UNCHANGED <<file, edits>> PROVE SpaceInv'
  BY <1>1, <1>3, ServeSpace
<1>4. CASE Destroy
  BY <1>4 DEF Destroy, SpaceInv
<1>5. CASE \E u \in Uris : EditFile(u)
  <2>1. UNCHANGED <<mtx, cache, cache_space, entries, pc, req, grown>>
    BY <1>5 DEF EditFile
  <2> QED
    BY <1>1, <2>1, QuietSpace
<1> QED
  BY <1>2, <1>3, <1>4, <1>5 DEF Next

(* An empty cache has all its space.                                       *)
LEMMA SpaceInit == Init => SpaceInv
<1> SUFFICES ASSUME Init PROVE SpaceInv
  OBVIOUS
<1>1. InCache = {}
  <2>1. Len(entries) = 0
    BY DEF Init
  <2> QED
    BY <2>1 DEF InCache
<1>2. cache_space = CacheSize /\ grown = 0 /\ CacheSize \in Nat
  BY BoundsAssumption DEF Init
<1>3. SumOver(Sizes, {}) = 0
  BY SumOfNone
<1>4. cache_space + SumOver(Sizes, InCache) = CacheSize + grown
  BY <1>1, <1>2, <1>3
<1> QED
  BY <1>4 DEF SpaceInv

(* The sizes the property adds up are the sum over the accounted entries.  *)
LEMMA SpaceMeans == SafeInv /\ SpaceInv => SpaceAccounted
<1> SUFFICES ASSUME SafeInv, SpaceInv, mtx # FREED
             PROVE  cache_space + CachedSizes + MapThenSumSet(LAMBDA e : entries[e].size, Leaving)
                      = CacheSize + grown
  BY DEF SpaceAccounted
<1>1. Accountable
  BY InCacheFacts
<1>2. \A e \in Gone \cup Leaving : e \in InCache
  BY <1>1 DEF Gone, Leaving, Accountable
<1>3. \A e \in Gone \cup Leaving : e \in 1 .. Len(entries)
  BY <1>1, <1>2 DEF Accountable
<1>4. CachedSizes = SumOver([e \in Gone |-> entries[e].size], Gone)
  <2>1. CachedSizes = MapThenSumSet(LAMBDA e : entries[e].size, Gone)
    BY DEF CachedSizes, Gone
  <2>2. MapThenSumSet(LAMBDA e : entries[e].size, Gone) = SumOver([e \in Gone |-> entries[e].size], Gone)
    BY DEF SumOver, MapThenSumSet, MapThenFoldSet
  <2> QED
    BY <2>1, <2>2
<1>5. MapThenSumSet(LAMBDA e : entries[e].size, Leaving) = SumOver([e \in Leaving |-> entries[e].size], Leaving)
  <2> HIDE DEF Leaving
  <2> QED
    BY DEF SumOver, MapThenSumSet, MapThenFoldSet
<1>6. /\ \A e \in InCache : Sizes[e] = entries[e].size /\ Sizes[e] \in Int
      /\ IsFiniteSet(InCache) /\ IsFiniteSet(Gone) /\ IsFiniteSet(Leaving)
      /\ cache_space \in Int
  <2>1. IsFiniteSet(InCache) /\ Gone \subseteq InCache /\ Leaving \subseteq InCache
    BY <1>1, <1>2 DEF Accountable
  <2>2. IsFiniteSet(Gone) /\ IsFiniteSet(Leaving)
    BY <2>1, FS_Subset
  <2> QED
    BY <1>1, <2>1, <2>2 DEF Accountable
<1>7. CachedSizes = SumOver(Sizes, Gone)
  <2>1. \A e \in Gone : [x \in Gone |-> entries[x].size][e] = Sizes[e]
    BY <1>2, <1>6
  <2> QED
    BY <1>4, <1>6, <2>1, SumSame
<1>8. MapThenSumSet(LAMBDA e : entries[e].size, Leaving) = SumOver(Sizes, Leaving)
  <2>1. \A e \in Leaving : [x \in Leaving |-> entries[x].size][e] = Sizes[e]
    BY <1>2, <1>6
  <2> QED
    BY <1>5, <1>6, <2>1, SumSame
<1>9. \A e \in InCache : e \in Gone \/ Replaced(e)
  BY <1>1 DEF InCache, Gone, Accountable
<1>10. cache_space + SumOver(Sizes, InCache) = CacheSize + grown
  BY DEF SpaceInv
<1>11. CASE \A c \in Conns : pc[c] # "dup"
  <2>1. Leaving = {} /\ InCache = Gone
    BY <1>2, <1>9, <1>11 DEF Leaving, Replaced
  <2>2. SumOver(Sizes, Leaving) = 0
    BY <2>1, SumOfNone
  <2>3. SumOver(Sizes, InCache) \in Int
    <3>1. CASE InCache = {}
      BY <3>1, SumOfNone
    <3>2. CASE InCache # {}
      BY <1>6, <3>2, SumRemove
    <3> QED
      BY <3>1, <3>2
  <2>4. PICK x \in Int : x = SumOver(Sizes, InCache)
    BY <2>3
  <2>5. CachedSizes = x
    BY <1>7, <2>1, <2>4
  <2>6. cache_space + x + 0 = CacheSize + grown
    BY <1>6, <1>10, <2>4
  <2> QED
    BY <1>8, <2>2, <2>5, <2>6
<1>12. ASSUME NEW c \in Conns, pc[c] = "dup"
       PROVE  cache_space + CachedSizes + SumOver(Sizes, Leaving) = CacheSize + grown
  <2> DEFINE d == req[c].dup
  <2>1. \A b \in Conns : pc[b] = "dup" <=> b = c
    BY <1>12 DEF SafeInv, LockInv, MutexHeld
  <2>2. Leaving = {d}
    BY <2>1 DEF Leaving
  <2>3. d \notin Gone
    <3>1. cache[req[c].uri] = 0 /\ entries[d].uri = req[c].uri /\ d # 0
      BY <1>12 DEF SafeInv, PlaceInv, DupAlive, RangeInv, ReqInRange
    <3> QED
      BY <3>1 DEF SafeInv, PlaceInv, CacheAlive, Gone
  <2>4. InCache = Gone \cup {d}
    <3>1. \A e : Replaced(e) <=> e = d
      BY <2>1 DEF Replaced
    <3> QED
      BY <1>2, <1>9, <2>2, <3>1
  <2> HIDE DEF d
  <2>5. /\ SumOver(Sizes, Gone) \in Int
        /\ SumOver(Sizes, Gone \cup {d}) = SumOver(Sizes, Gone) + Sizes[d]
    <3>1. \A e \in Gone \cup {d} : Sizes[e] \in Int
      BY <1>6, <2>4
    <3> QED
      BY <1>6, <2>3, <3>1, SumAdd
  <2>6. SumOver(Sizes, {d}) = Sizes[d] /\ Sizes[d] \in Int
    <3>1. Sizes[d] \in Int
      BY <1>6, <2>4
    <3>2. IsFiniteSet({}) /\ d \notin {} /\ \A e \in {} \cup {d} : Sizes[e] \in Int
      BY <3>1, FS_EmptySet
    <3>3. SumOver(Sizes, {} \cup {d}) = SumOver(Sizes, {}) + Sizes[d]
      BY <3>2, SumAdd
    <3>4. {} \cup {d} = {d} /\ SumOver(Sizes, {}) = 0
      BY SumOfNone
    <3>5. SumOver(Sizes, {d}) = 0 + Sizes[d]
      BY <3>3, <3>4
    <3> QED
      BY <3>1, <3>5
  <2>7. PICK x, y \in Int : x = SumOver(Sizes, Gone) /\ y = Sizes[d]
    BY <2>5, <2>6
  <2>8. cache_space + (x + y) = CacheSize + grown
    BY <1>10, <2>4, <2>5, <2>7
  <2>9. cache_space + x + y = CacheSize + grown
    BY <1>6, <2>7, <2>8
  <2> QED
    BY <1>7, <2>2, <2>6, <2>7, <2>9
<1> QED
  BY <1>8, <1>11, <1>12

(* What is free in the cache and what the cached files take add up to its  *)
(* size and what they have grown, however connections enter, replace,      *)
(* refresh and remove them at the same time (SpaceAccounted;               *)
(* uo_http_file_server_try_set_cache_entry and _remove_cache_entry).       *)
THEOREM CacheSpaceIsAccounted == Spec => []SpaceAccounted
<1>1. Init => SafeInv /\ SpaceInv
  BY SafeInit, SpaceInit
<1>2. SafeInv /\ SpaceInv /\ [Next]_vars => SafeInv' /\ SpaceInv'
  BY SafeStep, SpaceStep
<1>3. SafeInv /\ SpaceInv => SpaceAccounted
  BY SpaceMeans
<1> QED
  BY <1>1, <1>2, <1>3, PTL DEF Spec
=============================================================================
