---------------------------- MODULE CacheProofs ----------------------------
(***************************************************************************)
(* No answer that the cache gives is older than one given before, and as   *)
(* long as the file was never cut short none is forgotten, for any keys    *)
(* and any number of versions, kills and restarts; but for a kill after a  *)
(* write that left the old file, and before the next write.                *)
(***************************************************************************)
EXTENDS Cache, TLAPS

\* What f holds is as new as what was given, and f holds all that was given.
NotOlder(f) == \A k \in Keys : f[k] = Absent \/ f[k].version >= given[k]
Complete(f) == \A k \in Keys : f[k].version >= given[k]

\* Nothing is newer than the cloud.
CloudFirst ==
    \A k \in Keys : /\ given[k] <= cloud[k] /\ cache[k].version <= cloud[k]
                    /\ file # Torn => file[k].version <= cloud[k]

\* The response being handled says what the cache says.
ReplyCached ==
    pc \in {"write", "send"} => \A k \in DOMAIN reply.res :
       /\ reply.res[k].version = cache[k].version
       /\ ~reply.live => reply.res[k] = cache[k]

\* Before a response goes out its entry is in the file, or the file is torn, or
\* could not be opened.
FileFirst == pc \in {"idle", "send"} /\ ~behind => file \in {cache, Torn}

CacheInv ==
    /\ TypeOK
    /\ CloudFirst
    /\ ReplyCached
    /\ FileFirst
    /\ pc = "down" => ~behind
    /\ ~lost => (pc # "down" => NotOlder(cache)) /\ (file # Torn /\ ~behind => NotOlder(file))
    /\ ~lost /\ ~torn => /\ file # Torn /\ (~behind => Complete(file))
                         /\ pc # "down" => Complete(cache)
    /\ NeverStale
-----------------------------------------------------------------------------
Entry == Result \cup {Absent}

\* What an entry, and the torn file, look like.
LEMMA Shapes ==
    /\ Absent.version = 0
    /\ \A e \in Entry : e.version \in 0..MaxVersion
    /\ \A e \in Entry : e # Absent => e \in Result
    /\ \A v \in Versions : Raw(v) \in Result /\ Raw(v).version = v
    /\ Torn \notin Entries /\ Empty \in Entries /\ \A k \in Keys : Empty[k] = Absent
<1>1. Home \in Keys /\ MaxVersion \in Nat
  BY CacheAssumption DEF Keys
<1>2. Torn \notin Entries
  BY <1>1 DEF Torn, Entries
<1> QED
  BY <1>1, <1>2 DEF Entry, Result, Absent, Raw, Versions, Empty, Entries

\* The types of the state, entry by entry.
LEMMA Types ==
    ASSUME TypeOK
    PROVE  /\ \A k \in Keys : /\ cloud[k] \in Versions /\ cloud[k] \in Nat
                              /\ cache[k] \in Entry /\ given[k] \in 0..MaxVersion
           /\ file # Torn => \A k \in Keys : file[k] \in Entry
BY CacheAssumption DEF TypeOK, Entries, Entry, Versions

\* The cloud's answer for the keys D is kept, and sent on as out.
LEMMA Keeping ==
    ASSUME CacheInv, NEW D \in SUBSET Keys, NEW out, NEW next \in {"write", "send"},
           cache' = Remember([x \in D |-> Raw(cloud[x])]), Handles(next, TRUE, out),
           DOMAIN out = D, \A x \in D : out[x] \in Result /\ out[x].version = cloud[x],
           next = "send" => cache' = cache
    PROVE  CacheInv'
<1>1. /\ pc = "idle" /\ pc' = next /\ reply' = [live |-> TRUE, res |-> out]
      /\ UNCHANGED <<cloud, sent, given, file, torn, behind, lost>>
  BY DEF Handles, fileVars
<1>2. \A k \in Keys : cache'[k] = IF k \in D THEN Raw(cloud[k]) ELSE cache[k]
  BY DEF Remember
<1>3. TypeOK
  BY DEF CacheInv
<1>4. cache' \in Entries
  <2>1. \A k \in Keys : (IF k \in D THEN Raw(cloud[k]) ELSE cache[k]) \in Result \cup {Absent}
    BY <1>3, Types, Shapes DEF Entry
  <2> QED
    BY <2>1 DEF Remember, Entries
<1>5. TypeOK'
  <2>1. IsReply(reply') /\ sent' = sent
    BY <1>1 DEF IsReply
  <2> QED
    BY <1>1, <1>3, <1>4, <2>1 DEF TypeOK
<1>6. \A k \in Keys : /\ cache'[k].version <= cloud[k] /\ cache'[k].version >= cache[k].version
                      /\ cache[k] # Absent => cache'[k] # Absent
  <2> SUFFICES ASSUME NEW k \in Keys
               PROVE  /\ cache'[k].version <= cloud[k] /\ cache'[k].version >= cache[k].version
                      /\ cache[k] # Absent => cache'[k] # Absent
    OBVIOUS
  <2>1. /\ cloud[k] \in Versions /\ cache[k] \in Entry /\ cache[k].version <= cloud[k]
        /\ cache[k].version \in Nat /\ cloud[k] \in Nat /\ cloud[k] # 0
    BY <1>3, Types, Shapes DEF CacheInv, CloudFirst, Versions
  <2>2. CASE k \in D
    BY <1>2, <2>1, <2>2, Shapes DEF Raw, Absent
  <2>3. CASE k \notin D
    BY <1>2, <2>1, <2>3
  <2> QED
    BY <2>2, <2>3
<1>7. lost \/ NotOlder(cache)'
  <2> SUFFICES ASSUME ~lost, NEW k \in Keys PROVE cache'[k] = Absent \/ cache'[k].version >= given[k]
    BY <1>1 DEF NotOlder
  <2>1. given[k] <= cloud[k] /\ (cache[k] = Absent \/ cache[k].version >= given[k])
    BY <1>1 DEF CacheInv, CloudFirst, NotOlder
  <2> QED
    BY <1>2, <1>3, <2>1, Types, Shapes
<1>8. lost \/ torn \/ Complete(cache)'
  <2> SUFFICES ASSUME ~lost, ~torn, NEW k \in Keys PROVE cache'[k].version >= given[k]
    BY <1>1 DEF Complete
  <2>1. given[k] <= cloud[k] /\ cache[k].version >= given[k]
    BY <1>1 DEF CacheInv, CloudFirst, Complete
  <2> QED
    BY <1>2, <1>3, <2>1, Types, Shapes
<1>9. ReplyCached'
  BY <1>1, <1>2, <1>3, Types, Shapes DEF ReplyCached
<1>10. CloudFirst' /\ FileFirst'
  BY <1>1, <1>6 DEF CacheInv, CloudFirst, FileFirst
<1> QED
  BY <1>1, <1>5, <1>7, <1>8, <1>9, <1>10 DEF CacheInv, NotOlder, Complete, NeverStale

\* The entries of the keys D stand in for the cloud's answer.
LEMMA StandingIn ==
    ASSUME CacheInv, NEW D \in SUBSET Keys, UNCHANGED cache,
           Handles("send", FALSE, [x \in D |-> cache[x]])
    PROVE  CacheInv'
<1>1. /\ pc = "idle" /\ pc' = "send" /\ reply' = [live |-> FALSE, res |-> [x \in D |-> cache[x]]]
      /\ UNCHANGED <<cloud, cache, sent, given, file, torn, behind, lost>>
  BY DEF Handles, fileVars
<1>2. TypeOK
  BY DEF CacheInv
<1>3. TypeOK'
  <2>1. IsReply(reply') /\ sent' = sent
    BY <1>1, <1>2, Types DEF IsReply, Entry
  <2> QED
    BY <1>1, <1>2, <2>1 DEF TypeOK
<1>4. ReplyCached'
  BY <1>1 DEF ReplyCached
<1> QED
  BY <1>1, <1>3, <1>4 DEF CacheInv, CloudFirst, FileFirst, NotOlder, Complete, NeverStale

\* One response of the cloud for one key: a result kept, or one that stands in.
LEMMA ResponseStep ==
    ASSUME CacheInv, Response
    PROVE  CacheInv'
<1>1. ASSUME NEW k \in Keys, CacheResult(k)
      PROVE  CacheInv'
  <2> DEFINE res == [x \in {k} |-> Raw(cloud[x])]
  <2>1. /\ DOMAIN patchBLEProd(res) = {k}
        /\ \A x \in {k} : /\ patchBLEProd(res)[x] \in Result
                          /\ patchBLEProd(res)[x].version = cloud[x]
    <3>1. cloud[k] \in Versions
      BY Types DEF CacheInv
    <3> QED
      BY <3>1 DEF patchBLEProd, Raw, Result
  <2>2. CASE cache[k] # res[k]
    <3>1. cache' = Remember(res) /\ Handles("write", TRUE, patchBLEProd(res))
      BY <1>1, <2>2 DEF CacheResult
    <3>2. {k} \in SUBSET Keys
      OBVIOUS
    <3> QED
      BY <2>1, <3>1, <3>2, Keeping
  <2>3. CASE cache[k] = res[k]
    <3>1. cache' = cache /\ Handles("send", TRUE, patchBLEProd(res))
      BY <1>1, <2>3 DEF CacheResult
    <3>2. Remember(res) = cache
      BY <2>3 DEF Remember, CacheInv, TypeOK, Entries
    <3> QED
      BY <2>1, <3>1, <3>2, Keeping
  <2> QED
    BY <2>2, <2>3
<1>2. ASSUME NEW k \in Keys, CacheStandsIn(k)
      PROVE  CacheInv'
  BY <1>2, StandingIn DEF CacheStandsIn
<1>3. ASSUME NEW ds \in SUBSET Devs, CacheList(ds)
      PROVE  CacheInv'
  <2> DEFINE res == [x \in ds |-> Raw(cloud[x])]
             next == IF \E k \in ds : cache[k] # res[k] THEN "write" ELSE "send"
  <2>1. ds \in SUBSET Keys /\ next \in {"write", "send"}
    BY DEF Keys
  <2>2. DOMAIN res = ds /\ \A x \in ds : res[x] \in Result /\ res[x].version = cloud[x]
    BY <2>1, Types, Shapes DEF CacheInv
  <2>3. cache' = Remember(res) /\ Handles(next, TRUE, res)
    BY <1>3 DEF CacheList
  <2>4. next = "send" => cache' = cache
    <3> SUFFICES ASSUME \A k \in ds : cache[k] = res[k] PROVE Remember(res) = cache
      BY <2>3
    <3> QED
      BY DEF Remember, CacheInv, TypeOK, Entries
  <2> QED
    BY <2>1, <2>2, <2>3, <2>4, Keeping
<1>4. ASSUME NEW ds \in SUBSET Devs, ListStandsIn(ds)
      PROVE  CacheInv'
  <2>1. {k \in ds : Hit(k)} \in SUBSET Keys
    BY DEF Keys
  <2> QED
    BY <1>4, <2>1, StandingIn DEF ListStandsIn
<1> QED
  BY <1>1, <1>2, <1>3, <1>4 DEF Response

\* store.Set, whether or not the file is written to the end.
LEMMA WriteStep ==
    ASSUME CacheInv, WriteFile \/ WriteFails
    PROVE  CacheInv'
<1>1. /\ pc = "write" /\ pc' = "send"
      /\ UNCHANGED <<cloud, cache, reply, sent, given, lost>>
      /\ \/ file' = cache /\ ~behind' /\ torn' = torn
         \/ file' = Torn /\ torn' /\ ~behind'
         \/ behind' /\ file' = file /\ torn' = torn
  BY DEF WriteFile, WriteFails
<1>2. TypeOK'
  BY <1>1 DEF CacheInv, TypeOK, WriteFile, WriteFails
<1>3. cache # Torn
  BY Shapes DEF CacheInv, TypeOK
<1> QED
  BY <1>1, <1>2, <1>3 DEF CacheInv, CloudFirst, ReplyCached, FileFirst, NotOlder, Complete, NeverStale

\* The response goes out: what it gives is what the cache holds.
LEMMA SendStep ==
    ASSUME CacheInv, Send
    PROVE  CacheInv'
<1>1. /\ pc = "send" /\ pc' = "idle" /\ sent' = reply /\ (behind \/ file \in {cache, Torn})
      /\ UNCHANGED <<cloud, cache, file, torn, behind, lost>>
  BY DEF Send, CacheInv, FileFirst, fileVars
<1>2. TypeOK
  BY DEF CacheInv
<1>3. \A k \in Keys : /\ given'[k] \in 0..MaxVersion
                      /\ given'[k] = given[k] \/ given'[k] = cache[k].version
                      /\ k \in DOMAIN reply.res => given'[k] = given[k] \/ given[k] <= given'[k]
  <2> SUFFICES ASSUME NEW k \in Keys
               PROVE  /\ given'[k] \in 0..MaxVersion
                      /\ given'[k] = given[k] \/ given'[k] = cache[k].version
                      /\ k \in DOMAIN reply.res => given'[k] = given[k] \/ given[k] <= given'[k]
    OBVIOUS
  <2>1. k \in DOMAIN reply.res => reply.res[k].version = cache[k].version
    BY <1>1 DEF CacheInv, ReplyCached
  <2>2. given[k] \in 0..MaxVersion /\ cache[k].version \in 0..MaxVersion
    BY <1>2, Types, Shapes
  <2> QED
    BY <2>1, <2>2, CacheAssumption DEF Send
<1>4. TypeOK'
  <2>1. given' \in [Keys -> 0..MaxVersion]
    BY <1>3 DEF Send
  <2>2. IsReply(reply')
    BY DEF Send, NoReply, IsReply
  <2> QED
    BY <1>1, <1>2, <2>1, <2>2 DEF TypeOK
<1>5. ~lost => NotOlder(cache)' /\ (~torn => Complete(cache)')
  <2>1. ~lost => NotOlder(cache) /\ (~torn => Complete(cache))
    BY <1>1 DEF CacheInv
  <2>2. \A k \in Keys : cache[k].version \in Nat /\ given[k] \in Nat
    BY <1>2, Types, Shapes, CacheAssumption
  <2> QED
    BY <1>1, <1>3, <2>1, <2>2 DEF NotOlder, Complete
<1>6. CloudFirst'
  BY <1>1, <1>3 DEF CacheInv, CloudFirst
<1>7. NeverStale'
  <2> SUFFICES ASSUME ~lost, ~reply.live, NEW k \in DOMAIN reply.res, reply.res[k] # Absent
               PROVE  reply.res[k].version >= given'[k]
    BY <1>1 DEF NeverStale
  <2>1. reply.res[k] = cache[k] /\ k \in Keys
    BY <1>1, <1>2 DEF CacheInv, ReplyCached, TypeOK, IsReply
  <2> QED
    BY <1>5, <1>1, <2>1 DEF NotOlder
<1> QED
  BY <1>1, <1>4, <1>5, <1>6, <1>7 DEF CacheInv, ReplyCached, FileFirst, NotOlder, Complete

\* A kill, wherever the process is.
LEMMA CrashStep ==
    ASSUME CacheInv, Crash
    PROVE  CacheInv'
<1>1. /\ pc # "down" /\ pc' = "down" /\ file' \in {file, cache, Torn}
      /\ torn' = (torn \/ file' = Torn) /\ ~behind' /\ sent' = NoReply /\ reply' = NoReply /\ cache' = Empty
      /\ lost' = (lost \/ (behind /\ file' \notin {cache, Torn}))
      /\ UNCHANGED <<cloud, given>>
  BY DEF Crash
<1>2. TypeOK'
  <2>1. IsReply(reply') /\ IsReply(sent')
    BY <1>1 DEF NoReply, IsReply
  <2>2. cache' \in Entries /\ file' \in Entries \cup {Torn}
    BY <1>1, Shapes DEF CacheInv, TypeOK
  <2>3. torn' \in BOOLEAN /\ behind' \in BOOLEAN /\ lost' \in BOOLEAN
    BY <1>1 DEF CacheInv, TypeOK, Crash
  <2>4. {torn', behind', lost'} \subseteq BOOLEAN
    BY <2>3
  <2> QED
    BY <1>1, <2>1, <2>2, <2>4 DEF CacheInv, TypeOK
<1>3. \A k \in Keys : cache'[k].version <= cloud[k]
  BY <1>1, Shapes, Types, CacheAssumption DEF CacheInv, Versions
<1>4. NeverStale'
  BY <1>1 DEF NeverStale, NoReply
<1>5. cache # Torn
  BY Shapes DEF CacheInv, TypeOK
<1> QED
  BY <1>1, <1>2, <1>3, <1>4, <1>5 DEF CacheInv, CloudFirst, ReplyCached, FileFirst, NotOlder, Complete

\* The process starts again from the file.
LEMMA StartStep ==
    ASSUME CacheInv, Start
    PROVE  CacheInv'
<1>1. /\ pc = "down" /\ pc' = "idle"
      /\ cache' = IF file = Torn THEN Empty ELSE file
      /\ UNCHANGED <<cloud, reply, sent, given, file, torn, behind, lost>>
  BY DEF Start, Saved, fileVars
<1>2. TypeOK'
  BY <1>1, Shapes DEF CacheInv, TypeOK
<1>3. \A k \in Keys : cache'[k].version <= cloud[k]
  BY <1>1, Shapes, Types, CacheAssumption DEF CacheInv, CloudFirst, Versions
<1>4. lost \/ NotOlder(cache)'
  BY <1>1, Shapes DEF CacheInv, NotOlder
<1> QED
  BY <1>1, <1>2, <1>3, <1>4 DEF CacheInv, CloudFirst, ReplyCached, FileFirst, NotOlder, Complete, NeverStale

LEMMA CloudStep ==
    ASSUME CacheInv, NEW k \in Keys, CloudChanges(k)
    PROVE  CacheInv'
<1>1. /\ cloud[k] < MaxVersion /\ cloud' = [cloud EXCEPT ![k] = @ + 1]
      /\ UNCHANGED <<pc, cache, reply, sent, given, file, torn, behind, lost>>
  BY DEF CloudChanges, fileVars
<1>2. TypeOK'
  BY <1>1, CacheAssumption DEF CacheInv, TypeOK, Versions
<1>3. CloudFirst'
  <2> SUFFICES ASSUME NEW x \in Keys
               PROVE  /\ given[x] <= cloud'[x] /\ cache[x].version <= cloud'[x]
                      /\ file # Torn => file[x].version <= cloud'[x]
    BY <1>1 DEF CloudFirst
  <2>1. cloud[x] \in Nat /\ cloud'[x] \in Nat /\ cloud[x] <= cloud'[x]
    BY <1>1, CacheAssumption DEF CacheInv, TypeOK, Versions
  <2>2. given[x] \in Nat /\ cache[x].version \in Nat /\ (file # Torn => file[x].version \in Nat)
    BY Types, Shapes, CacheAssumption DEF CacheInv
  <2> QED
    BY <2>1, <2>2 DEF CacheInv, CloudFirst
<1> QED
  BY <1>1, <1>2, <1>3 DEF CacheInv, ReplyCached, FileFirst, NotOlder, Complete, NeverStale
-----------------------------------------------------------------------------
\* The invariant, for any keys and versions.
THEOREM CacheInvariant == Spec => []CacheInv
<1>1. Init => CacheInv
  <2> SUFFICES ASSUME Init PROVE CacheInv
    OBVIOUS
  <2>1. TypeOK
    <3>1. 1 \in Versions /\ IsReply(NoReply)
      BY CacheAssumption DEF Versions, IsReply, NoReply
    <3>2. Empty \in Entries
      BY Shapes DEF Entries, Empty
    <3>3. cloud \in [Keys -> Versions] /\ given \in [Keys -> 0..MaxVersion]
      BY <3>1, CacheAssumption DEF Init
    <3> QED
      BY <3>1, <3>2, <3>3 DEF Init, TypeOK
  <2> QED
    BY <2>1, Shapes DEF Init, CacheInv, CloudFirst, ReplyCached, FileFirst, NotOlder, Complete,
                        NeverStale, NoReply
<1>2. CacheInv /\ [Next]_vars => CacheInv'
  <2>1. CASE UNCHANGED vars
    BY <2>1 DEF vars, fileVars, CacheInv, TypeOK, CloudFirst, ReplyCached, FileFirst, NotOlder, Complete,
                NeverStale
  <2> QED
    BY <2>1, ResponseStep, WriteStep, SendStep, CrashStep, StartStep, CloudStep DEF Next
<1> QED
  BY <1>1, <1>2, PTL DEF Spec

\* No answer that stands in for the cloud is older than one given before,
\* through kills, failed and torn writes (cache_res.go:25-38, store.go:34-50), until
\* the process is killed while its last write left the old file.
THEOREM NothingOldComesBack == Spec => []NeverStale
<1>1. CacheInv => NeverStale
  BY DEF CacheInv
<1> QED
  BY <1>1, CacheInvariant, PTL

\* As long as the file was never cut short, and never left behind by a process
\* that was then killed, one that starts again knows all that was ever given
\* (store.go:9-32).
THEOREM NothingForgotten == Spec => []StartsKnowing
<1>1. CacheInv => StartsKnowing
  BY DEF CacheInv, Complete, StartsKnowing, Known, Saved
<1> QED
  BY <1>1, CacheInvariant, PTL
=============================================================================
