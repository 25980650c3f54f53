------------------------------- MODULE Cache -------------------------------
(***************************************************************************)
(* internal/cache and internal/store: the last of the response hooks.  It  *)
(* remembers what the cloud answered to the Bluetooth app (BLE devices,    *)
(* their specs) and to central (home and room), saves it to a file, and    *)
(* answers in place of a cloud that cannot; it also corrects the BLE specs. *)
(* All responses to those two apps come from the cloud's goroutine, one at *)
(* a time; the process may be killed at any step and started again.        *)
(*                                                                         *)
(* An entry is known by its cache key.  The key of a device (the CRC of    *)
(* its MAC) is the same for ble_query_dev and ble_query_dev_list.  What    *)
(* the cloud knows of a key has versions, which only grow.                 *)
(***************************************************************************)
EXTENDS Naturals

CONSTANTS
    Devs,       \* keys of devices (bleQueryDev)
    Prods,      \* keys of specs (bleQueryProd)
    Home,       \* key of homeroomInfo
    MaxVersion  \* bound on the versions

Keys == Devs \cup Prods \cup {Home}
Versions == 1..MaxVersion

ASSUME CacheAssumption ==
    /\ Devs \cap Prods = {} /\ Home \notin Devs \cup Prods /\ MaxVersion \in Nat \ {0}

\* A result for key: its version, and whether the intervals of its rules are
\* the corrected ones; what the cloud sends is not.
Result == [version : Versions, fixed : BOOLEAN]
Absent == [version |-> 0, fixed |-> FALSE]
Raw(v) == [version |-> v, fixed |-> FALSE]

VARIABLES
    cloud,      \* key -> the version the cloud has now
    pc,         \* idle, write (in WriteFile), send, down
    cache,      \* key -> result, Absent when it is not there
    file,       \* what the file holds, as such a function; or Torn
    reply,      \* the response being handled: key -> result, for the keys it names
    sent,       \* the response last given to an app: its keys and results, and
                \* whether it came from the cloud
    given,      \* key -> the newest version an app was ever given
    torn,       \* the file was cut short once, by a kill or a full disk
    behind,     \* the last write left the file as it was
    lost        \* the process was killed, once, while it was behind

fileVars == <<file, torn, behind, lost>>
vars == <<cloud, pc, cache, reply, sent, given, fileVars>>

Empty == [k \in Keys |-> Absent]
Torn == [k \in {} |-> Absent]
NoReply == [live |-> FALSE, res |-> [k \in {} |-> Absent]]

Init ==
    /\ cloud = [k \in Keys |-> 1]
    /\ pc = "idle"
    /\ cache = Empty
    /\ file = Empty
    /\ reply = NoReply
    /\ sent = NoReply
    /\ given = [k \in Keys |-> 0]
    /\ torn = FALSE /\ behind = FALSE /\ lost = FALSE

Hit(k) == cache[k] # Absent

Handles(next, live, res) ==
    /\ pc = "idle"
    /\ pc' = next
    /\ reply' = [live |-> live, res |-> res]
    /\ UNCHANGED <<cloud, sent, given, fileVars>>
-----------------------------------------------------------------------------
(***************************************************************************)
(* The hook.                                                               *)
(***************************************************************************)
Remember(res) == [k \in Keys |-> IF k \in DOMAIN res THEN res[k] ELSE cache[k]]

\* patchBLEProd: the rules of the spec, corrected.
patchBLEProd(res) == [k \in DOMAIN res |-> [res[k] EXCEPT !.fixed = @ \/ k \in Prods]]

\* Fault: an entry that is there is not replaced.
KeepResult(k) ==
    LET res == [x \in {k} |-> Raw(cloud[x])]
    IN IF ~Hit(k)
       THEN cache' = Remember(res) /\ Handles("write", TRUE, patchBLEProd(res))
       ELSE UNCHANGED cache /\ Handles("send", TRUE, patchBLEProd(res))

\* cacheResponse, the cloud has answered: the result is kept as the cloud sent
\* it and saved if it is new; a spec is then corrected on its way to the app.
CacheResult(k) ==
    LET res == [x \in {k} |-> Raw(cloud[x])]
    IN IF cache[k] # res[k]
       THEN cache' = Remember(res) /\ Handles("write", TRUE, patchBLEProd(res))
       ELSE UNCHANGED cache /\ Handles("send", TRUE, patchBLEProd(res))

\* cacheResponse, the cloud has not: the entry stands in for the result, and
\* counts as the whole patch (ok || patchBLEProd); without one the error stays.
CacheStandsIn(k) ==
    /\ Handles("send", FALSE, [x \in {k} |-> cache[x]])
    /\ UNCHANGED cache

\* cacheBLEDevList: the devices the cloud accepts are kept one by one; those it
\* denies stay as they were.
CacheList(authed) ==
    LET res == [x \in authed |-> Raw(cloud[x])]
    IN /\ cache' = Remember(res)
       /\ Handles(IF \E k \in authed : cache[k] # res[k] THEN "write" ELSE "send", TRUE, res)

\* Without an answer the list names the devices of the request that are known.
ListStandsIn(asked) ==
    /\ Handles("send", FALSE, [x \in {k \in asked : Hit(k)} |-> cache[x]])
    /\ UNCHANGED cache

\* Fault: the response is sent before the file is complete.
WriteLater ==
    /\ pc = "write"
    /\ pc' = "send"
    /\ UNCHANGED <<cloud, cache, reply, sent, given, fileVars>>

\* store.Set: WriteFile truncates the file and writes the whole cache.
WriteFile ==
    /\ pc = "write"
    /\ file' = cache /\ behind' = FALSE
    /\ pc' = "send"
    /\ UNCHANGED <<cloud, cache, reply, sent, given, torn, lost>>

\* Its error is dropped: the truncated file stays (disk full), or the old one, that
\* could not be opened (mounted read-only, no descriptor left).
WriteFails ==
    /\ pc = "write"
    /\ \/ file' = Torn /\ torn' = TRUE /\ behind' = FALSE
       \/ behind' = TRUE /\ UNCHANGED <<file, torn>>
    /\ pc' = "send"
    /\ UNCHANGED <<cloud, cache, reply, sent, given, lost>>

\* miio.Send, after the hooks.
Send ==
    /\ pc = "send"
    /\ pc' = "idle"
    /\ sent' = reply
    /\ reply' = NoReply
    /\ given' = [k \in Keys |-> IF k \in DOMAIN reply.res /\ given[k] < reply.res[k].version
                                THEN reply.res[k].version ELSE given[k]]
    /\ UNCHANGED <<cloud, cache, fileVars>>
-----------------------------------------------------------------------------
\* The process is killed; in WriteFile that leaves the old file, the new one, or
\* one truncated in between.
Crash ==
    /\ pc # "down"
    /\ pc' = "down"
    /\ file' \in {file} \cup (IF pc = "write" THEN {cache, Torn} ELSE {})
    /\ torn' = (torn \/ file' = Torn)
    /\ behind' = FALSE /\ lost' = (lost \/ (behind /\ file' \notin {cache, Torn}))
    /\ reply' = NoReply /\ sent' = NoReply
    /\ cache' = Empty
    /\ UNCHANGED <<cloud, given>>

\* What can be read from the file: one that cannot be parsed counts as none.
Saved == IF file = Torn THEN Empty ELSE file

\* store.Init and cache.Init.
Start ==
    /\ pc = "down"
    /\ pc' = "idle"
    /\ cache' = Saved
    /\ UNCHANGED <<cloud, reply, sent, given, fileVars>>

CloudChanges(k) ==
    /\ cloud[k] < MaxVersion
    /\ cloud' = [cloud EXCEPT ![k] = @ + 1]
    /\ UNCHANGED <<pc, cache, reply, sent, given, fileVars>>

Response ==
    \/ \E k \in Keys : CacheResult(k) \/ CacheStandsIn(k)
    \/ \E ds \in SUBSET Devs : CacheList(ds) \/ ListStandsIn(ds)

Next ==
    \/ Response
    \/ WriteFile \/ WriteFails \/ Send
    \/ Crash \/ Start
    \/ \E k \in Keys : CloudChanges(k)

Spec == Init /\ [][Next]_vars
-----------------------------------------------------------------------------
Entries == [Keys -> Result \cup {Absent}]

IsReply(r) ==
    /\ r.live \in BOOLEAN /\ DOMAIN r.res \subseteq Keys
    /\ \A k \in DOMAIN r.res : r.res[k] \in Result \/ (~r.live /\ r.res[k] = Absent)

TypeOK ==
    /\ cloud \in [Keys -> Versions]
    /\ pc \in {"idle", "write", "send", "down"}
    /\ cache \in Entries /\ file \in Entries \cup {Torn}
    /\ IsReply(reply) /\ IsReply(sent)
    /\ given \in [Keys -> 0..MaxVersion] /\ {torn, behind, lost} \subseteq BOOLEAN

\* An entry that stands in for the cloud is never older than one an app was given
\* before, also when the process was killed, and when writes fail or are cut short
\* (cache_res.go:25-38, store.go:34-50); unless the process was killed after a write
\* that could not open the file and before one that could, and started again from
\* the old file.
NeverStale ==
    ~lost /\ ~sent.live => \A k \in DOMAIN sent.res :
       sent.res[k] # Absent => sent.res[k].version >= given[k]

Known(k) == (IF pc = "idle" THEN cache ELSE Saved)[k].version

\* And as long as the file was never cut short either, a process that starts again
\* knows whatever an app was ever given: the answer is in the file before the app
\* has it.
StartsKnowing ==
    ~torn /\ ~lost /\ pc \in {"down", "idle"} => \A k \in Keys : Known(k) >= given[k]

\* The first without the exception: what is kept are the answers of the cloud
\* "for process BLE sensors without Integrnet" (README.md:61).
NeverStaleAtAll ==
    ~sent.live => \A k \in DOMAIN sent.res :
       sent.res[k] # Absent => sent.res[k].version >= given[k]

\* "process BLE sensors without Integrnet" (README.md:61): it knows it anyhow.
AlwaysKnows == pc \in {"down", "idle"} => \A k \in Keys : Known(k) >= given[k]

\* "Fix difference for BLE specs" (README.md:14): a spec the Bluetooth app is
\* given has the corrected intervals.
SpecsFixed == \A k \in DOMAIN sent.res \cap Prods : sent.res[k] # Absent => sent.res[k].fixed
=============================================================================
