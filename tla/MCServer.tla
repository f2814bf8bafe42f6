------------------------------ MODULE MCServer ------------------------------
(***************************************************************************)
(* The server process, in instances of which a behaviour is one: requests  *)
(* of several update calls, and requests that give version numbers (both   *)
(* Transaction), and the caches that requests read through (Lookup).       *)
(***************************************************************************)
EXTENDS MCTransaction

CONSTANTS c1, null, absent

VARIABLES part,
    v_phase, v_work, v_disk, v_txUpd, v_sysUpd, v_force, v_schMod, v_loaded,
    v_ver, v_newMicro, v_cur, v_delta, v_log, v_depth, v_frames, v_tainted,
    lwork, lsaved, vars_of, updated, lforce, lschMod, ctmpl, up, itemCache,
    newobjCache, rootCache, rootCacheDirty, classCache, domainCache,
    refintCache, principal

versions == <<v_phase, v_work, v_disk, v_txUpd, v_sysUpd, v_force, v_schMod,
              v_loaded, v_ver, v_newMicro, v_cur, v_delta, v_log, v_depth,
              v_frames, v_tainted>>
caches == <<lwork, lsaved, vars_of, updated, lforce, lschMod, ctmpl, up,
            itemCache, newobjCache, rootCache, rootCacheDirty, classCache,
            domainCache, refintCache, principal>>

\* One item; data versions may be given, well or malformed, up to 1.1.1.
Data == {"data"}
OneContent == {0}
V == INSTANCE Transaction WITH
    Item <- OneData, SchemaItem <- {}, Content <- OneContent, Limit <- 0,
    Logging <- TRUE, Retargeted <- Data, MaxDepth <- 1, MaxMinor <- 1,
    MaxMicro <- 1, Malformed <- TRUE,
    phase <- v_phase, work <- v_work, disk <- v_disk, txUpd <- v_txUpd,
    sysUpd <- v_sysUpd, force <- v_force, schMod <- v_schMod, loaded <- v_loaded,
    ver <- v_ver, newMicro <- v_newMicro, cur <- v_cur, delta <- v_delta,
    log <- v_log, depth <- v_depth, frames <- v_frames, tainted <- v_tainted

\* One item, one class and two things the metadata may say of it.
OneUuid == {d1}
OneClass == {c1}
TwoKinds == {"k1", "k2"}
ThreePointers == {1, 2, 3}
L == INSTANCE Lookup WITH
    Uuid <- OneUuid, ClassName <- OneClass, Kind <- TwoKinds,
    Pointer <- ThreePointers, Null <- null, Absent <- absent,
    BaseChanges <- FALSE, work <- lwork, saved <- lsaved, force <- lforce,
    schMod <- lschMod

ASSUME L!ConstantsFit

NoCaches == /\ lwork = 0 /\ lsaved = 0 /\ vars_of = 0 /\ updated = 0
            /\ lforce = 0 /\ lschMod = 0 /\ ctmpl = 0 /\ up = 0
            /\ itemCache = 0 /\ newobjCache = 0 /\ rootCache = 0
            /\ rootCacheDirty = 0 /\ classCache = 0 /\ domainCache = 0
            /\ refintCache = 0 /\ principal = 0

MCInit == /\ part \in {"calls", "versions", "caches"}
          /\ Init /\ V!Init
          /\ IF part = "caches" THEN L!Init ELSE NoCaches

MCNext ==
    /\ UNCHANGED part
    /\ \/ part = "calls" /\ Next /\ UNCHANGED <<versions, caches>>
       \/ part = "versions" /\ V!Next /\ UNCHANGED <<vars, caches>>
       \/ part = "caches" /\ L!Next /\ UNCHANGED <<vars, versions>>

MCSpec == MCInit /\ [][MCNext]_<<part, vars, versions, caches>>

----------------------------------------------------------------------------
\* A commit that changes an item increases the version of its family, and the
\* item's new mtran stamp lies between the two versions: mtran tells which
\* items changed since a given version (Udb_Finish_Object, Udb_Do_Commit).
VersionsRise == V!VersionsAdvance

\* WriteLog precedes db_commit_transaction: whenever the committed items
\* change, the last log entry already describes the new state under its new
\* version, whatever crash or failure intervenes.
LoggedFirst == V!WriteAhead

\* What the caches of lookup.c have of a uuid, of the objects made in this
\* transaction and of the root object is what the database has, after rollbacks
\* and refused commits too, and the principal that updates are stamped with is
\* an object of the database (Udb_Uncache_Items, udb_transaction).
ItemsCurrent == part = "caches" => /\ L!ItemsCurrent /\ L!NewExact
                                   /\ L!RootCurrent /\ L!PrincipalKnown

\* A class found by name is the class of that name, and its cached domain and
\* integrity rule are those of the database and the metadata
\* (Udb_Uncache_Schema, Udb_Get_Relaction).
SchemaCurrent == part = "caches" => L!SchemaCurrent
============================================================================
