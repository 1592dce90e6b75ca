--------------------------- MODULE TemplateCache_proofs ---------------------------
(***************************************************************************)
(* Proofs about TemplateCache, for any versions, files, arguments, time to   *)
(* live, forced updates, failures and crashes: what a run loads is whole and *)
(* not stale, unless a later path of the run has had the directory removed,  *)
(* or a removal left it in part under metadata that is believed.             *)
(***************************************************************************)
EXTENDS TemplateCache, TLAPS

(***************************************************************************)
(* The inductive invariants.                                               *)
(***************************************************************************)
\* Where a run is at an argument, and has a version in memory.
PlaceInv ==
    /\ pc \in {"check", "download", "wipe", "extract", "stamp"} =>
          at \in 1..Len(args) /\ args \in Seq(Subpaths)
    /\ pc \in {"wipe", "extract", "stamp"} => zip \in Versions

Typed == TypeOK /\ PlaceInv

\* Version v was the head of the branch at time t, or later.
HeadSince(v, t) == v = upstream \/ superseded[v] >= t

\* Some version is whole on disk for the path of the metadata, and was the head of the
\* branch when it was downloaded, or later.
Backed == \E v \in Versions : /\ Whole(v, meta.subpath, dir)
                             /\ HeadSince(v, meta.downloadedAt)

\* Believable metadata has a whole directory behind it, unless a removal left it in
\* part.  What a run has resolved and not removed since is the path of the metadata.
DiskInv ==
    /\ meta.kind = "valid" => meta.downloadedAt <= now
    /\ Believable /\ ~spoiled => Backed
    /\ pc # "idle" /\ kept # {} => kept = {meta.subpath} /\ Believable
    /\ pc \in {"extract", "stamp"} => kept = {} /\ (~spoiled => meta = NoMeta)
    /\ pc \in {"wipe", "extract", "stamp"} => zip = upstream

\* What is extracted so far into an empty directory is of the version in memory.
ExtractInv ==
    /\ pc = "extract" /\ ~spoiled =>
          /\ todo \subseteq FilesOf[zip][Subpath]
          /\ Subpath \in subdirs => FilesOf[zip][Subpath] # {}
          /\ \A f \in Under(Subpath) :
                dir[f] = IF f \in FilesOf[zip][Subpath] \ todo THEN zip ELSE 0
    /\ pc = "stamp" /\ ~spoiled => Whole(zip, Subpath, dir)

\* Loads happened in the past, of versions the module knows.
ServedInv == \A r \in served : r.at \in Nat /\ r.at <= now

\* The strengthening of LoadsComplete and NotStale.
CacheInv == DiskInv /\ ExtractInv /\ ServedInv /\ LoadsComplete /\ NotStale

(***************************************************************************)
(* Types.                                                                  *)
(***************************************************************************)
\* What the constants are.
LEMMA Constants ==
    /\ Arguments \subseteq Seq(Subpaths) /\ << >> \notin Arguments
    /\ Ttl \in Nat /\ MaxTime \in Nat /\ MaxVersions \in Nat \ {0}
    /\ MayUpdate \in BOOLEAN
    /\ \A v \in Versions, s \in Subpaths : FilesOf[v][s] \subseteq Under(s)
    /\ \A s \in Subpaths : Under(s) \subseteq Files
BY CacheAssumption DEF Under, Files

\* The argument at hand.
LEMMA AtArgument ==
    ASSUME Typed, pc \in {"check", "download", "wipe", "extract", "stamp"}
    PROVE  /\ args \in Seq(Subpaths) /\ at \in 1..Len(args) /\ at \in Nat
           /\ Subpath \in Subpaths
BY DEF Typed, PlaceInv, Subpath

\* Going on to the next argument keeps the place.
LEMMA NextPlace ==
    ASSUME Typed, pc \in {"check", "download", "wipe", "extract", "stamp"}, NextArgument,
           UNCHANGED args
    PROVE  /\ at' \in 1..(Len(args) + 1)
           /\ pc' \in {"check", "load"}
           /\ pc' = "check" => at' \in 1..Len(args)
           /\ pc' = "load" => at' = Len(args) + 1
BY AtArgument DEF NextArgument

\* A run starts with what it is given.
LEMMA StartTyped == ASSUME Typed, StartRun PROVE Typed'
<1> USE DEF StartRun
<1>1. args' \in Seq(Subpaths) /\ args' # << >> /\ Len(args') \in Nat \ {0}
  BY Constants
<1>2. TypeOK'
  <2>1. force' \in BOOLEAN /\ at' \in 1..(Len(args') + 1) /\ resolved' \in Seq(Subpaths)
    <3>1. force' \in {FALSE, MayUpdate} /\ at' = 1 /\ resolved' = << >>
      OBVIOUS
    <3>2. << >> \in Seq(Subpaths)
      OBVIOUS
    <3>3. 1 \in 1..(Len(args') + 1)
      BY <1>1
    <3>4. force' \in BOOLEAN
      BY <3>1, Constants
    <3> QED BY <3>1, <3>2, <3>3, <3>4
  <2>2. UNCHANGED <<now, upstream, superseded, subdirs, dir, meta, zip, todo>>
    BY DEF world, disk
  <2> QED BY <2>1, <2>2 DEF Typed, TypeOK
<1>3. PlaceInv'
  BY <1>1 DEF PlaceInv
<1> QED BY <1>2, <1>3 DEF Typed

\* The steps of a call that goes on with what it has.
LEMMA ResolveTyped ==
    ASSUME Typed, CacheMiss \/ Download \/ CreateDir \/ RemoveEntry \/ ExtractFile
    PROVE  Typed'
<1>1. CASE CacheMiss
  BY <1>1 DEF CacheMiss, Typed, TypeOK, PlaceInv, world, disk, job, ghosts
<1>2. CASE Download
  <2>1. upstream \in Versions /\ Versions \subseteq 0..MaxVersions
    BY Constants DEF Typed, TypeOK, Versions
  <2> QED BY <1>2, <2>1 DEF Download, Typed, TypeOK, PlaceInv, world, disk, job, ghosts
<1>3. CASE CreateDir
  <2>1. pc = "wipe" /\ todo' = FilesOf[zip][Subpath] /\ pc' = "extract"
    BY <1>3 DEF CreateDir
  <2>2. todo' \subseteq Files
    BY <2>1, AtArgument, Constants DEF Typed, PlaceInv
  <2> QED BY <1>3, <2>1, <2>2 DEF CreateDir, Typed, TypeOK, PlaceInv, world, disk, job, ghosts
<1>4. CASE RemoveEntry
  <2>1. pc = "wipe" /\ UNCHANGED <<now, upstream, superseded, pc, force, args, at, zip, todo,
                                   resolved, served>>
        /\ spoiled' \in BOOLEAN /\ kept' = {}
    BY <1>4 DEF RemoveEntry, Believable, Fresh, world, job, Typed, TypeOK
  <2>2. dir' \in [Files -> 0..MaxVersions] /\ subdirs' \subseteq Subpaths /\ meta' \in Meta
    <3>1. dir \in [Files -> 0..MaxVersions] /\ subdirs \subseteq Subpaths /\ meta \in Meta
          /\ 0 \in 0..MaxVersions /\ NoMeta \in Meta
      BY Constants DEF Typed, TypeOK, Meta
    <3>2. CASE \E f \in Files : dir' = [dir EXCEPT ![f] = 0] /\ UNCHANGED <<subdirs, meta>>
      BY <3>1, <3>2
    <3>3. CASE \E s \in subdirs : subdirs' = subdirs \ {s} /\ UNCHANGED <<dir, meta>>
      BY <3>1, <3>3
    <3>4. CASE meta' = NoMeta /\ UNCHANGED <<subdirs, dir>>
      BY <3>1, <3>4
    <3> QED BY <1>4, <3>2, <3>3, <3>4 DEF RemoveEntry
  <2> QED BY <2>1, <2>2 DEF Typed, TypeOK, PlaceInv
<1>5. CASE ExtractFile
  <2>1. /\ pc = "extract" /\ UNCHANGED <<now, upstream, superseded, meta, pc, force, args, at,
                                         zip, resolved, ghosts>>
    BY <1>5 DEF ExtractFile, world, job
  <2>2. dir' \in [Files -> 0..MaxVersions] /\ subdirs' \subseteq Subpaths /\ todo' \subseteq Files
    BY <1>5 DEF ExtractFile, Typed, TypeOK
  <2> QED BY <2>1, <2>2 DEF Typed, TypeOK, PlaceInv, ghosts
<1> QED BY <1>1, <1>2, <1>3, <1>4, <1>5

\* The steps that end a call, well or badly.
LEMMA EndTyped ==
    ASSUME Typed,
           UseCache \/ DownloadFails \/ Extracted \/ ExtractFails \/ WriteMetadata \/ WriteFails
    PROVE  Typed'
<1>0. pc \in {"check", "download", "wipe", "extract", "stamp"}
  BY DEF UseCache, DownloadFails, Extracted, ExtractFails, WriteMetadata, WriteFails
<1>1. /\ UNCHANGED <<now, upstream, superseded, subdirs, dir, force, args, zip, served>>
      /\ todo' \in {todo, {}}
  BY DEF UseCache, DownloadFails, Extracted, ExtractFails, WriteMetadata, WriteFails,
         world, disk, job
<1>2. Stamp(Subpath) \in Meta /\ TornMeta \in Meta
  BY <1>0, AtArgument DEF Meta, Stamp, Typed, TypeOK
<1>3. meta' \in Meta
  BY <1>2 DEF UseCache, DownloadFails, Extracted, ExtractFails, WriteMetadata, WriteFails,
              disk, Typed, TypeOK
<1>4. resolved' \in Seq(Subpaths) /\ spoiled' \in BOOLEAN /\ kept' \subseteq Subpaths
  <2>1. Append(resolved, Subpath) \in Seq(Subpaths)
    BY <1>0, AtArgument DEF Typed, TypeOK
  <2> QED BY <1>0, <2>1, AtArgument DEF UseCache, DownloadFails, Extracted, ExtractFails,
             WriteMetadata, WriteFails, Resolve, GiveUp, Typed, TypeOK
<1>5. \/ NextArgument
      \/ pc = "extract" /\ pc' = "stamp" /\ at' = at
  BY DEF UseCache, DownloadFails, Extracted, ExtractFails, WriteMetadata, WriteFails,
         Resolve, GiveUp
<1>6. CASE NextArgument
  BY <1>0, <1>1, <1>3, <1>4, <1>6, NextPlace DEF Typed, TypeOK, PlaceInv
<1>7. CASE pc = "extract" /\ pc' = "stamp" /\ at' = at
  BY <1>1, <1>3, <1>4, <1>7 DEF Typed, TypeOK, PlaceInv
<1> QED BY <1>5, <1>6, <1>7

\* Loads, crashes and the world outside.
LEMMA OtherTyped ==
    ASSUME Typed, Load \/ Crash \/ Tick \/ Publish
    PROVE  Typed'
<1>1. CASE Load
  <2>1. \A r \in served' : /\ r.subpath \in Subpaths
                           /\ r.content \in [Under(r.subpath) -> 0..MaxVersions]
    <3> SUFFICES ASSUME NEW i \in DOMAIN resolved
                 PROVE  /\ Loaded(resolved[i]).subpath \in Subpaths
                        /\ Loaded(resolved[i]).content
                              \in [Under(Loaded(resolved[i]).subpath) -> 0..MaxVersions]
      BY <1>1 DEF Load
    <3>1. resolved[i] \in Subpaths
      BY DEF Typed, TypeOK
    <3> QED BY <3>1, Constants DEF Loaded, Typed, TypeOK
  <2> QED BY <1>1, <2>1 DEF Load, Typed, TypeOK, PlaceInv, world, disk, job
<1>2. CASE Crash
  <2>1. meta' \in Meta
    BY <1>2 DEF Crash, Meta, Typed, TypeOK
  <2> QED BY <1>2, <2>1 DEF Crash, Typed, TypeOK, PlaceInv, world, job, ghosts
<1>3. CASE Tick
  <2>1. now' \in 0..MaxTime
    BY <1>3, Constants DEF Tick, Typed, TypeOK
  <2> QED BY <1>3, <2>1 DEF Tick, Typed, TypeOK, PlaceInv, disk, job, ghosts
<1>4. CASE Publish
  <2>1. upstream' \in Versions /\ superseded' \in [Versions -> 0..MaxTime]
    BY <1>4, Constants DEF Publish, Versions, Typed, TypeOK
  <2> QED BY <1>4, <2>1 DEF Publish, Typed, TypeOK, PlaceInv, disk, job, ghosts
<1> QED BY <1>1, <1>2, <1>3, <1>4

\* The types hold at first, and every step keeps them.
LEMMA TypedHolds == (Init => Typed) /\ (Typed /\ [Next]_vars => Typed')
<1>1. Init => Typed
  <2> SUFFICES ASSUME Init PROVE Typed
    OBVIOUS
  <2>1. << >> \in Seq(Subpaths) /\ Len(<< >>) = 0
    OBVIOUS
  <2>2. now \in 0..MaxTime /\ upstream \in Versions /\ zip \in 0..MaxVersions
    BY Constants DEF Init, Versions
  <2>3. superseded \in [Versions -> 0..MaxTime] /\ dir \in [Files -> 0..MaxVersions]
    BY Constants DEF Init
  <2>4. meta \in Meta /\ at \in 1..(Len(args) + 1) /\ resolved \in Seq(Subpaths)
    BY <2>1 DEF Init, Meta
  <2> QED BY <2>2, <2>3, <2>4 DEF Init, Typed, TypeOK, PlaceInv
<1>2. ASSUME Typed, UNCHANGED vars PROVE Typed'
  BY <1>2 DEF vars, world, disk, job, ghosts, Typed, TypeOK, PlaceInv
<1>3. ASSUME Typed, Next PROVE Typed'
  BY <1>3, StartTyped, ResolveTyped, EndTyped, OtherTyped DEF Next
<1> QED BY <1>1, <1>2, <1>3

\* Types hold throughout.
THEOREM CacheTypeCorrect == Spec => []TypeOK
<1>1. Typed => TypeOK
  BY DEF Typed
<1> QED BY <1>1, TypedHolds, PTL DEF Spec

(***************************************************************************)
(* What a run loads.                                                       *)
(***************************************************************************)
\* Where neither the directory nor the world changes, the same is believed, and it has
\* the same behind it.
LEMMA SameDisk ==
    ASSUME DiskInv, UNCHANGED <<world, disk, spoiled>>
    PROVE  /\ meta'.kind = "valid" => meta'.downloadedAt <= now'
           /\ Believable' = Believable
           /\ Believable' /\ ~spoiled' => Backed'
<1>1. Believable' = Believable
  BY DEF Believable, Fresh, world, disk
<1>2. Backed => Backed'
  BY DEF Backed, HeadSince, world, disk
<1> QED BY <1>1, <1>2 DEF DiskInv, world, disk

\* What was loaded before stays as it was.
LEMMA SameServed ==
    ASSUME CacheInv, UNCHANGED <<world>>, served' \in {served, {}}
    PROVE  ServedInv' /\ LoadsComplete' /\ NotStale'
BY DEF CacheInv, ServedInv, LoadsComplete, NotStale, world

\* Starting, checking and downloading touch nothing on disk.  A hit adds the path of
\* the metadata to those resolved, and only that.
LEMMA CheckKept ==
    ASSUME Typed, CacheInv,
           StartRun \/ UseCache \/ CacheMiss \/ Download \/ DownloadFails
    PROVE  CacheInv'
<1> USE DEF CacheInv
<1>0. /\ UNCHANGED <<world, disk, spoiled>> /\ served' \in {served, {}}
      /\ pc' \notin {"extract", "stamp"}
      /\ pc' = "wipe" => zip' = upstream
  BY DEF StartRun, UseCache, CacheMiss, Download, DownloadFails, Resolve, GiveUp, NextArgument,
         ghosts
<1>1. ServedInv' /\ LoadsComplete' /\ NotStale'
  BY <1>0, SameServed
<1>2. pc' # "idle" /\ kept' # {} => kept' = {meta'.subpath} /\ Believable'
  <2>1. CASE StartRun
    BY <2>1 DEF StartRun
  <2>2. CASE UseCache
    <3>1. Believable /\ meta.subpath = Subpath /\ kept' = kept \cup {Subpath} /\ pc = "check"
      BY <2>2 DEF UseCache, CacheHit, Resolve
    <3> QED BY <1>0, <3>1, SameDisk DEF DiskInv, disk
  <2>3. CASE CacheMiss \/ Download \/ DownloadFails
    <3>1. UNCHANGED <<kept>> /\ pc # "idle"
      BY <2>3 DEF CacheMiss, Download, DownloadFails, GiveUp, ghosts
    <3> QED BY <1>0, <3>1, SameDisk DEF DiskInv, disk
  <2> QED BY <2>1, <2>2, <2>3
<1>3. DiskInv'
  BY <1>0, <1>2, SameDisk DEF DiskInv, world
<1> QED BY <1>0, <1>1, <1>3 DEF ExtractInv

\* A removal that takes the metadata leaves nothing to believe; one that takes
\* something else leaves believable metadata only with the mark.
LEMMA RemoveKept ==
    ASSUME Typed, CacheInv, RemoveEntry
    PROVE  CacheInv'
<1> USE DEF CacheInv
<1>0. UNCHANGED <<world, pc, zip, served>> /\ pc = "wipe" /\ kept' = {}
  BY DEF RemoveEntry
<1>1. ServedInv' /\ LoadsComplete' /\ NotStale'
  BY <1>0, SameServed
<1>2. \/ meta' = meta /\ spoiled' = (spoiled \/ Believable)
      \/ meta' = NoMeta
  BY DEF RemoveEntry
<1>3. /\ meta'.kind = "valid" => meta'.downloadedAt <= now'
      /\ Believable' => spoiled'
  <2>1. now' = now
    BY <1>0 DEF world
  <2>2. CASE meta' = meta /\ spoiled' = (spoiled \/ Believable)
    <3>1. Believable' = Believable
      BY <2>1, <2>2 DEF Believable, Fresh
    <3> QED BY <2>1, <2>2, <3>1 DEF DiskInv
  <2>3. CASE meta' = NoMeta
    BY <2>3 DEF Believable, NoMeta
  <2> QED BY <1>2, <2>2, <2>3
<1> QED BY <1>0, <1>1, <1>3 DEF DiskInv, ExtractInv, world

\* Extraction that is not marked begins in an empty directory, and writes the files of
\* one version under one path into it.
LEMMA ExtractKept ==
    ASSUME Typed, CacheInv, CreateDir \/ ExtractFile \/ Extracted
    PROVE  CacheInv'
<1> USE DEF CacheInv
<1>0. /\ UNCHANGED <<world, meta, zip, args, served>>
      /\ pc \in {"wipe", "extract"} /\ zip = upstream /\ kept' = {}
      /\ zip \in Versions /\ Subpath \in Subpaths
  <2>1. pc \in {"wipe", "extract"} /\ UNCHANGED <<world, meta, zip, args, served>>
    BY DEF CreateDir, ExtractFile, Extracted, disk, job, ghosts
  <2>2. kept' = {}
    BY DEF CreateDir, ExtractFile, Extracted, GiveUp, DiskInv, ghosts
  <2> QED BY <2>1, <2>2, AtArgument DEF DiskInv, Typed, PlaceInv
<1>1. ServedInv' /\ LoadsComplete' /\ NotStale'
  BY <1>0, SameServed
<1>2. meta'.kind = "valid" => meta'.downloadedAt <= now'
  BY <1>0 DEF DiskInv, world
<1>3. CASE CreateDir
  <2>1. /\ pc' = "extract" /\ UNCHANGED <<dir, subdirs, at>> /\ spoiled' = ~Empty
        /\ todo' = FilesOf[zip][Subpath]
    BY <1>3 DEF CreateDir, disk
  <2>2. ~spoiled' => meta' = NoMeta /\ subdirs = {} /\ \A f \in Under(Subpath) : dir[f] = 0
    BY <1>0, <2>1, Constants DEF Empty
  <2>3. Subpath' = Subpath
    BY <1>0, <2>1 DEF Subpath
  <2>4. ExtractInv'
    BY <1>0, <2>1, <2>2, <2>3 DEF ExtractInv
  <2>5. Believable' => spoiled'
    BY <2>2 DEF Believable, NoMeta
  <2> QED BY <1>0, <1>1, <1>2, <2>1, <2>2, <2>4, <2>5 DEF DiskInv, world
<1>4. CASE ExtractFile
  <2>1. PICK f \in todo : /\ dir' = [dir EXCEPT ![f] = zip]
                          /\ subdirs' = subdirs \cup {s \in Subpaths \ {""} : f \in Under(s)}
                          /\ todo' = todo \ {f}
    BY <1>4 DEF ExtractFile
  <2>2. pc = "extract" /\ pc' = "extract" /\ UNCHANGED <<spoiled, at>>
    BY <1>4 DEF ExtractFile, ghosts
  <2>3. dir \in [Files -> 0..MaxVersions] /\ todo \subseteq Files
    BY DEF Typed, TypeOK
  <2>4. Subpath' = Subpath
    BY <1>0, <2>2 DEF Subpath
  <2>5. ASSUME ~spoiled
        PROVE  /\ todo' \subseteq FilesOf[zip][Subpath]
               /\ FilesOf[zip][Subpath] # {}
               /\ \A g \in Under(Subpath) :
                     dir'[g] = IF g \in FilesOf[zip][Subpath] \ todo' THEN zip ELSE 0
    <3>1. /\ todo \subseteq FilesOf[zip][Subpath]
          /\ \A g \in Under(Subpath) :
                dir[g] = IF g \in FilesOf[zip][Subpath] \ todo THEN zip ELSE 0
      BY <2>2, <2>5 DEF ExtractInv
    <3>2. f \in FilesOf[zip][Subpath] /\ Under(Subpath) \subseteq Files
      BY <1>0, <3>1, Constants
    <3> QED BY <2>1, <2>3, <3>1, <3>2
  <2>6. ExtractInv'
    BY <1>0, <2>2, <2>4, <2>5 DEF ExtractInv
  <2>7. ~spoiled' => meta' = NoMeta
    BY <1>0, <2>2 DEF DiskInv
  <2>8. Believable' => spoiled'
    BY <2>7 DEF Believable, NoMeta
  <2> QED BY <1>0, <1>1, <1>2, <2>2, <2>6, <2>7, <2>8 DEF DiskInv, world
<1>5. CASE Extracted
  <2>1. pc = "extract" /\ todo = {} /\ UNCHANGED <<dir, subdirs, todo, spoiled>>
    BY <1>5 DEF Extracted, disk
  <2>2. ~spoiled' => meta' = NoMeta
    BY <1>0, <2>1 DEF DiskInv
  <2>3. Believable' => spoiled'
    BY <2>2 DEF Believable, NoMeta
  <2>4. CASE PathExists(Subpath)
    <3>1. pc' = "stamp" /\ UNCHANGED at
      BY <1>5, <2>1, <2>4 DEF Extracted
    <3>2. Subpath' = Subpath
      BY <1>0, <3>1 DEF Subpath
    <3>3. ~spoiled => Whole(zip, Subpath, dir)
      BY <2>1, <2>4 DEF Whole, PathExists, ExtractInv
    <3>4. ExtractInv'
      BY <1>0, <2>1, <3>1, <3>2, <3>3 DEF ExtractInv
    <3> QED BY <1>0, <1>1, <1>2, <2>2, <2>3, <3>1, <3>4 DEF DiskInv, world
  <2>5. CASE ~PathExists(Subpath)
    <3>1. pc' \in {"check", "load"}
      BY <1>5, <2>5 DEF Extracted, GiveUp, NextArgument
    <3> QED BY <1>0, <1>1, <1>2, <2>3, <3>1 DEF DiskInv, ExtractInv
  <2> QED BY <2>4, <2>5
<1> QED BY <1>3, <1>4, <1>5

\* A call that fails leaves the directory as it is.
LEMMA FailKept ==
    ASSUME Typed, CacheInv, ExtractFails
    PROVE  CacheInv'
<1> USE DEF CacheInv
<1>0. /\ UNCHANGED <<world, disk, spoiled, kept, served>> /\ pc # "idle"
      /\ pc' \in {"check", "load"}
  BY DEF ExtractFails, GiveUp, NextArgument
<1>1. ServedInv' /\ LoadsComplete' /\ NotStale'
  BY <1>0, SameServed
<1>2. kept' # {} => kept' = {meta'.subpath} /\ Believable'
  BY <1>0, SameDisk DEF DiskInv, disk
<1>3. DiskInv'
  BY <1>0, <1>2, SameDisk DEF DiskInv
<1> QED BY <1>0, <1>1, <1>3 DEF ExtractInv

\* The stamp is set on a whole directory of the head of the branch.
LEMMA StampKept ==
    ASSUME Typed, CacheInv, WriteMetadata \/ WriteFails
    PROVE  CacheInv'
<1> USE DEF CacheInv
<1>0. /\ UNCHANGED <<world, dir, subdirs, spoiled, served>>
      /\ pc = "stamp" /\ pc' \in {"check", "load"} /\ kept = {}
      /\ zip = upstream /\ zip \in Versions
      /\ ~spoiled => meta = NoMeta /\ Whole(zip, Subpath, dir)
  <2>1. /\ UNCHANGED <<world, dir, subdirs, spoiled, served>>
        /\ pc = "stamp" /\ pc' \in {"check", "load"}
    BY DEF WriteMetadata, WriteFails, Resolve, GiveUp, NextArgument
  <2> QED BY <2>1 DEF DiskInv, ExtractInv, Typed, PlaceInv
<1>1. ServedInv' /\ LoadsComplete' /\ NotStale' /\ ExtractInv'
  BY <1>0, SameServed DEF ExtractInv
<1>2. CASE WriteMetadata
  <2>1. /\ meta'.kind = "valid" /\ meta'.downloadedAt = now /\ meta'.subpath = Subpath
        /\ kept' = {Subpath}
    BY <1>0, <1>2 DEF WriteMetadata, Stamp, Resolve
  <2>2. now' = now /\ now \in Nat /\ Ttl \in Nat /\ upstream' = upstream
    BY <1>0, Constants DEF world, Typed, TypeOK
  <2>3. Believable'
    BY <2>1, <2>2 DEF Believable, Fresh
  <2>4. ~spoiled => Whole(zip, meta'.subpath, dir')
    BY <1>0, <2>1
  <2>5. ~spoiled => Backed'
    BY <1>0, <2>2, <2>4 DEF Backed, HeadSince
  <2>6. DiskInv'
    BY <1>0, <2>1, <2>2, <2>3, <2>5 DEF DiskInv
  <2> QED BY <1>1, <2>6
<1>3. CASE WriteFails
  <2>1. meta' \in {meta, TornMeta} /\ kept' = {}
    BY <1>0, <1>3 DEF WriteFails, GiveUp
  <2>2. /\ meta'.kind = "valid" => meta' = meta
        /\ Believable' => spoiled'
    BY <1>0, <2>1 DEF Believable, NoMeta, TornMeta
  <2>3. DiskInv'
    BY <1>0, <2>1, <2>2 DEF DiskInv, world
  <2> QED BY <1>1, <2>3
<1> QED BY <1>2, <1>3

\* What is loaded and intact is believed, so it is whole, and was the head of the branch
\* not longer than the time to live ago.
LEMMA LoadKept ==
    ASSUME Typed, CacheInv, Load
    PROVE  CacheInv'
<1> USE DEF CacheInv
<1>0. /\ UNCHANGED <<world, disk, spoiled, kept>>
      /\ pc = "load" /\ pc' = "idle"
      /\ served' = {Loaded(resolved[i]) : i \in DOMAIN resolved}
  BY DEF Load
<1>1. DiskInv' /\ ExtractInv'
  BY <1>0, SameDisk DEF DiskInv, ExtractInv
<1>2. now \in Nat /\ Ttl \in Nat /\ superseded \in [Versions -> 0..MaxTime] /\ MaxTime \in Nat
  BY Constants DEF Typed, TypeOK
<1>3. \A r \in served' : r.at = now
  BY <1>0 DEF Loaded
<1>4. ASSUME NEW r \in served', r.intact
      PROVE  \E v \in Versions :
                /\ Whole(v, r.subpath, r.content)
                /\ v = upstream \/ now - superseded[v] <= Ttl
  <2>1. PICK i \in DOMAIN resolved : r = Loaded(resolved[i])
    BY <1>0
  <2>2. /\ r.subpath \in kept /\ ~spoiled
        /\ r.content = [f \in Under(r.subpath) |-> dir[f]]
    BY <1>4, <2>1 DEF Loaded
  <2>3. Believable /\ r.subpath = meta.subpath
    BY <1>0, <2>2 DEF DiskInv
  <2>4. PICK v \in Versions : Whole(v, meta.subpath, dir) /\ HeadSince(v, meta.downloadedAt)
    BY <2>2, <2>3 DEF DiskInv, Backed
  <2>5. Whole(v, r.subpath, r.content)
    BY <2>2, <2>3, <2>4 DEF Whole
  <2>6. v = upstream \/ now - superseded[v] <= Ttl
    <3>1. now - meta.downloadedAt <= Ttl /\ meta.kind = "valid"
      BY <2>3 DEF Believable, Fresh
    <3>2. meta.downloadedAt \in Nat
      BY <1>2, <3>1 DEF Typed, TypeOK, Meta, NoMeta, TornMeta
    <3>3. superseded[v] \in Nat
      BY <1>2
    <3> QED BY <1>2, <2>4, <3>1, <3>2, <3>3 DEF HeadSince
  <2> QED BY <2>5, <2>6
<1>5. ServedInv'
  BY <1>0, <1>2, <1>3 DEF ServedInv, world
<1>6. LoadsComplete'
  <2>1. \A r \in served' : r.intact => \E v \in Versions : Whole(v, r.subpath, r.content)
    BY <1>4
  <2> QED BY <2>1 DEF LoadsComplete
<1>7. NotStale'
  <2> SUFFICES ASSUME NEW r \in served', r.intact, NEW f \in Under(r.subpath),
                      r.content[f] \in 1..(upstream - 1)
               PROVE  r.at - superseded[r.content[f]] <= Ttl
    BY <1>0 DEF NotStale, world
  <2>1. PICK v \in Versions :
           /\ r.content[f] = IF f \in FilesOf[v][r.subpath] THEN v ELSE 0
           /\ v = upstream \/ now - superseded[v] <= Ttl
    <3>1. PICK v \in Versions :
             /\ Whole(v, r.subpath, r.content)
             /\ v = upstream \/ now - superseded[v] <= Ttl
      BY <1>4
    <3> QED BY <3>1 DEF Whole
  <2>2. r.content[f] = v /\ v # upstream
    <3>1. upstream \in Nat
      BY Constants DEF Typed, TypeOK, Versions
    <3> QED BY <2>1, <3>1
  <2> QED BY <1>3, <2>1, <2>2
<1> QED BY <1>1, <1>5, <1>6, <1>7

\* Between runs time passes and the branch moves on; what was loaded before was not
\* stale then.
LEMMA OutsideKept ==
    ASSUME Typed, CacheInv, Crash \/ Tick \/ Publish
    PROVE  CacheInv'
<1> USE DEF CacheInv
<1>0. /\ UNCHANGED <<dir, subdirs, ghosts>> /\ pc' = "idle"
      /\ now \in Nat /\ Ttl \in Nat /\ MaxTime \in Nat
      /\ superseded \in [Versions -> 0..MaxTime] /\ upstream \in Versions
      /\ \A v \in Versions : v \in Nat
      /\ meta.kind = "valid" => meta.downloadedAt \in Nat /\ meta.downloadedAt <= now
  <2>1. meta.kind = "valid" => meta.downloadedAt \in 0..MaxTime
    BY DEF Typed, TypeOK, Meta, NoMeta, TornMeta
  <2>2. meta.kind = "valid" => meta.downloadedAt <= now
    BY DEF DiskInv
  <2>3. UNCHANGED <<dir, subdirs, ghosts>> /\ pc' = "idle"
    BY DEF Crash, Tick, Publish, disk
  <2> QED BY <2>1, <2>2, <2>3, Constants DEF Typed, TypeOK, Versions
<1>1. LoadsComplete' /\ ExtractInv'
  BY <1>0 DEF LoadsComplete, ExtractInv, ghosts
<1>2. CASE Crash
  <2>1. UNCHANGED world /\ (meta' = meta \/ meta' = TornMeta)
    BY <1>2 DEF Crash
  <2>2. ServedInv' /\ NotStale'
    BY <1>0, <2>1, SameServed DEF ghosts
  <2>3. /\ meta'.kind = "valid" => meta' = meta
        /\ Believable' => Believable /\ meta' = meta
    BY <2>1 DEF Believable, Fresh, TornMeta, world
  <2>4. Backed /\ meta' = meta => Backed'
    BY <1>0, <2>1 DEF Backed, HeadSince, world
  <2>5. DiskInv'
    BY <1>0, <2>1, <2>3, <2>4 DEF DiskInv, world, ghosts
  <2> QED BY <1>1, <2>2, <2>5
<1>3. CASE Tick
  <2>1. now' = now + 1 /\ UNCHANGED <<upstream, superseded, meta>>
    BY <1>3 DEF Tick, disk
  <2>2. ServedInv' /\ NotStale'
    BY <1>0, <2>1 DEF ServedInv, NotStale, ghosts
  <2>3. Believable' => Believable
    BY <1>0, <2>1 DEF Believable, Fresh
  <2>4. Backed => Backed'
    BY <1>0, <2>1 DEF Backed, HeadSince
  <2>5. DiskInv'
    BY <1>0, <2>1, <2>3, <2>4 DEF DiskInv, ghosts
  <2> QED BY <1>1, <2>2, <2>5
<1>4. CASE Publish
  <2>1. /\ upstream' = upstream + 1 /\ superseded' = [superseded EXCEPT ![upstream] = now]
        /\ UNCHANGED <<now, meta>>
    BY <1>4 DEF Publish, disk
  <2>2. /\ superseded'[upstream] = now
        /\ \A v \in Versions \ {upstream} : superseded'[v] = superseded[v]
    BY <1>0, <2>1
  <2>3. Believable' = Believable
    BY <2>1 DEF Believable, Fresh
  <2>4. ASSUME Believable, Backed PROVE Backed'
    <3>1. PICK v \in Versions : Whole(v, meta.subpath, dir) /\ HeadSince(v, meta.downloadedAt)
      BY <2>4 DEF Backed
    <3>2. meta.downloadedAt \in Nat /\ meta.downloadedAt <= now
      BY <1>0, <2>4 DEF Believable
    <3>3. superseded'[v] >= meta.downloadedAt
      BY <1>0, <2>2, <3>1, <3>2 DEF HeadSince
    <3> QED BY <1>0, <2>1, <3>1, <3>3 DEF Backed, HeadSince
  <2>5. DiskInv'
    BY <1>0, <2>1, <2>3, <2>4 DEF DiskInv, ghosts
  <2>6. ServedInv'
    BY <1>0, <2>1 DEF ServedInv, ghosts
  <2>7. NotStale'
    <3> SUFFICES ASSUME NEW r \in served, r.intact, NEW f \in Under(r.subpath),
                        r.content[f] \in 1..upstream
                 PROVE  r.at - superseded'[r.content[f]] <= Ttl
      BY <1>0, <2>1 DEF NotStale, ghosts
    <3>1. r.at \in Nat /\ r.at <= now
      BY DEF ServedInv
    <3>2. r.content[f] \in Versions
      BY <1>0, Constants DEF Versions
    <3>3. CASE r.content[f] = upstream
      BY <1>0, <2>2, <3>1, <3>3
    <3>4. CASE r.content[f] # upstream
      <4>1. r.content[f] \in 1..(upstream - 1)
        BY <1>0, <3>4
      <4> QED BY <2>2, <3>2, <3>4, <4>1 DEF NotStale
    <3> QED BY <3>3, <3>4
  <2> QED BY <1>1, <2>5, <2>6, <2>7
<1> QED BY <1>2, <1>3, <1>4

\* All together: before the first run there is no metadata, and every step keeps it.
LEMMA CacheInvHolds ==
    /\ Init => CacheInv
    /\ Typed /\ CacheInv /\ [Next]_vars => CacheInv'
<1>1. Init => CacheInv
  BY DEF Init, CacheInv, DiskInv, ExtractInv, ServedInv, LoadsComplete, NotStale, Believable,
         NoMeta
<1>2. ASSUME Typed, CacheInv, UNCHANGED vars PROVE CacheInv'
  <2>1. UNCHANGED <<world, disk, pc, args, at, zip, todo, spoiled, kept, served>>
    BY <1>2 DEF vars, job, ghosts
  <2>2. ServedInv' /\ LoadsComplete' /\ NotStale'
    BY <1>2, <2>1, SameServed
  <2>3. Believable' = Believable /\ (Believable' /\ ~spoiled' => Backed')
    BY <1>2, <2>1, SameDisk DEF CacheInv
  <2>4. DiskInv'
    BY <1>2, <2>1, <2>3 DEF CacheInv, DiskInv, world, disk
  <2>5. ExtractInv'
    BY <1>2, <2>1 DEF CacheInv, ExtractInv, Subpath, disk
  <2> QED BY <2>2, <2>4, <2>5 DEF CacheInv
<1>3. ASSUME Typed, CacheInv, Next PROVE CacheInv'
  BY <1>3, CheckKept, RemoveKept, ExtractKept, FailKept, StampKept, LoadKept, OutsideKept
     DEF Next
<1> QED BY <1>1, <1>2, <1>3

\* What a run loads is one version of the branch, whole, wherever the runs before it
\* were killed or failed, unless the record says it was removed since or left in part.
THEOREM LoadsCompleteHolds == Spec => []LoadsComplete
<1>1. CacheInv => LoadsComplete
  BY DEF CacheInv
<1> QED BY <1>1, TypedHolds, CacheInvHolds, PTL DEF Spec

\* And it was not superseded longer than the time to live before.
THEOREM NotStaleHolds == Spec => []NotStale
<1>1. CacheInv => NotStale
  BY DEF CacheInv
<1> QED BY <1>1, TypedHolds, CacheInvHolds, PTL DEF Spec
===================================================================================
