----------------------------- MODULE TemplateCache ------------------------------
(***************************************************************************)
(* The cache of remote templates (src/src/parser/template_resolver): a run  *)
(* of the program resolves its -t arguments one after the other, each from  *)
(* the cache directory or by a download into it, and then loads all the     *)
(* resolved paths (main.rs).  The module follows one repository and branch, *)
(* hence one cache directory, over many runs, one at a time, any of which   *)
(* may be killed between two operations on the file system.                *)
(*                                                                         *)
(* A file is a name with the version of the branch it was downloaded from;  *)
(* versions may differ in the files they have.  Time is counted in units    *)
(* far longer than a run: the clock stands still while a run is under way.  *)
(***************************************************************************)
EXTENDS Integers, Sequences

CONSTANTS
    FilesOf,        \* FilesOf[v][s]: the files of version v under subpath s
    Arguments,      \* what a run may be given: sequences of subpaths
    MayUpdate,      \* whether runs may be given --update-templates
    RemovalErrors,  \* whether remove_dir_all may fail part of the way
    Ttl,            \* CACHE_TTL_SECS
    MaxTime,        \* bound: the clock
    MaxVersions     \* bound: versions of the branch

Versions == 1..MaxVersions
Subpaths == DOMAIN FilesOf[1]
Under(s) == UNION {FilesOf[v][s] : v \in Versions}
Files == UNION {Under(s) : s \in Subpaths}

ASSUME CacheAssumption ==
    /\ Arguments \subseteq Seq(Subpaths) \ {<< >>}
    /\ {MayUpdate, RemovalErrors} \subseteq BOOLEAN
    /\ {Ttl, MaxTime} \subseteq Nat
    /\ MaxVersions \in Nat \ {0}
    /\ DOMAIN FilesOf = Versions
    /\ \A v \in Versions : DOMAIN FilesOf[v] = Subpaths

VARIABLES
    now,            \* the clock
    upstream,       \* the version at the head of the branch
    superseded,     \* per version: when the next one was published
    subdirs,        \* the subpaths whose directory exists in the cache directory
    dir,            \* per file: the version on disk, 0 for none
    meta,           \* .nuclei-run-cache.json: a record, absent, or torn by a crash
    pc,             \* where the run is; "idle" between runs
    force,          \* force_update
    args,           \* the paths of the run
    at,             \* the argument being resolved
    zip,            \* the version of the archive in memory
    todo,           \* files of the archive not yet written
    resolved,       \* the paths resolved so far
    spoiled,        \* history: the removal left the directory in part
    kept,           \* history: the paths of this run not removed since resolved
    served          \* history: what the run has loaded, per path

disk == <<subdirs, dir, meta>>
world == <<now, upstream, superseded>>
job == <<force, args>>
ghosts == <<spoiled, kept, served>>
vars == <<world, disk, pc, job, at, zip, todo, resolved, ghosts>>

NoMeta == [kind |-> "absent"]
TornMeta == [kind |-> "torn"]

Stamp(s) == [kind |-> "valid", subpath |-> s, downloadedAt |-> now]
Meta == {NoMeta, TornMeta}
    \cup [kind : {"valid"}, subpath : Subpaths, downloadedAt : 0..MaxTime]

TypeOK ==
    /\ now \in 0..MaxTime
    /\ upstream \in Versions
    /\ superseded \in [Versions -> 0..MaxTime]
    /\ subdirs \subseteq Subpaths
    /\ dir \in [Files -> 0..MaxVersions]
    /\ meta \in Meta
    /\ pc \in {"idle", "check", "download", "wipe", "extract", "stamp", "load"}
    /\ force \in BOOLEAN
    /\ args \in Arguments \cup {<< >>}
    /\ at \in 1..(Len(args) + 1)
    /\ zip \in 0..MaxVersions
    /\ todo \subseteq Files
    /\ resolved \in Seq(Subpaths)
    /\ spoiled \in BOOLEAN
    /\ kept \subseteq Subpaths
    /\ \A r \in served : r.subpath \in Subpaths /\ r.content \in [Under(r.subpath) -> 0..MaxVersions]

Init ==
    /\ now = 0 /\ upstream = 1
    /\ superseded = [v \in Versions |-> 0]
    /\ subdirs = {}
    /\ dir = [f \in Files |-> 0]
    /\ meta = NoMeta
    /\ pc = "idle" /\ force = FALSE /\ args = << >> /\ at = 1
    /\ zip = 0 /\ todo = {} /\ resolved = << >>
    /\ spoiled = FALSE /\ kept = {} /\ served = {}

StartRun ==
    /\ pc = "idle"
    /\ pc' = "check"
    /\ args' \in Arguments
    /\ force' \in {FALSE, MayUpdate}
    /\ at' = 1
    /\ resolved' = << >>
    /\ kept' = {}
    /\ served' = {}
    /\ UNCHANGED <<world, disk, zip, todo, spoiled>>

Subpath == args[at]

\* The empty subpath is the cache directory itself.
PathExists(s) == s = "" \/ s \in subdirs

\* Mutant of Fresh: the limit is off by one.
FreshTooLong(m) == now - m.downloadedAt <= Ttl + 1

Fresh(m) == now - m.downloadedAt <= Ttl

\* Metadata that check_cache believes, when it is asked for the same path.
Believable == meta.kind = "valid" /\ Fresh(meta)

CacheHit ==
    /\ ~force
    /\ Believable
    /\ meta.subpath = Subpath
    /\ PathExists(Subpath)

\* On to the next argument, or to the loading.
NextArgument ==
    /\ at' = at + 1
    /\ pc' = IF at = Len(args) THEN "load" ELSE "check"

Resolve ==
    /\ resolved' = Append(resolved, Subpath)
    /\ kept' = kept \cup {Subpath}
    /\ NextArgument

\* main reports the error and goes on with the other paths.
GiveUp ==
    /\ NextArgument
    /\ UNCHANGED <<resolved, kept>>

UseCache ==
    /\ pc = "check"
    /\ CacheHit
    /\ Resolve
    /\ UNCHANGED <<world, disk, job, zip, todo, spoiled, served>>

CacheMiss ==
    /\ pc = "check"
    /\ ~CacheHit
    /\ pc' = "download"
    /\ UNCHANGED <<world, disk, job, at, zip, todo, resolved, ghosts>>

Download ==
    /\ pc = "download"
    /\ zip' = upstream
    /\ pc' = "wipe"
    /\ UNCHANGED <<world, disk, job, at, todo, resolved, ghosts>>

DownloadFails ==
    /\ pc = "download"
    /\ GiveUp
    /\ UNCHANGED <<world, disk, job, zip, todo, spoiled, served>>

\* remove_dir_all takes the entries one by one, in the order of the directory: the
\* metadata may be the first to go, or the last.
RemoveEntry ==
    /\ pc = "wipe"
    /\ \/ /\ \/ \E f \in Files : /\ dir[f] # 0
                                 /\ dir' = [dir EXCEPT ![f] = 0]
                                 /\ UNCHANGED subdirs
             \/ \E s \in subdirs : /\ \A f \in Under(s) : dir[f] = 0
                                   /\ subdirs' = subdirs \ {s}
                                   /\ UNCHANGED dir
          /\ spoiled' = (spoiled \/ Believable)
          /\ UNCHANGED meta
       \/ /\ meta # NoMeta /\ meta' = NoMeta
          /\ spoiled' = FALSE
          /\ UNCHANGED <<subdirs, dir>>
    /\ kept' = {}
    /\ UNCHANGED <<world, pc, job, at, zip, todo, resolved, served>>

Empty == subdirs = {} /\ meta = NoMeta /\ \A f \in Files : dir[f] = 0

\* remove_dir_all is over; its result is ignored.
Removed == RemovalErrors \/ Empty

\* Mutant of CreateDir: the metadata is written before the templates.
CreateDirStamped ==
    /\ pc = "wipe"
    /\ Removed
    /\ meta' = Stamp(Subpath)
    /\ todo' = FilesOf[zip][Subpath]
    /\ pc' = "extract"
    /\ spoiled' = ~Empty
    /\ kept' = {}
    /\ UNCHANGED <<world, subdirs, dir, job, at, zip, resolved, served>>

CreateDir ==
    /\ pc = "wipe"
    /\ Removed
    /\ todo' = FilesOf[zip][Subpath]
    /\ pc' = "extract"
    /\ spoiled' = ~Empty
    /\ kept' = {}
    /\ UNCHANGED <<world, disk, job, at, zip, resolved, served>>

\* A file is written after the directories above it.
ExtractFile ==
    /\ pc = "extract"
    /\ \E f \in todo : /\ dir' = [dir EXCEPT ![f] = zip]
                       /\ subdirs' = subdirs \cup {s \in Subpaths \ {""} : f \in Under(s)}
                       /\ todo' = todo \ {f}
    /\ UNCHANGED <<world, meta, pc, job, at, zip, resolved, ghosts>>

\* All entries written: a subpath the archive does not have is an error.
Extracted ==
    /\ pc = "extract"
    /\ todo = {}
    /\ IF PathExists(Subpath)
       THEN pc' = "stamp" /\ UNCHANGED <<at, resolved, kept>>
       ELSE GiveUp
    /\ UNCHANGED <<world, disk, job, zip, todo, spoiled, served>>

\* Creating the directory or a file fails.
ExtractFails ==
    /\ pc \in {"wipe", "extract"}
    /\ GiveUp
    /\ todo' = {}
    /\ UNCHANGED <<world, disk, job, zip, spoiled, served>>

WriteMetadata ==
    /\ pc = "stamp"
    /\ meta' = Stamp(Subpath)
    /\ Resolve
    /\ UNCHANGED <<world, subdirs, dir, job, zip, todo, spoiled, served>>

WriteFails ==
    /\ pc = "stamp"
    /\ meta' \in {meta, TornMeta}
    /\ GiveUp
    /\ UNCHANGED <<world, subdirs, dir, job, zip, todo, spoiled, served>>

Loaded(s) ==
    [subpath |-> s, content |-> [f \in Under(s) |-> dir[f]], at |-> now,
     intact |-> s \in kept /\ ~spoiled]

\* load_templates on every resolved path, after all of them were resolved.
Load ==
    /\ pc = "load"
    /\ served' = {Loaded(resolved[i]) : i \in DOMAIN resolved}
    /\ pc' = "idle"
    /\ UNCHANGED <<world, disk, job, at, zip, todo, resolved, spoiled, kept>>

\* The run is killed; a write of the metadata may be cut short.
Crash ==
    /\ pc # "idle"
    /\ pc' = "idle"
    /\ meta' \in IF pc = "stamp" THEN {meta, TornMeta} ELSE {meta}
    /\ todo' = {}
    /\ UNCHANGED <<world, subdirs, dir, job, at, zip, resolved, ghosts>>

\* External: time passes, and the branch moves on.
Tick ==
    /\ pc = "idle"
    /\ now < MaxTime
    /\ now' = now + 1
    /\ UNCHANGED <<upstream, superseded, disk, pc, job, at, zip, todo, resolved, ghosts>>

Publish ==
    /\ pc = "idle"
    /\ upstream < MaxVersions
    /\ upstream' = upstream + 1
    /\ superseded' = [superseded EXCEPT ![upstream] = now]
    /\ UNCHANGED <<now, disk, pc, job, at, zip, todo, resolved, ghosts>>

Next ==
    \/ StartRun
    \/ UseCache \/ CacheMiss
    \/ Download \/ DownloadFails
    \/ RemoveEntry \/ CreateDir
    \/ ExtractFile \/ Extracted \/ ExtractFails
    \/ WriteMetadata \/ WriteFails
    \/ Load
    \/ Crash
    \/ Tick \/ Publish

Spec == Init /\ [][Next]_vars

(***************************************************************************)
(* Properties.                                                             *)
(***************************************************************************)
\* The content of path s is version v, and all of it.
Whole(v, s, content) ==
    /\ s # "" => FilesOf[v][s] # {}
    /\ \A f \in Under(s) : content[f] = IF f \in FilesOf[v][s] THEN v ELSE 0

\* What a run loads for a path is one version of the branch, whole: all the
\* files it has there, and no others.  The runs before it, for this path or another,
\* may have been killed, or have failed, anywhere in resolve_template_path, and
\* check_cache must not take what they left for a valid cache.  Two ways to lose it
\* are the code's own, and the record says so: a later path of the same run has the
\* directory removed, and a removal that is cut short leaves fresh metadata, or
\* files, behind.
LoadsComplete ==
    \A r \in served : r.intact => \E v \in Versions : Whole(v, r.subpath, r.content)

\* A run never serves a version that was superseded longer than the time to
\* live before it, with the same two exceptions.
NotStale ==
    \A r \in served : r.intact => \A f \in Under(r.subpath) :
        r.content[f] \in 1..(upstream - 1) => r.at - superseded[r.content[f]] <= Ttl

(***************************************************************************)
(* What comments of the source say and the code does not do.               *)
(***************************************************************************)
\* ResolvedTemplates::local_path is the "Local path to use for template
\* loading": when the paths are loaded, each resolved one has its templates.
ResolvedIsLoadable ==
    \A r \in served : \E f \in Under(r.subpath) : r.content[f] # 0

\* check_cache returns "the path to use if cache is valid, None otherwise": the
\* cache it accepts has all the templates of a version of the branch.
AcceptedIsWhole ==
    pc = "check" /\ CacheHit => \E v \in Versions : Whole(v, Subpath, dir)
================================================================================
