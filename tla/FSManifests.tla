---------------------------- MODULE FSManifests ----------------------------
(***************************************************************************)
(* Deployed manifests on the filesystem backend (backend_fs.go), one step  *)
(* per system call, for the projects of one domain.                        *)
(*                                                                         *)
(* A site is a file name linked to an inode.  An update writes its manifest *)
(* to a fresh inode, renames that to a staging name computed from the      *)
(* manifest's bytes, and later renames the staging name over the site's    *)
(* name.  flock(2) locks the inode that was open()ed, not the name, and a  *)
(* rename puts another inode under the name: that is what makes the lock   *)
(* subtle.  Requests run in any number of server and command line          *)
(* processes; a process may die between any two of its steps.              *)
(***************************************************************************)
EXTENDS Naturals

CONSTANTS
    Requests,       \* update requests, each issued once
    Patches,        \* those that are PATCH: they modify what they read
    Sites,          \* site names; also names the inode a site starts with
    SiteOf,         \* the site each request updates
    Contents,       \* encoded manifests, up to byte equality
    Empty,          \* a manifest without files: publishing it is deleting
    Original,       \* what each site holds at the start, if it is deployed
    Produces,       \* the manifests a request may want to publish
    HasAtomicCAS,   \* flock works on this filesystem
    None

Inodes == Requests \cup Sites
MaybeInode == Inodes \cup {None}

ASSUME FSAssumption ==
    /\ Patches \subseteq Requests
    /\ SiteOf \in [Requests -> Sites]
    /\ Original \in [Sites -> Contents]
    /\ Produces \in [Requests -> SUBSET (Contents \cup {Empty})]
    /\ HasAtomicCAS \in BOOLEAN
    /\ Requests \cap Sites = {}
    /\ None \notin Inodes
    /\ None \notin Contents
    /\ Empty \notin Contents

VARIABLES
    (* the filesystem *)
    link,       \* the inode each site's name is linked to, or None
    staged,     \* the inode linked to each content-addressed staging name
    file,       \* what each inode holds and when it was written
    clock,      \* the filesystem's timestamp source
    domainDir,  \* the domain's directory exists
    marker,     \* the domain's .frozen marker exists
    holder,     \* the request that holds the flock of each inode
    (* the requests *)
    pc,
    new,        \* the manifest a request wants to publish
    statted,    \* the inode whose mtime GetManifest returned
    loaded,     \* the inode whose data and ETag GetManifest returned
    fd,         \* the inode lockManifest opened
    answer      \* what the request was told

fsVars == <<link, staged, file, clock, domainDir, marker>>
reqVars == <<new, statted, loaded, fd>>
vars == <<fsVars, holder, pc, reqVars, answer>>

\* The steps from the flock onwards; a request holds its lock during these.
Checks == {"frozen", "mtime", "etag"}
Effects == {"lookup", "mkdir", "rename", "remove"}
Steps == {"idle", "read", "write", "stage", "open", "lock", "unlock", "done"}
             \cup Checks \cup Effects
Answers == {"none", "ok", "conflict", "frozen", "error", "lost"}

TypeOK ==
    /\ link \in [Sites -> MaybeInode]
    /\ staged \in [Contents -> Requests \cup {None}]
    /\ file \in [Inodes -> [data : Contents \cup {Empty}, mtime : Nat]]
    /\ clock \in Nat
    /\ domainDir \in BOOLEAN
    /\ marker \in BOOLEAN
    /\ holder \in [Inodes -> Requests \cup {None}]
    /\ pc \in [Requests -> Steps]
    /\ new \in [Requests -> Contents \cup {Empty}]
    /\ statted \in [Requests -> MaybeInode]
    /\ loaded \in [Requests -> MaybeInode]
    /\ fd \in [Requests -> MaybeInode]
    /\ answer \in [Requests -> Answers]

\* Each site starts absent, or deployed at time 0.
Init ==
    /\ link \in {l \in [Sites -> MaybeInode] : \A s \in Sites : l[s] \in {s, None}}
    /\ staged = [c \in Contents |-> None]
    /\ file = [i \in Inodes |->
                  [data |-> IF i \in Sites THEN Original[i] ELSE Empty,
                   mtime |-> 0]]
    /\ clock = 0
    /\ domainDir = (\E s \in Sites : link[s] # None)
    /\ marker = FALSE
    /\ holder = [i \in Inodes |-> None]
    /\ pc = [r \in Requests |-> "idle"]
    /\ new = [r \in Requests |-> Empty]
    /\ statted = [r \in Requests |-> None]
    /\ loaded = [r \in Requests |-> None]
    /\ fd = [r \in Requests |-> None]
    /\ answer = [r \in Requests |-> "none"]

-----------------------------------------------------------------------------
Here(r) == link[SiteOf[r]]
Goto(r, step) == pc' = [pc EXCEPT ![r] = step]
Tell(r, what) == answer' = [answer EXCEPT ![r] = what]

\* Update(): an empty manifest is deleted, any other one is stored.
Publish(r, c) ==
    /\ new' = [new EXCEPT ![r] = c]
    /\ Goto(r, IF c = Empty THEN "open" ELSE "write")

\* PUT, POST, DELETE and expiration: the outcome does not depend on the site.
Submit(r) ==
    /\ pc[r] = "idle"
    /\ r \notin Patches
    /\ \E c \in Produces[r] : Publish(r, c)
    /\ UNCHANGED <<fsVars, holder, statted, loaded, fd, answer>>

\* PATCH: GetManifest takes the mtime from one system call ...
GetStat(r) ==
    /\ pc[r] = "idle"
    /\ r \in Patches
    /\ Here(r) # None
    /\ statted' = [statted EXCEPT ![r] = Here(r)]
    /\ Goto(r, "read")
    /\ UNCHANGED <<fsVars, holder, new, loaded, fd, answer>>

\* ... and the data, hence the ETag and the patched manifest, from another.
GetRead(r) ==
    /\ pc[r] = "read"
    /\ Here(r) # None
    /\ loaded' = [loaded EXCEPT ![r] = Here(r)]
    /\ \E c \in Produces[r] : Publish(r, c)
    /\ UNCHANGED <<fsVars, holder, statted, fd, answer>>

GetMissing(r) ==
    /\ r \in Patches
    /\ pc[r] \in {"idle", "read"}
    /\ Here(r) = None
    /\ Tell(r, "error")
    /\ Goto(r, "done")
    /\ UNCHANGED <<fsVars, holder, reqVars>>

\* StageManifest writes a temporary file; timestamps are coarse, so that two
\* files may get the same one ...
StageWrite(r) ==
    /\ pc[r] = "write"
    /\ \E now \in {clock, clock + 1} :
           /\ clock' = now
           /\ file' = [file EXCEPT ![r] = [data |-> new[r], mtime |-> now]]
    /\ Goto(r, "stage")
    /\ UNCHANGED <<link, staged, domainDir, marker, holder, reqVars, answer>>

\* Seeded fault: one staging name for everybody, instead of one per content.
StageRenameUnderOneName(r) ==
    /\ pc[r] = "stage"
    /\ staged' = [c \in Contents |-> r]
    /\ Goto(r, "open")
    /\ UNCHANGED <<link, file, clock, domainDir, marker, holder, reqVars, answer>>

\* ... and renames it, over any equal manifest another request has staged.
StageRename(r) ==
    /\ pc[r] = "stage"
    /\ staged' = [staged EXCEPT ![new[r]] = r]
    /\ Goto(r, "open")
    /\ UNCHANGED <<link, file, clock, domainDir, marker, holder, reqVars, answer>>

-----------------------------------------------------------------------------
\* Seeded fault: the manifest is not locked.
OpenWithoutLock(r) ==
    /\ pc[r] = "open"
    /\ Goto(r, "frozen")
    /\ UNCHANGED <<fsVars, holder, reqVars, answer>>

\* lockManifest: a site that does not exist cannot be locked.
Open(r) ==
    /\ pc[r] = "open"
    /\ fd' = [fd EXCEPT ![r] = IF HasAtomicCAS THEN Here(r) ELSE None]
    /\ Goto(r, IF HasAtomicCAS /\ Here(r) # None THEN "lock" ELSE "frozen")
    /\ UNCHANGED <<fsVars, holder, new, statted, loaded, answer>>

\* flock(LOCK_EX) on the inode opened, whatever the name means by now.
Lock(r) ==
    /\ pc[r] = "lock"
    /\ holder[fd[r]] = None
    /\ holder' = [holder EXCEPT ![fd[r]] = r]
    /\ Goto(r, "frozen")
    /\ UNCHANGED <<fsVars, reqVars, answer>>

\* What follows the checks: Rename of a staged manifest, or Remove.
Effect(r) == IF new[r] = Empty THEN "remove" ELSE "lookup"

Refuse(r, what) ==
    /\ Tell(r, what)
    /\ Goto(r, "unlock")

\* Seeded fault: the error return does not release the lock.
CheckFrozenKeepingLock(r) ==
    /\ pc[r] = "frozen"
    /\ IF marker
       THEN Tell(r, "frozen") /\ Goto(r, "done")
       ELSE /\ Goto(r, IF r \in Patches THEN "mtime" ELSE Effect(r))
            /\ UNCHANGED answer
    /\ UNCHANGED <<fsVars, holder, reqVars>>

CheckFrozen(r) ==
    /\ pc[r] = "frozen"
    /\ IF marker
       THEN Refuse(r, "frozen")
       ELSE /\ Goto(r, IF r \in Patches THEN "mtime" ELSE Effect(r))
            /\ UNCHANGED answer
    /\ UNCHANGED <<fsVars, holder, reqVars>>

\* The preconditions are read by name, in two system calls.
PreconditionMissing(r) ==
    /\ pc[r] \in {"mtime", "etag"}
    /\ Here(r) = None
    /\ Refuse(r, "error")
    /\ UNCHANGED <<fsVars, holder, reqVars>>

CheckUnmodifiedSince(r) ==
    /\ pc[r] = "mtime"
    /\ Here(r) # None
    /\ IF file[Here(r)].mtime > file[statted[r]].mtime
       THEN Refuse(r, "conflict")
       ELSE Goto(r, "etag") /\ UNCHANGED answer
    /\ UNCHANGED <<fsVars, holder, reqVars>>

\* Seeded fault: the timestamp is trusted to tell versions apart.
CheckMatchSkipped(r) ==
    /\ pc[r] = "etag"
    /\ Here(r) # None
    /\ Goto(r, Effect(r))
    /\ UNCHANGED <<fsVars, holder, reqVars, answer>>

CheckMatch(r) ==
    /\ pc[r] = "etag"
    /\ Here(r) # None
    /\ IF file[Here(r)].data # file[loaded[r]].data
       THEN Refuse(r, "conflict")
       ELSE Goto(r, Effect(r)) /\ UNCHANGED answer
    /\ UNCHANGED <<fsVars, holder, reqVars>>

-----------------------------------------------------------------------------
\* CommitManifest, after the checks.
LookupStaged(r) ==
    /\ pc[r] = "lookup"
    /\ IF staged[new[r]] = None
       THEN Refuse(r, "error")
       ELSE Goto(r, "mkdir") /\ UNCHANGED answer
    /\ UNCHANGED <<fsVars, holder, reqVars>>

MakeDomain(r) ==
    /\ pc[r] = "mkdir"
    /\ domainDir' = TRUE
    /\ Goto(r, "rename")
    /\ UNCHANGED <<link, staged, file, clock, marker, holder, reqVars, answer>>

CommitRename(r) ==
    /\ pc[r] = "rename"
    /\ IF staged[new[r]] = None
       THEN /\ Tell(r, "error")
            /\ UNCHANGED <<link, staged>>
       ELSE /\ link' = [link EXCEPT ![SiteOf[r]] = staged[new[r]]]
            /\ staged' = [staged EXCEPT ![new[r]] = None]
            /\ Tell(r, "ok")
    /\ Goto(r, "unlock")
    /\ UNCHANGED <<file, clock, domainDir, marker, holder, reqVars>>

\* DeleteManifest, after the checks; a missing file is not an error.
Remove(r) ==
    /\ pc[r] = "remove"
    /\ link' = [link EXCEPT ![SiteOf[r]] = None]
    /\ Tell(r, "ok")
    /\ Goto(r, "unlock")
    /\ UNCHANGED <<staged, file, clock, domainDir, marker, holder, reqVars>>

\* Seeded fault: closing a file drops the locks of others, as fcntl locks do.
ReleasedAll(r) == [i \in Inodes |-> IF i = fd[r] THEN None ELSE holder[i]]

Released(r) == [i \in Inodes |-> IF holder[i] = r THEN None ELSE holder[i]]

Unlock(r) ==
    /\ pc[r] = "unlock"
    /\ holder' = Released(r)
    /\ Goto(r, "done")
    /\ UNCHANGED <<fsVars, reqVars, answer>>

\* The process handling the request dies; the kernel drops its locks.
Die(r) ==
    /\ pc[r] \notin {"idle", "done"}
    /\ holder' = Released(r)
    /\ Goto(r, "done")
    /\ answer' = [answer EXCEPT ![r] = IF @ = "none" THEN "lost" ELSE @]
    /\ UNCHANGED <<fsVars, reqVars>>

-----------------------------------------------------------------------------
\* git-pages -freeze-domain: fails unless the domain has a directory.
FreezeDomain ==
    /\ domainDir
    /\ marker' = TRUE
    /\ UNCHANGED <<link, staged, file, clock, domainDir, holder, pc, reqVars, answer>>

UnfreezeDomain ==
    /\ marker' = FALSE
    /\ UNCHANGED <<link, staged, file, clock, domainDir, holder, pc, reqVars, answer>>

Step(r) ==
    \/ Submit(r) \/ GetStat(r) \/ GetRead(r) \/ GetMissing(r)
    \/ StageWrite(r) \/ StageRename(r)
    \/ Open(r) \/ Lock(r) \/ CheckFrozen(r) \/ PreconditionMissing(r)
    \/ CheckUnmodifiedSince(r) \/ CheckMatch(r)
    \/ LookupStaged(r) \/ MakeDomain(r) \/ CommitRename(r) \/ Remove(r)
    \/ Unlock(r)

Next ==
    \/ \E r \in Requests : Step(r) \/ Die(r)
    \/ FreezeDomain
    \/ UnfreezeDomain

Spec == Init /\ [][Next]_vars

\* The scheduler runs every request that can take a step.  Whether a request
\* is issued, and what an administrator or a crash does, is not fair.
FairSpec == Spec /\ \A r \in Requests : WF_vars(pc[r] # "idle" /\ Step(r))

-----------------------------------------------------------------------------
(* Properties *)

\* A PATCH that has passed its preconditions replaces exactly the manifest it
\* was computed from: no other update fits between its checks and its rename or
\* removal (HasAtomicCAS, backend.go:115-118).
NoLostUpdate ==
    \A r \in Patches :
        pc[r] \in Effects =>
            /\ Here(r) # None
            /\ file[Here(r)].data = file[loaded[r]].data

\* An update acknowledged to its client has, at that instant, put the very bytes
\* it was given under the site's name, even when another request has staged or
\* committed equal bytes through the same staging name.
AcknowledgedAsSubmitted ==
    [][\A r \in Requests :
           answer[r] # "ok" /\ answer'[r] = "ok" =>
               IF new[r] = Empty
               THEN Here(r)' = None
               ELSE Here(r)' # None /\ file[Here(r)'].data = new[r]]_vars

\* A PATCH is refused with a conflict only if the site was written after
\* GetManifest began to read it; clients are told to resubmit (README.md:112),
\* which would never help against a conflict with oneself.
ConflictIsGenuine ==
    [][\A r \in Patches :
           answer[r] # "conflict" /\ answer'[r] = "conflict" =>
               Here(r) # statted[r]]_vars

\* What clients are told of their updates is true.
AnswersAreTrue == AcknowledgedAsSubmitted /\ ConflictIsGenuine

\* Every request that was issued is eventually answered: no step waits for a lock
\* that an error path or a dead process failed to release.
EveryRequestEnds == \A r \in Requests : pc[r] # "idle" ~> pc[r] = "done"

\* "prevent any site uploads to a given `domain`" (main.go:257).
FrozenSitesDoNotChange == [][marker => link' = link]_vars

\* CommitManifest reports a manifest that is not staged as an error
\* (backend_fs.go:365-367), and StoreManifest stages every manifest before it
\* commits it: an update that has no preconditions never sees that error.
CommittedAfterStaging ==
    \A r \in Requests \ Patches : answer[r] # "error"

\* "Check whether a domain has any deployments" (backend.go:141).
CheckDomain == domainDir
CheckDomainIsExact == CheckDomain => \E s \in Sites : link[s] # None

-----------------------------------------------------------------------------
(* The refinement of ManifestStore *)

\* Every update is a PATCH.
OnlyPatches == Patches = Requests

\* No two updates, of whatever site, ask for byte-identical manifests, and none
\* asks for the manifest a site started with.
DistinctResults ==
    /\ \A r, q \in Requests : r # q => Produces[r] \cap Produces[q] \cap Contents = {}
    /\ \A r \in Requests, s \in Sites : Original[s] \notin Produces[r]

Deployed == [s \in Sites |-> IF link[s] = None THEN Empty ELSE file[link[s]].data]

StillAt(seen) ==
    {r \in Patches : answer[r] = "none" /\ seen[r] # None /\ Here(r) = seen[r]}

Status ==
    [r \in Requests |->
        IF answer[r] # "none" THEN answer[r]
        ELSE IF r \notin Patches \/ pc[r] = "idle" THEN "new"
        ELSE IF pc[r] = "read" THEN "begun"
        ELSE "loaded"]

Store ==
    INSTANCE ManifestStore WITH
        Conditional <- Patches,
        Absent <- Empty,
        content <- Deployed,
        undisturbed <- StillAt(statted),
        linked <- StillAt(loaded),
        status <- Status

\* With partial updates only, the filesystem is the load-linked/store-conditional
\* register that PATCH assumes.
ImplementsStore == Store!Spec

-----------------------------------------------------------------------------
(* Why it does: the inductive invariant behind NoLostUpdate and the refinement *)

Early == {"idle", "read", "write", "stage"}
Holding == Checks \cup Effects \cup {"unlock"}

\* An inode that is, or was when a request looked, linked to a site's name.
Used(i) ==
    \/ \E s \in Sites : link[s] = i
    \/ \E r \in Requests : i \in {statted[r], loaded[r]}

\* The inodes that belong to a site: its first one, and those of its requests.
InodesOf(s) == {s} \cup {r \in Requests : SiteOf[r] = s}

\* Requests pass through their steps in the order of the code.
Progress ==
    \A r \in Requests :
        /\ (answer[r] # "none") <=> (pc[r] \in {"unlock", "done"})
        /\ pc[r] = "idle" => statted[r] = None
        /\ pc[r] \in {"idle", "read"} => loaded[r] = None
        /\ pc[r] \notin {"idle", "done"} => statted[r] # None
        /\ pc[r] \notin {"idle", "read", "done"} => loaded[r] # None
        /\ pc[r] \notin {"idle", "read", "done"} => new[r] \in Produces[r]
        /\ pc[r] \in {"write", "stage", "lookup", "mkdir", "rename"} => new[r] # Empty
        /\ pc[r] = "remove" => new[r] = Empty
        /\ pc[r] = "stage" => file[r].data = new[r]

\* A staging name holds the bytes it is named for, in an inode not yet linked.
StagingSound ==
    \A c \in Contents, r \in Requests :
        staged[c] = r =>
            /\ pc[r] \notin Early
            /\ ~ Used(r)
            /\ new[r] = c
            /\ new[r] \in Produces[r]
            /\ file[r].data = c

\* A linked inode belongs to its site and holds what its request published.
LinkingSound ==
    /\ \A s \in Sites : file[s].data = Original[s]
    /\ \A r \in Requests :
           Used(r) => /\ pc[r] \notin Early
                      /\ new[r] # Empty
                      /\ new[r] \in Produces[r]
                      /\ file[r].data = new[r]
    /\ \A s \in Sites : link[s] # None => link[s] \in InodesOf(s)
    /\ \A r \in Requests :
           /\ statted[r] # None => statted[r] \in InodesOf(SiteOf[r])
           /\ loaded[r] # None => loaded[r] \in InodesOf(SiteOf[r])

\* What a request staged stays there until the request itself renames it.
StagingKept ==
    \A r \in Requests :
        /\ pc[r] \in {"open", "lock", "lookup", "mkdir", "rename"} \cup Checks
        /\ new[r] # Empty
        => staged[new[r]] = r

\* A site that left an inode never returns to it.
NeverBack ==
    \A r \in Requests :
        /\ loaded[r] # None
        /\ Here(r) # None
        /\ Here(r) = statted[r]
        => loaded[r] = statted[r]

LocksHeld ==
    \A r \in Requests :
        pc[r] \in Holding /\ fd[r] # None => holder[fd[r]] = r

\* A request whose base is still deployed has locked the deployed inode ...
LockedBase ==
    \A r \in Requests :
        /\ pc[r] \in Holding \cup {"lock"}
        /\ Here(r) # None
        /\ Here(r) = loaded[r]
        => fd[r] = Here(r)

\* ... and a request that passed its preconditions has such a base.
CheckedBase ==
    \A r \in Requests :
        pc[r] \in Effects => Here(r) # None /\ Here(r) = loaded[r]

IInv ==
    /\ TypeOK
    /\ Progress
    /\ StagingSound
    /\ LinkingSound
    /\ StagingKept
    /\ NeverBack
    /\ LocksHeld
    /\ LockedBase
    /\ CheckedBase
=============================================================================
