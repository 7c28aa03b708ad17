------------------------------ MODULE Publish ------------------------------
(***************************************************************************)
(* Publishing a site: StoreManifest (manifest.go), Update (update.go) and  *)
(* the auditing backend around CommitManifest (audit.go).                  *)
(*                                                                         *)
(* The manifest of an update refers to blobs: those of its own large files, *)
(* which it uploads, and those it took over from the manifest it was based *)
(* on, which it does not.  Each upload is a goroutine; a semaphore shared  *)
(* by all updates of a server bounds their number.  Commit is the atomic   *)
(* step of FSManifests and ManifestStore.  A server may crash at any time. *)
(***************************************************************************)
EXTENDS Integers, FiniteSets

CONSTANTS
    Updates,            \* update requests, each issued once
    Deletions,          \* those that publish an empty manifest
    Servers,            \* git-pages processes
    ServerOf,           \* the process that handles an update
    Sites,              \* also names the manifest a site starts with
    SiteOf,
    Blobs,              \* names of stored file contents
    Stored,             \* those in the store from the beginning
    Files,              \* files too large to be inlined
    FilesOf,            \* those of each update
    BlobOf,             \* the hash of a file's contents
    ConcurrentUploads,  \* [limits].concurrent-uploads
    Collect,            \* [audit].collect
    None

Manifests == Updates \cup Sites

ASSUME PublishAssumption ==
    /\ Deletions \subseteq Updates
    /\ ServerOf \in [Updates -> Servers]
    /\ SiteOf \in [Updates -> Sites]
    /\ Stored \subseteq Blobs
    /\ FilesOf \in [Updates -> SUBSET Files]
    /\ BlobOf \in [Files -> Blobs]
    /\ ConcurrentUploads \in Nat
    /\ Collect \in BOOLEAN
    /\ Updates \cap Sites = {}
    /\ None \notin Manifests

VARIABLES
    (* the store *)
    blobs,      \* the blobs stored
    deployed,   \* the manifest of each site, or None
    refs,       \* the blobs each manifest refers to
    audit,      \* the updates that have an audit record
    (* the updates *)
    pc,
    waiting,    \* files whose upload waits for the semaphore
    sending,    \* files whose goroutine has not looked for the blob yet
    writing,    \* files whose goroutine found no such blob
    failed,     \* updates that had an upload fail
    answer,
    (* the servers *)
    semaphore   \* the number of tokens in putBlobSemaphore

storeVars == <<blobs, deployed, refs, audit>>
uploadVars == <<waiting, sending, writing, failed, semaphore>>
vars == <<storeVars, pc, uploadVars, answer>>

Steps == {"idle", "prepare", "upload", "audit", "commit", "after", "done"}
Answers == {"none", "ok", "refused", "error", "lost"}

TypeOK ==
    /\ blobs \subseteq Blobs
    /\ deployed \in [Sites -> Manifests \cup {None}]
    /\ refs \in [Manifests -> SUBSET Blobs]
    /\ audit \subseteq Updates
    /\ pc \in [Updates -> Steps]
    /\ waiting \in [Updates -> SUBSET Files]
    /\ sending \in [Updates -> SUBSET Files]
    /\ writing \in [Updates -> SUBSET Files]
    /\ failed \subseteq Updates
    /\ answer \in [Updates -> Answers]
    /\ semaphore \in [Servers -> Int]

Init ==
    /\ blobs = Stored
    /\ deployed \in {d \in [Sites -> Sites \cup {None}] :
                        \A s \in Sites : d[s] \in {s, None}}
    /\ refs \in {f \in [Manifests -> SUBSET Stored] : \A u \in Updates : f[u] = {}}
    /\ audit = {}
    /\ pc = [u \in Updates |-> "idle"]
    /\ waiting = [u \in Updates |-> {}]
    /\ sending = [u \in Updates |-> {}]
    /\ writing = [u \in Updates |-> {}]
    /\ failed = {}
    /\ answer = [u \in Updates |-> "none"]
    /\ semaphore = [p \in Servers |-> 0]

-----------------------------------------------------------------------------
Goto(u, step) == pc' = [pc EXCEPT ![u] = step]

End(u, what) ==
    /\ Goto(u, "done")
    /\ answer' = [answer EXCEPT ![u] = what]

\* The new manifest, and what it takes over from the one it is based on: PATCH
\* edits that one, an archive or a repository may refer to its files by hash.
Load(u) ==
    /\ pc[u] = "idle"
    /\ LET base == deployed[SiteOf[u]]
           known == IF base = None THEN {} ELSE refs[base]
           own == {BlobOf[f] : f \in FilesOf[u]}
       IN IF u \in Deletions
          THEN /\ Goto(u, "audit")
               /\ UNCHANGED refs
          ELSE /\ Goto(u, "prepare")
               /\ \E kept \in SUBSET known :
                      refs' = [refs EXCEPT ![u] = own \cup kept]
    /\ UNCHANGED <<blobs, deployed, audit, uploadVars, answer>>

\* A malformed archive, a limit exceeded, or no room for the staged manifest.
Reject(u) ==
    /\ pc[u] = "prepare"
    /\ End(u, "error")
    /\ UNCHANGED <<storeVars, uploadVars>>

Stage(u) ==
    /\ pc[u] = "prepare"
    /\ Goto(u, "upload")
    /\ waiting' = [waiting EXCEPT ![u] = FilesOf[u]]
    /\ UNCHANGED <<storeVars, sending, writing, failed, semaphore, answer>>

-----------------------------------------------------------------------------
\* putBlobSemaphore <- struct{}{}, then wg.Go.  The files come in no order.
Acquire(u, f) ==
    /\ f \in waiting[u]
    /\ semaphore[ServerOf[u]] < ConcurrentUploads
    /\ semaphore' = [semaphore EXCEPT ![ServerOf[u]] = @ + 1]
    /\ waiting' = [waiting EXCEPT ![u] = @ \ {f}]
    /\ sending' = [sending EXCEPT ![u] = @ \cup {f}]
    /\ UNCHANGED <<storeVars, pc, writing, failed, answer>>

Running(u) == sending[u] \cup writing[u]

\* The goroutine returns, and its deferred function receives a token.
Returns(u, f) ==
    /\ semaphore' = [semaphore EXCEPT ![ServerOf[u]] = @ - 1]
    /\ sending' = [sending EXCEPT ![u] = @ \ {f}]
    /\ writing' = [writing EXCEPT ![u] = @ \ {f}]

\* PutBlob: a blob that exists is not written again ...
BlobExists(u, f) ==
    /\ f \in sending[u]
    /\ BlobOf[f] \in blobs
    /\ Returns(u, f)
    /\ UNCHANGED <<storeVars, pc, waiting, failed, answer>>

BlobMissing(u, f) ==
    /\ f \in sending[u]
    /\ BlobOf[f] \notin blobs
    /\ sending' = [sending EXCEPT ![u] = @ \ {f}]
    /\ writing' = [writing EXCEPT ![u] = @ \cup {f}]
    /\ UNCHANGED <<storeVars, pc, waiting, failed, semaphore, answer>>

\* ... and one that did not appears whole, even if another upload was faster.
WriteBlob(u, f) ==
    /\ f \in writing[u]
    /\ blobs' = blobs \cup {BlobOf[f]}
    /\ Returns(u, f)
    /\ UNCHANGED <<deployed, refs, audit, pc, waiting, failed, answer>>

\* Seeded fault: the token is not returned when PutBlob fails.
UploadFailsKeepingToken(u, f) ==
    /\ f \in Running(u)
    /\ sending' = [sending EXCEPT ![u] = @ \ {f}]
    /\ writing' = [writing EXCEPT ![u] = @ \ {f}]
    /\ failed' = failed \cup {u}
    /\ blobs' \in {blobs, blobs \cup {BlobOf[g] : g \in writing[u] \cap {f}}}
    /\ UNCHANGED <<deployed, refs, audit, pc, waiting, semaphore, answer>>

\* The error may be that of a request whose answer got lost.
UploadFails(u, f) ==
    /\ f \in Running(u)
    /\ Returns(u, f)
    /\ failed' = failed \cup {u}
    /\ blobs' \in {blobs, blobs \cup {BlobOf[g] : g \in writing[u] \cap {f}}}
    /\ UNCHANGED <<deployed, refs, audit, pc, waiting, answer>>

\* Seeded fault: the errors sent to the channel are never received.
JoinIgnoringErrors(u) ==
    /\ pc[u] = "upload"
    /\ waiting[u] = {}
    /\ Running(u) = {}
    /\ Goto(u, "audit")
    /\ UNCHANGED <<storeVars, uploadVars, answer>>

\* wg.Wait; any error ends the update, though its other blobs are stored.
Join(u) ==
    /\ pc[u] = "upload"
    /\ waiting[u] = {}
    /\ Running(u) = {}
    /\ IF u \in failed
       THEN End(u, "error")
       ELSE Goto(u, "audit") /\ UNCHANGED answer
    /\ UNCHANGED <<storeVars, uploadVars>>

-----------------------------------------------------------------------------
\* Seeded fault: a record that could not be written does not stop the update.
AppendAuditOrGoOn(u) ==
    /\ pc[u] = "audit"
    /\ audit' \in {audit, audit \cup {u}}
    /\ Goto(u, "commit")
    /\ UNCHANGED <<blobs, deployed, refs, uploadVars, answer>>

\* auditedBackend: no record, no commit.
AppendAudit(u) ==
    /\ pc[u] = "audit"
    /\ audit' = IF Collect THEN audit \cup {u} ELSE audit
    /\ Goto(u, "commit")
    /\ UNCHANGED <<blobs, deployed, refs, uploadVars, answer>>

\* The record may have been written all the same.
AppendAuditFails(u) ==
    /\ pc[u] = "audit"
    /\ Collect
    /\ audit' \in {audit, audit \cup {u}}
    /\ End(u, "error")
    /\ UNCHANGED <<blobs, deployed, refs, uploadVars>>

\* CommitManifest or DeleteManifest of the backend proper.
Commit(u) ==
    /\ pc[u] = "commit"
    /\ deployed' = [deployed EXCEPT ![SiteOf[u]] = IF u \in Deletions THEN None ELSE u]
    /\ Goto(u, "after")
    /\ UNCHANGED <<blobs, refs, audit, uploadVars, answer>>

\* A conflict, a frozen domain, or a failure: nothing was changed.
CommitFails(u) ==
    /\ pc[u] = "commit"
    /\ \E why \in {"refused", "error"} : End(u, why)
    /\ UNCHANGED <<storeVars, uploadVars>>

\* Seeded fault: what fails after the commit is retried from the commit on.
RetryFromCommit(u) ==
    /\ pc[u] = "after"
    /\ Goto(u, "commit")
    /\ UNCHANGED <<storeVars, uploadVars, answer>>

\* The site has changed, and yet the update is reported as failed: the staged
\* object cannot be removed, the last-modified marker or the domain not be written.
FailAfterCommit(u) ==
    /\ pc[u] = "after"
    /\ End(u, "error")
    /\ UNCHANGED <<storeVars, uploadVars>>

Finish(u) ==
    /\ pc[u] = "after"
    /\ End(u, "ok")
    /\ UNCHANGED <<storeVars, uploadVars>>

\* Everything in the memory of a server is lost; it starts anew.
Crash(p) ==
    LET here == {u \in Updates : ServerOf[u] = p /\ pc[u] \notin {"idle", "done"}}
        Without(f) == [u \in Updates |-> IF u \in here THEN {} ELSE f[u]]
    IN  /\ here # {}
        /\ pc' = [u \in Updates |-> IF u \in here THEN "done" ELSE pc[u]]
        /\ answer' = [u \in Updates |-> IF u \in here THEN "lost" ELSE answer[u]]
        /\ waiting' = Without(waiting)
        /\ sending' = Without(sending)
        /\ writing' = Without(writing)
        /\ semaphore' = [semaphore EXCEPT ![p] = 0]
        /\ UNCHANGED <<storeVars, failed>>

-----------------------------------------------------------------------------
Upload(u, f) ==
    BlobExists(u, f) \/ BlobMissing(u, f) \/ WriteBlob(u, f) \/ UploadFails(u, f)

Proceed(u) ==
    \/ Reject(u) \/ Stage(u)
    \/ \E f \in Files : Acquire(u, f)
    \/ Join(u)
    \/ AppendAudit(u) \/ AppendAuditFails(u)
    \/ Commit(u) \/ CommitFails(u)
    \/ FailAfterCommit(u) \/ Finish(u)

Next ==
    \/ \E u \in Updates : Load(u) \/ Proceed(u)
    \/ \E u \in Updates, f \in Files : Upload(u, f)
    \/ \E p \in Servers : Crash(p)

Spec == Init /\ [][Next]_vars

\* The Go scheduler runs every goroutine that is ready.  Nothing makes a client
\* issue an update or a server crash.
FairSpec ==
    /\ Spec
    /\ \A u \in Updates : WF_vars(Proceed(u))
    /\ \A u \in Updates, f \in Files : WF_vars(Upload(u, f))

-----------------------------------------------------------------------------
(* Properties *)

\* Whatever is deployed or can be restored from the audit log is whole: all its
\* blobs are stored, after any mix of failed uploads, crashes and updates that
\* share blobs (manifest.go:440-473 uploads before it commits).
NoDanglingReference ==
    /\ \A s \in Sites : deployed[s] # None => refs[deployed[s]] \subseteq blobs
    /\ \A u \in audit : refs[u] \subseteq blobs

\* The uploads of a server that have a token.
RunningAt(p) == {uf \in Updates \X Files : ServerOf[uf[1]] = p /\ uf[2] \in Running(uf[1])}

\* The semaphore holds one token per running PutBlob, never more than configured;
\* a token lost on an error path would lower the limit for good, and one returned twice
\* would raise it (manifest.go:452-456).
UploadsLimited ==
    \A p \in Servers :
        /\ semaphore[p] = Cardinality(RunningAt(p))
        /\ semaphore[p] <= ConcurrentUploads

\* With auditing on, no site changes without a record of the update that changed
\* it, written first (audit.go:285-290).
ChangesAreAudited ==
    [][Collect =>
           \A s \in Sites : deployed[s] # deployed'[s] =>
               \E u \in audit : SiteOf[u] = s /\ pc[u] = "commit" /\ pc'[u] # "commit"]_vars

\* Every update that was begun is answered or lost, even when uploads fail while
\* others wait for the semaphore.
EveryUpdateEnds == \A u \in Updates : pc[u] # "idle" ~> pc[u] = "done"

\* "As created, there is no limit" (manifest.go:371): created without a capacity,
\* the semaphore holds no update up.
NoLimitAsCreated == ConcurrentUploads = 0 => EveryUpdateEnds

-----------------------------------------------------------------------------
(* The refinement of SiteUpdates *)

Served(s) ==
    IF deployed[s] = None THEN None
    ELSE [version |-> deployed[s], missing |-> refs[deployed[s]] \ blobs]

Promise ==
    INSTANCE SiteUpdates WITH
        Gone <- None,
        site <- [s \in Sites |-> Served(s)],
        status <- [u \in Updates |->
                      IF pc[u] = "done" THEN answer[u]
                      ELSE IF pc[u] = "after" THEN "effective"
                      ELSE "pending"]

\* Visitors only ever see whole versions, each for one contiguous time, and what
\* an uploader is told agrees with what they see.
KeepsPromise == Promise!Spec

-----------------------------------------------------------------------------
(* The inductive invariant behind NoDanglingReference and the refinement *)

\* An upload that is under way is one of the update's own files.
UploadsOwn ==
    \A u \in Updates :
        /\ waiting[u] \cup Running(u) \subseteq FilesOf[u]
        /\ pc[u] # "upload" => waiting[u] \cup Running(u) = {}

\* What an update refers to is stored, or about to be, or its upload has failed.
RefsCovered ==
    \A u \in Updates : \A b \in refs[u] :
        \/ b \in blobs
        \/ pc[u] = "prepare" /\ \E f \in FilesOf[u] : BlobOf[f] = b
        \/ pc[u] = "done" /\ u \notin audit
        \/ pc[u] = "upload" /\ (u \in failed \/ \E f \in waiting[u] \cup Running(u) : BlobOf[f] = b)

\* Nothing is audited or deployed before its uploads have succeeded, or committed
\* before it is audited.
PublishedLate ==
    \A u \in Updates :
        /\ Collect /\ pc[u] = "commit" => u \in audit
        /\ u \in audit => pc[u] \in {"commit", "after", "done"}
        /\ (\E s \in Sites : deployed[s] = u) => pc[u] \in {"after", "done"}

NoneMissing ==
    /\ \A s \in Sites : refs[s] \subseteq blobs
    /\ \A s \in Sites : deployed[s] # None => refs[deployed[s]] \subseteq blobs
    /\ \A u \in audit : refs[u] \subseteq blobs

Answered == \A u \in Updates : answer[u] = "none" <=> pc[u] # "done"

IInv ==
    /\ TypeOK
    /\ UploadsOwn
    /\ RefsCovered
    /\ PublishedLate
    /\ NoneMissing
    /\ Answered
=============================================================================
