--------------------------- MODULE Publish_proofs ---------------------------
(* Proofs about publishing, and about tracing garbage meanwhile, for every   *)
(* set of updates, servers, sites and files, and every limit on uploads.     *)
EXTENDS GarbageTrace, FiniteSetTheorems, TLAPS

\* Every step keeps the types.
LEMMA PublishTypeStep == TypeOK /\ [Next]_vars => TypeOK'
<1> SUFFICES ASSUME TypeOK, [Next]_vars PROVE TypeOK'
  OBVIOUS
<1> USE PublishAssumption DEF TypeOK, Goto, End, Steps, Answers, storeVars, uploadVars
<1>1. ASSUME NEW u \in Updates, Load(u) PROVE TypeOK'
  <2>1. CASE u \in Deletions
    BY <1>1, <2>1 DEF Load
  <2>2. CASE u \notin Deletions
    <3> DEFINE base == deployed[SiteOf[u]]
               known == IF base = None THEN {} ELSE refs[base]
               own == {BlobOf[f] : f \in FilesOf[u]}
    <3>1. known \subseteq Blobs
      <4>1. base \in Manifests \cup {None}
        OBVIOUS
      <4>2. QED
        BY <4>1
    <3>2. own \subseteq Blobs
      OBVIOUS
    <3>3. PICK kept \in SUBSET known : refs' = [refs EXCEPT ![u] = own \cup kept]
      BY <1>1, <2>2 DEF Load
    <3>4. refs' \in [Manifests -> SUBSET Blobs]
      BY <3>1, <3>2, <3>3
    <3>5. QED
      BY <1>1, <2>2, <3>4 DEF Load
  <2>3. QED
    BY <2>1, <2>2
<1>2. ASSUME NEW u \in Updates, Reject(u) PROVE TypeOK'
  BY <1>2 DEF Reject
<1>3. ASSUME NEW u \in Updates, Stage(u) PROVE TypeOK'
  BY <1>3 DEF Stage
<1>4. ASSUME NEW u \in Updates, NEW f \in Files, Acquire(u, f) PROVE TypeOK'
  BY <1>4 DEF Acquire
<1>5. ASSUME NEW u \in Updates, NEW f \in Files, BlobExists(u, f) PROVE TypeOK'
  BY <1>5 DEF BlobExists, Returns
<1>6. ASSUME NEW u \in Updates, NEW f \in Files, BlobMissing(u, f) PROVE TypeOK'
  BY <1>6 DEF BlobMissing
<1>7. ASSUME NEW u \in Updates, NEW f \in Files, WriteBlob(u, f) PROVE TypeOK'
  BY <1>7 DEF WriteBlob, Returns
<1>8. ASSUME NEW u \in Updates, NEW f \in Files, UploadFails(u, f) PROVE TypeOK'
  BY <1>8 DEF UploadFails, Returns
<1>9. ASSUME NEW u \in Updates, Join(u) PROVE TypeOK'
  BY <1>9 DEF Join
<1>10. ASSUME NEW u \in Updates, AppendAudit(u) PROVE TypeOK'
  BY <1>10 DEF AppendAudit
<1>11. ASSUME NEW u \in Updates, AppendAuditFails(u) PROVE TypeOK'
  BY <1>11 DEF AppendAuditFails
<1>12. ASSUME NEW u \in Updates, Commit(u) PROVE TypeOK'
  BY <1>12 DEF Commit, Manifests
<1>13. ASSUME NEW u \in Updates, CommitFails(u) PROVE TypeOK'
  BY <1>13 DEF CommitFails
<1>14. ASSUME NEW u \in Updates, FailAfterCommit(u) PROVE TypeOK'
  BY <1>14 DEF FailAfterCommit
<1>15. ASSUME NEW u \in Updates, Finish(u) PROVE TypeOK'
  BY <1>15 DEF Finish
<1>16. ASSUME NEW p \in Servers, Crash(p) PROVE TypeOK'
  BY <1>16 DEF Crash
<1>17. CASE UNCHANGED vars
  BY <1>17 DEF vars
<1>18. QED
  BY <1>1, <1>2, <1>3, <1>4, <1>5, <1>6, <1>7, <1>8, <1>9, <1>10, <1>11, <1>12,
     <1>13, <1>14, <1>15, <1>16, <1>17 DEF Next, Proceed, Upload

\* The state before the first update has its types and satisfies the invariant.
LEMMA PublishInit == Init => IInv
<1> SUFFICES ASSUME Init PROVE IInv
  OBVIOUS
<1> USE PublishAssumption DEF Init
<1>1. TypeOK
  BY DEF TypeOK, Manifests, Steps, Answers
<1>2. UploadsOwn
  BY DEF UploadsOwn, Running
<1>3. RefsCovered
  BY DEF RefsCovered
<1>4. PublishedLate
  BY DEF PublishedLate, Manifests
<1>5. NoneMissing
  BY DEF NoneMissing, Manifests
<1>6. Answered
  BY DEF Answered
<1>7. QED
  BY <1>1, <1>2, <1>3, <1>4, <1>5, <1>6 DEF IInv

\* Publishing keeps the types of its state.
THEOREM PublishTypeCorrect == Spec => []TypeOK
<1>1. Init => TypeOK
  BY PublishInit DEF IInv
<1>2. QED
  BY <1>1, PublishTypeStep, PTL DEF Spec

-----------------------------------------------------------------------------
(* NoDanglingReference *)

\* The part of the invariant that is not about types.
Inv == UploadsOwn /\ RefsCovered /\ PublishedLate /\ NoneMissing /\ Answered

\* A new manifest takes over references that are stored already.
LEMMA LoadInv ==
    ASSUME IInv, NEW u \in Updates, Load(u)
    PROVE  Inv'
<1> USE PublishAssumption DEF IInv, Inv, TypeOK
<1> USE DEF Load, Goto, uploadVars
<1>1. u \notin audit /\ \A s \in Sites : deployed[s] # u
  BY DEF PublishedLate
<1>2. \A v \in Manifests \ {u} : refs'[v] = refs[v]
  BY DEF Manifests
<1>3. \A b \in refs'[u] : \/ b \in blobs
                          \/ u \notin Deletions /\ \E f \in FilesOf[u] : BlobOf[f] = b
                          \/ u \in Deletions /\ b \in refs[u]
  <2>1. CASE u \in Deletions
    BY <2>1
  <2>2. CASE u \notin Deletions
    <3> DEFINE base == deployed[SiteOf[u]]
               known == IF base = None THEN {} ELSE refs[base]
               own == {BlobOf[f] : f \in FilesOf[u]}
    <3>1. known \subseteq blobs
      BY DEF NoneMissing
    <3>2. PICK kept \in SUBSET known : refs' = [refs EXCEPT ![u] = own \cup kept]
      BY <2>2
    <3>3. refs'[u] = own \cup kept
      BY <3>2 DEF Manifests
    <3>4. QED
      BY <2>2, <3>1, <3>3
  <2>3. QED
    BY <2>1, <2>2
<1>4. UploadsOwn'
  BY DEF UploadsOwn, Running
<1>5. RefsCovered'
  <2>1. pc'[u] = IF u \in Deletions THEN "audit" ELSE "prepare"
    OBVIOUS
  <2>2. \A v \in Updates \ {u} : pc'[v] = pc[v] /\ refs'[v] = refs[v]
    BY <1>2 DEF Manifests
  <2>3. \A b \in refs[u] : b \in blobs
    BY DEF RefsCovered
  <2>4. QED
    BY <1>3, <2>1, <2>2, <2>3 DEF RefsCovered, Running
<1>6. PublishedLate'
  BY <1>1 DEF PublishedLate
<1>7. NoneMissing'
  BY <1>1, <1>2 DEF NoneMissing, Manifests
<1>8. Answered'
  BY DEF Answered
<1>9. QED
  BY <1>4, <1>5, <1>6, <1>7, <1>8

\* An upload stores its blob, hands on to its write, or fails the update.
LEMMA UploadInv ==
    ASSUME IInv, NEW u \in Updates, NEW f \in Files, Acquire(u, f) \/ Upload(u, f)
    PROVE  Inv'
<1> USE PublishAssumption DEF IInv, Inv, TypeOK
<1> USE DEF Upload, Acquire, BlobExists, BlobMissing, WriteBlob, UploadFails, Returns,
            Running, storeVars
<1>1. /\ UNCHANGED <<deployed, refs, audit, pc, answer>>
      /\ blobs \subseteq blobs'
      /\ failed \subseteq failed'
  OBVIOUS
<1>2. f \in waiting[u] \cup Running(u)
  OBVIOUS
<1>3. /\ (waiting[u] \cup Running(u))' \subseteq waiting[u] \cup Running(u)
      /\ waiting[u] \cup Running(u) \subseteq (waiting[u] \cup Running(u))' \cup {f}
      /\ f \in (waiting[u] \cup Running(u))' \/ BlobOf[f] \in blobs' \/ u \in failed'
  OBVIOUS
<1>4. \A v \in Updates \ {u} :
          (waiting[v] \cup Running(v))' = waiting[v] \cup Running(v)
  OBVIOUS
<1> HIDE DEF Upload, Acquire, BlobExists, BlobMissing, WriteBlob, UploadFails, Returns,
             Running, storeVars
<1>5. UploadsOwn'
  BY <1>1, <1>3, <1>4 DEF UploadsOwn
<1>6. RefsCovered'
  <2> SUFFICES ASSUME NEW v \in Updates, NEW b \in refs[v]
               PROVE \/ b \in blobs'
                     \/ pc[v] = "prepare" /\ \E g \in FilesOf[v] : BlobOf[g] = b
                     \/ pc[v] = "done" /\ v \notin audit
                     \/ pc[v] = "upload" /\
                            \/ v \in failed'
                            \/ \E g \in (waiting[v] \cup Running(v))' : BlobOf[g] = b
    BY <1>1 DEF RefsCovered
  <2>1. CASE v = u
    BY <1>1, <1>3, <2>1 DEF RefsCovered
  <2>2. CASE v # u
    BY <1>1, <1>4, <2>2 DEF RefsCovered
  <2>3. QED
    BY <2>1, <2>2
<1>7. PublishedLate' /\ NoneMissing' /\ Answered'
  BY <1>1 DEF PublishedLate, NoneMissing, Answered
<1>8. QED
  BY <1>5, <1>6, <1>7

\* The steps of the request itself, from staging to its answer.
LEMMA ProceedInv ==
    ASSUME IInv, NEW u \in Updates,
           \/ Reject(u) \/ Stage(u) \/ Join(u) \/ AppendAudit(u) \/ AppendAuditFails(u)
           \/ Commit(u) \/ CommitFails(u) \/ FailAfterCommit(u) \/ Finish(u)
    PROVE  Inv'
<1> USE PublishAssumption DEF IInv, Inv, TypeOK, Goto, End, storeVars, uploadVars
<1>1. CASE Reject(u) \/ CommitFails(u) \/ FailAfterCommit(u) \/ Finish(u)
           \/ (Join(u) /\ u \in failed)
  <2> USE <1>1 DEF Reject, CommitFails, FailAfterCommit, Finish, Join
  <2>1. /\ UNCHANGED <<storeVars, uploadVars>>
        /\ pc[u] \in {"prepare", "upload", "audit", "commit", "after"}
        /\ pc' = [pc EXCEPT ![u] = "done"]
        /\ answer'[u] # "none"
        /\ \A v \in Updates \ {u} : answer'[v] = answer[v]
        /\ waiting[u] \cup Running(u) = {}
    BY DEF UploadsOwn, Running
  <2> HIDE <1>1 DEF Reject, CommitFails, FailAfterCommit, Finish, Join
  <2>2. UploadsOwn'
    BY <2>1 DEF UploadsOwn, Running
  <2>3. RefsCovered'
    BY <2>1 DEF RefsCovered, Running, NoneMissing
  <2>4. PublishedLate' /\ NoneMissing' /\ Answered'
    BY <2>1 DEF PublishedLate, NoneMissing, Answered
  <2>5. QED
    BY <2>2, <2>3, <2>4
<1>2. CASE Stage(u)
  <2> USE <1>2 DEF Stage
  <2>1. UploadsOwn'
    BY DEF UploadsOwn, Running
  <2>2. RefsCovered'
    BY DEF RefsCovered, Running
  <2>3. PublishedLate' /\ NoneMissing' /\ Answered'
    BY DEF PublishedLate, NoneMissing, Answered
  <2>4. QED
    BY <2>1, <2>2, <2>3
<1>3. CASE Join(u) /\ u \notin failed
  <2> USE <1>3 DEF Join
  <2>1. UploadsOwn'
    BY DEF UploadsOwn, Running
  <2>2. RefsCovered'
    BY DEF RefsCovered, Running
  <2>3. PublishedLate' /\ NoneMissing' /\ Answered'
    BY DEF PublishedLate, NoneMissing, Answered
  <2>4. QED
    BY <2>1, <2>2, <2>3
<1>4. CASE AppendAudit(u)
  <2> USE <1>4 DEF AppendAudit
  <2>1. UploadsOwn'
    BY DEF UploadsOwn, Running
  <2>2. RefsCovered'
    BY DEF RefsCovered, Running
  <2>3. refs[u] \subseteq blobs
    BY DEF RefsCovered
  <2>4. PublishedLate' /\ NoneMissing' /\ Answered'
    BY <2>3 DEF PublishedLate, NoneMissing, Answered
  <2>5. QED
    BY <2>1, <2>2, <2>4
<1>5. CASE Commit(u)
  <2> USE <1>5 DEF Commit
  <2>1. UploadsOwn'
    BY DEF UploadsOwn, Running
  <2>2. RefsCovered'
    BY DEF RefsCovered, Running
  <2>3. refs[u] \subseteq blobs
    BY DEF RefsCovered
  <2>4. \A s \in Sites : deployed'[s] \in {deployed[s], u, None}
    OBVIOUS
  <2>5. PublishedLate'
    BY <2>4 DEF PublishedLate, Manifests
  <2>6. NoneMissing'
    BY <2>3, <2>4 DEF NoneMissing, Manifests
  <2>7. Answered'
    BY DEF Answered
  <2>8. QED
    BY <2>1, <2>2, <2>5, <2>6, <2>7
<1>6. CASE AppendAuditFails(u)
  <2> USE <1>6 DEF AppendAuditFails
  <2>1. UploadsOwn'
    BY DEF UploadsOwn, Running
  <2>2. refs[u] \subseteq blobs
    BY DEF RefsCovered
  <2>3. RefsCovered'
    BY <2>2 DEF RefsCovered, Running
  <2>4. PublishedLate' /\ NoneMissing' /\ Answered'
    BY <2>2 DEF PublishedLate, NoneMissing, Answered
  <2>5. QED
    BY <2>1, <2>3, <2>4
<1>7. QED
  BY <1>1, <1>2, <1>3, <1>4, <1>5, <1>6

\* A crash loses updates in progress, none of which has been deployed half-way.
LEMMA CrashInv ==
    ASSUME IInv, NEW p \in Servers, Crash(p)
    PROVE  Inv'
<1> USE PublishAssumption DEF IInv, Inv, TypeOK, Crash, storeVars
<1>1. UploadsOwn'
  BY DEF UploadsOwn, Running
<1>2. RefsCovered'
  <2> SUFFICES ASSUME NEW u \in Updates, NEW b \in refs[u], b \notin blobs
               PROVE \/ pc'[u] = "prepare" /\ \E f \in FilesOf[u] : BlobOf[f] = b
                     \/ pc'[u] = "done" /\ u \notin audit
                     \/ pc'[u] = "upload" /\
                            \/ u \in failed
                            \/ \E f \in (waiting[u] \cup Running(u))' : BlobOf[f] = b
    BY DEF RefsCovered
  <2>1. u \notin audit
    BY DEF NoneMissing
  <2>2. CASE pc'[u] = "done"
    BY <2>1, <2>2
  <2>3. CASE pc'[u] # "done"
    <3>1. pc'[u] = pc[u] /\ (waiting[u] \cup Running(u))' = waiting[u] \cup Running(u)
      BY <2>3 DEF Running
    <3>2. QED
      BY <2>3, <3>1 DEF RefsCovered
  <2>4. QED
    BY <2>2, <2>3
<1>3. PublishedLate' /\ NoneMissing' /\ Answered'
  BY DEF PublishedLate, NoneMissing, Answered
<1>4. QED
  BY <1>1, <1>2, <1>3

\* The invariant is inductive.
LEMMA PublishInvStep == IInv /\ [Next]_vars => IInv'
<1> SUFFICES ASSUME IInv, [Next]_vars PROVE IInv'
  OBVIOUS
<1>1. TypeOK'
  BY PublishTypeStep DEF IInv
<1>2. ASSUME NEW u \in Updates, Proceed(u) PROVE Inv'
  <2>1. ASSUME NEW f \in Files, Acquire(u, f) PROVE Inv'
    BY <2>1, UploadInv
  <2>2. QED
    BY <1>2, <2>1, ProceedInv DEF Proceed
<1>3. ASSUME NEW u \in Updates, Load(u) PROVE Inv'
  BY <1>3, LoadInv
<1>4. ASSUME NEW u \in Updates, NEW f \in Files, Upload(u, f) PROVE Inv'
  BY <1>4, UploadInv
<1>5. ASSUME NEW p \in Servers, Crash(p) PROVE Inv'
  BY <1>5, CrashInv
<1>6. ASSUME UNCHANGED vars PROVE Inv'
  <2>0. UNCHANGED <<storeVars, pc, uploadVars, answer>>
    BY <1>6 DEF vars
  <2>1. UploadsOwn'
    BY <2>0 DEF uploadVars, IInv, UploadsOwn, Running
  <2>2. RefsCovered'
    BY <2>0 DEF storeVars, uploadVars, IInv, RefsCovered, Running
  <2>3. PublishedLate' /\ NoneMissing' /\ Answered'
    BY <2>0 DEF storeVars, IInv, PublishedLate, NoneMissing, Answered
  <2>4. QED
    BY <2>1, <2>2, <2>3 DEF Inv
<1>7. Inv'
  <2>1. CASE Next
    BY <1>2, <1>3, <1>4, <1>5, <2>1 DEF Next
  <2>2. QED
    BY <1>6, <2>1
<1>8. QED
  BY <1>1, <1>7 DEF IInv, Inv

\* In every state of publishing, whatever is not stored yet belongs to an update
\* that has not got past its uploads.
THEOREM PublishInvariantHolds == Spec => []IInv
<1>1. QED
  BY PublishInit, PublishInvStep, PTL DEF Spec

\* No site and no audit record ever refers to a blob that is not stored.
THEOREM NothingDangles == Spec => []NoDanglingReference
<1>1. IInv => NoDanglingReference
  BY DEF IInv, NoneMissing, NoDanglingReference
<1>2. QED
  BY <1>1, PublishInvariantHolds, PTL

\* Only the commit of an update changes a site, and only the update's own.
LEMMA OnlyCommitsDeploy ==
    ASSUME TypeOK, [Next]_vars, NEW s \in Sites, deployed'[s] # deployed[s]
    PROVE  \E u \in Updates : Commit(u) /\ SiteOf[u] = s
<1> USE DEF storeVars
<1>1. ASSUME NEW u \in Updates, Commit(u) PROVE SiteOf[u] = s
  BY <1>1 DEF Commit, TypeOK
<1>2. ASSUME NEW u \in Updates, Load(u) PROVE FALSE
  BY <1>2 DEF Load
<1>3. ASSUME NEW u \in Updates, Proceed(u), ~ Commit(u) PROVE FALSE
  BY <1>3 DEF Proceed, Reject, Stage, Acquire, Join, AppendAudit, AppendAuditFails,
              CommitFails, FailAfterCommit, Finish
<1>4. ASSUME NEW u \in Updates, NEW f \in Files, Upload(u, f) PROVE FALSE
  BY <1>4 DEF Upload, BlobExists, BlobMissing, WriteBlob, UploadFails
<1>5. ASSUME NEW p \in Servers, Crash(p) PROVE FALSE
  BY <1>5 DEF Crash
<1>6. CASE UNCHANGED vars
  BY <1>6 DEF vars
<1>7. QED
  BY <1>1, <1>2, <1>3, <1>4, <1>5, <1>6 DEF Next

\* With auditing on, a site changes only by an update that is on record.
THEOREM AuditedFirst == Spec => ChangesAreAudited
<1> DEFINE Recorded ==
        Collect =>
            \A s \in Sites : deployed[s] # deployed'[s] =>
                \E u \in audit : SiteOf[u] = s /\ pc[u] = "commit" /\ pc'[u] # "commit"
<1>1. IInv /\ [Next]_vars => [Recorded]_vars
  <2> SUFFICES ASSUME IInv, [Next]_vars, Collect, NEW s \in Sites,
                      deployed[s] # deployed'[s]
               PROVE  \E u \in audit :
                          SiteOf[u] = s /\ pc[u] = "commit" /\ pc'[u] # "commit"
    OBVIOUS
  <2>1. PICK u \in Updates : Commit(u) /\ SiteOf[u] = s
    BY OnlyCommitsDeploy DEF IInv
  <2>2. pc[u] = "commit" /\ pc'[u] # "commit"
    BY <2>1 DEF Commit, Goto, IInv, TypeOK
  <2>3. u \in audit
    BY <2>2 DEF IInv, PublishedLate
  <2>4. QED
    BY <2>1, <2>2, <2>3
<1>2. QED
  BY <1>1, PublishInvariantHolds, PTL DEF Spec, ChangesAreAudited

-----------------------------------------------------------------------------
(* The refinement of SiteUpdates *)

\* In every state with the invariant, what a site serves is whole.
LEMMA ServedWhole ==
    ASSUME IInv, NEW s \in Sites
    PROVE  Served(s) = IF deployed[s] = None THEN None ELSE Promise!Whole(deployed[s])
BY DEF IInv, NoneMissing, Served, Promise!Whole

\* The initial states of publishing are those of its promise.
LEMMA PromiseInit == Init => Promise!Init
<1> SUFFICES ASSUME Init PROVE Promise!Init
  OBVIOUS
<1>1. ASSUME NEW s \in Sites
      PROVE  Served(s) \in {Promise!Whole(v) : v \in Sites} \cup {None}
  BY PublishInit, ServedWhole DEF Init
<1>2. QED
  BY <1>1 DEF Init, Promise!Init

\* A step that neither deploys nor ends an update does not show.
LEMMA UnseenStep ==
    ASSUME IInv, IInv', UNCHANGED <<deployed, answer>>,
           \A u \in Updates : /\ pc'[u] = "done" <=> pc[u] = "done"
                              /\ pc'[u] = "after" <=> pc[u] = "after"
    PROVE  UNCHANGED Promise!siteVars
<1>1. \A s \in Sites : Served(s)' = Served(s)
  BY DEF IInv, NoneMissing, Served
<1>2. QED
  BY <1>1 DEF Promise!siteVars

\* An update that ends is answered in the promise as well.
LEMMA EndStep ==
    ASSUME IInv, IInv', NEW u \in Updates, NEW what, UNCHANGED deployed,
           pc[u] # "done", End(u, what)
    PROVE  Promise!Tell(u, what)
<1>1. \A s \in Sites : Served(s)' = Served(s)
  BY DEF IInv, NoneMissing, Served
<1>2. QED
  BY <1>1 DEF End, Goto, Promise!Tell, IInv, TypeOK

\* Every step of publishing is a step that the promise allows.
LEMMA PromiseStep == IInv /\ IInv' /\ [Next]_vars => [Promise!Next]_Promise!siteVars
<1> SUFFICES ASSUME IInv, IInv', [Next]_vars PROVE [Promise!Next]_Promise!siteVars
  OBVIOUS
<1> USE DEF Goto
<1>1. ASSUME NEW u \in Updates, Load(u) PROVE UNCHANGED Promise!siteVars
  BY <1>1, UnseenStep DEF Load, IInv, TypeOK
<1>2. ASSUME NEW u \in Updates, Stage(u) \/ AppendAudit(u)
      PROVE  UNCHANGED Promise!siteVars
  BY <1>2, UnseenStep DEF Stage, AppendAudit, storeVars, IInv, TypeOK
<1>3. ASSUME NEW u \in Updates, NEW f \in Files, Acquire(u, f) \/ Upload(u, f)
      PROVE  UNCHANGED Promise!siteVars
  BY <1>3, UnseenStep
     DEF Acquire, Upload, BlobExists, BlobMissing, WriteBlob, UploadFails, storeVars
<1>4. ASSUME NEW u \in Updates, Reject(u) \/ AppendAuditFails(u) \/ FailAfterCommit(u)
      PROVE  Promise!Fail(u)
  <2>1. pc[u] \in {"prepare", "audit", "after"} /\ End(u, "error") /\ UNCHANGED deployed
    BY <1>4 DEF Reject, AppendAuditFails, FailAfterCommit, storeVars
  <2>2. QED
    BY <2>1, EndStep DEF Promise!Fail
<1>5. ASSUME NEW u \in Updates, Join(u)
      PROVE  Promise!Fail(u) \/ UNCHANGED Promise!siteVars
  <2>1. CASE u \in failed
    BY <1>5, <2>1, EndStep DEF Join, storeVars, Promise!Fail
  <2>2. CASE u \notin failed
    BY <1>5, <2>2, UnseenStep DEF Join, storeVars, IInv, TypeOK
  <2>3. QED
    BY <2>1, <2>2
<1>6. ASSUME NEW u \in Updates, Commit(u) PROVE Promise!TakeEffect(u)
  <2> DEFINE c == IF u \in Deletions THEN None ELSE u
  <2>1. /\ pc[u] = "commit"
        /\ pc' = [pc EXCEPT ![u] = "after"]
        /\ deployed' = [deployed EXCEPT ![SiteOf[u]] = c]
        /\ UNCHANGED answer
    BY <1>6 DEF Commit
  <2>2. c = None <=> u \in Deletions
    BY PublishAssumption DEF Manifests
  <2>3. \A s \in Sites : deployed'[s] = IF s = SiteOf[u] THEN c ELSE deployed[s]
    BY <2>1 DEF IInv, TypeOK
  <2> HIDE DEF c
  <2>4. \A s \in Sites :
            Served(s)' = IF deployed'[s] = None THEN None ELSE Promise!Whole(deployed'[s])
    BY DEF IInv, NoneMissing, Served, Promise!Whole
  <2>5. \A s \in Sites :
            Served(s)' = IF s = SiteOf[u]
                         THEN IF u \in Deletions THEN None ELSE Promise!Whole(u)
                         ELSE Served(s)
    BY <2>2, <2>3, <2>4, ServedWhole DEF c
  <2>6. [s \in Sites |-> Served(s)]' =
            [[s \in Sites |-> Served(s)] EXCEPT
                ![SiteOf[u]] = IF u \in Deletions THEN None ELSE Promise!Whole(u)]
    BY <2>5
  <2>7. QED
    BY <2>1, <2>6 DEF Promise!TakeEffect, IInv, TypeOK
<1>7. ASSUME NEW u \in Updates, CommitFails(u) PROVE Promise!Refuse(u) \/ Promise!Fail(u)
  <2>1. PICK why \in {"refused", "error"} : End(u, why)
    BY <1>7 DEF CommitFails
  <2>2. pc[u] = "commit" /\ UNCHANGED deployed
    BY <1>7 DEF CommitFails, storeVars
  <2>3. QED
    BY <2>1, <2>2, EndStep DEF Promise!Refuse, Promise!Fail
<1>8. ASSUME NEW u \in Updates, Finish(u) PROVE Promise!Succeed(u)
  <2>1. pc[u] = "after" /\ End(u, "ok") /\ UNCHANGED deployed
    BY <1>8 DEF Finish, storeVars
  <2>2. QED
    BY <2>1, EndStep DEF Promise!Succeed
<1>9. ASSUME NEW p \in Servers, Crash(p)
      PROVE  \E some \in SUBSET Updates : Promise!Lose(some)
  <2>1. PICK here \in SUBSET Updates :
            here = {u \in Updates : ServerOf[u] = p /\ pc[u] \notin {"idle", "done"}}
    OBVIOUS
  <2>2. UNCHANGED <<blobs, deployed, refs>>
    BY <1>9 DEF Crash, storeVars
  <2>3. \A s \in Sites : Served(s)' = Served(s)
    BY <2>2 DEF Served
  <2>4. Promise!Lose(here)
    BY <1>9, <2>1, <2>3 DEF Crash, Promise!Lose
  <2>5. QED
    BY <2>4
<1>10. CASE UNCHANGED vars
  BY <1>10, UnseenStep DEF vars, storeVars
<1>11. QED
  BY <1>1, <1>2, <1>3, <1>4, <1>5, <1>6, <1>7, <1>8, <1>9, <1>10
     DEF Next, Proceed, Promise!Next

\* Publishing keeps its promise: visitors see whole versions that change at one
\* instant, and the answer to an update agrees with whether it took effect.
THEOREM PromiseKept == Spec => KeepsPromise
<1>1. QED
  BY PromiseInit, PromiseStep, PublishInvariantHolds, PTL
     DEF Spec, KeepsPromise, Promise!Spec

-----------------------------------------------------------------------------
(* The account of the semaphore *)

\* One token for each upload that runs, and a file is not waiting when its upload runs.
Accounted ==
    /\ \A u \in Updates : waiting[u] \cap Running(u) = {}
    /\ \A p \in Servers : IsFiniteSet(RunningAt(p))
    /\ UploadsLimited

\* No upload runs, and no token is taken.
LEMMA AccountedInit == Init => Accounted
<1> SUFFICES ASSUME Init PROVE Accounted
  OBVIOUS
<1>1. ASSUME NEW u \in Updates PROVE waiting[u] = {} /\ Running(u) = {}
  BY DEF Init, Running
<1>2. ASSUME NEW p \in Servers PROVE RunningAt(p) = {}
  BY <1>1 DEF RunningAt
<1>3. ASSUME NEW p \in Servers PROVE semaphore[p] = 0 /\ 0 <= ConcurrentUploads
  BY PublishAssumption DEF Init
<1> QED
  BY <1>1, <1>2, <1>3, FS_EmptySet DEF Accounted, UploadsLimited

\* Steps that neither begin nor end an upload keep the account.
LEMMA AccountKept ==
    ASSUME Accounted, UNCHANGED semaphore,
           \A u \in Updates : Running(u)' = Running(u) /\ waiting'[u] \subseteq waiting[u]
    PROVE  Accounted'
<1>1. ASSUME NEW p \in Servers PROVE RunningAt(p)' = RunningAt(p)
  BY DEF RunningAt
<1>2. ASSUME NEW u \in Updates PROVE waiting'[u] \cap Running(u)' = {}
  BY DEF Accounted
<1> QED
  BY <1>1, <1>2 DEF Accounted, UploadsLimited

\* A goroutine that begins or returns changes the account of its server by one.
LEMMA AccountChanged ==
    ASSUME TypeOK, Accounted, NEW u \in Updates, NEW f \in Files,
           \/ f \notin Running(u) /\ Running(u)' = Running(u) \cup {f}
              /\ semaphore' = [semaphore EXCEPT ![ServerOf[u]] = @ + 1]
              /\ semaphore[ServerOf[u]] < ConcurrentUploads
           \/ f \in Running(u) /\ Running(u)' = Running(u) \ {f}
              /\ semaphore' = [semaphore EXCEPT ![ServerOf[u]] = @ - 1],
           \A v \in Updates \ {u} : Running(v)' = Running(v),
           \A v \in Updates : waiting'[v] \subseteq waiting[v],
           f \notin waiting'[u]
    PROVE  Accounted'
<1> DEFINE p == ServerOf[u]
<1>1. p \in Servers
  BY PublishAssumption
<1>2. ASSUME NEW q \in Servers, q # p PROVE RunningAt(q)' = RunningAt(q) /\ semaphore'[q] = semaphore[q]
  BY <1>2 DEF RunningAt, TypeOK
<1>3. /\ IsFiniteSet(RunningAt(p)) /\ semaphore[p] = Cardinality(RunningAt(p))
      /\ semaphore[p] \in Int /\ semaphore[p] <= ConcurrentUploads
  BY <1>1 DEF Accounted, UploadsLimited, TypeOK
<1>4. CASE f \notin Running(u) /\ Running(u)' = Running(u) \cup {f}
  <2>1. RunningAt(p)' = RunningAt(p) \cup {<<u, f>>} /\ <<u, f>> \notin RunningAt(p)
    BY <1>4 DEF RunningAt
  <2>2. semaphore'[p] = semaphore[p] + 1 /\ semaphore'[p] <= ConcurrentUploads
    BY <1>1, <1>3, <1>4, PublishAssumption DEF TypeOK
  <2>3. IsFiniteSet(RunningAt(p)') /\ semaphore'[p] = Cardinality(RunningAt(p)')
    <3>1. ASSUME NEW S, NEW x, IsFiniteSet(S), x \notin S
          PROVE  IsFiniteSet(S \cup {x}) /\ Cardinality(S \cup {x}) = Cardinality(S) + 1
      BY <3>1, FS_AddElement
    <3> QED
      BY <1>3, <2>1, <2>2, <3>1
  <2> QED
    BY <1>2, <2>2, <2>3, <1>4 DEF Accounted, UploadsLimited
<1>5. CASE f \in Running(u) /\ Running(u)' = Running(u) \ {f}
  <2>1. RunningAt(p)' = RunningAt(p) \ {<<u, f>>} /\ <<u, f>> \in RunningAt(p)
    BY <1>5 DEF RunningAt
  <2>2. semaphore'[p] = semaphore[p] - 1
    BY <1>1, <1>3, <1>5 DEF TypeOK
  <2>3. IsFiniteSet(RunningAt(p)') /\ semaphore'[p] = Cardinality(RunningAt(p)')
    BY <1>3, <2>1, <2>2, FS_RemoveElement
  <2>4. semaphore'[p] <= ConcurrentUploads
    BY <1>3, <2>2, PublishAssumption
  <2> QED
    BY <1>2, <2>3, <2>4, <1>5 DEF Accounted, UploadsLimited
<1> QED
  BY <1>4, <1>5

\* The account holds of every step, failures and crashes included.
LEMMA AccountedStep == IInv /\ Accounted /\ [Next]_vars => Accounted'
<1> SUFFICES ASSUME IInv, Accounted, [Next]_vars PROVE Accounted'
  OBVIOUS
<1>0. TypeOK /\ UploadsOwn /\ UploadsOwn'
  BY PublishInvStep DEF IInv
<1>1. ASSUME NEW u \in Updates, NEW f \in Files,
             BlobExists(u, f) \/ WriteBlob(u, f) \/ UploadFails(u, f)
      PROVE  Accounted'
  <2>1. /\ f \in Running(u) /\ Returns(u, f) /\ waiting' = waiting
    BY <1>1 DEF BlobExists, WriteBlob, UploadFails, Running
  <2>2. Running(u)' = Running(u) \ {f} /\ \A v \in Updates \ {u} : Running(v)' = Running(v)
    BY <1>0, <2>1 DEF Returns, Running, TypeOK
  <2>3. f \notin waiting'[u]
    BY <2>1 DEF Accounted
  <2> QED
    BY <1>0, <2>1, <2>2, <2>3, AccountChanged DEF Returns
<1>2. ASSUME NEW u \in Updates, NEW f \in Files, Acquire(u, f) PROVE Accounted'
  <2>1. /\ f \in waiting[u] /\ waiting' = [waiting EXCEPT ![u] = @ \ {f}]
        /\ semaphore[ServerOf[u]] < ConcurrentUploads
        /\ semaphore' = [semaphore EXCEPT ![ServerOf[u]] = @ + 1]
    BY <1>2 DEF Acquire
  <2>2. Running(u)' = Running(u) \cup {f} /\ \A v \in Updates \ {u} : Running(v)' = Running(v)
    BY <1>0, <1>2 DEF Acquire, Running, TypeOK
  <2>3. f \notin Running(u)
    BY <2>1 DEF Accounted
  <2>4. f \notin waiting'[u] /\ \A v \in Updates : waiting'[v] \subseteq waiting[v]
    BY <1>0, <2>1 DEF TypeOK
  <2> QED
    BY <1>0, <2>1, <2>2, <2>3, <2>4, AccountChanged
<1>3. ASSUME NEW u \in Updates, NEW f \in Files, BlobMissing(u, f) PROVE Accounted'
  <2>1. \A v \in Updates : Running(v)' = Running(v)
    BY <1>0, <1>3 DEF BlobMissing, Running, TypeOK
  <2> QED
    BY <1>3, <2>1, AccountKept DEF BlobMissing
<1>4. ASSUME NEW u \in Updates, Stage(u) PROVE Accounted'
  <2>1. \A v \in Updates : Running(v)' = Running(v)
    BY <1>4 DEF Stage, Running
  <2>2. \A v \in Updates \ {u} : waiting'[v] = waiting[v]
    BY <1>0, <1>4 DEF Stage, TypeOK
  <2>3. Running(u) = {}
    BY <1>0, <1>4 DEF Stage, UploadsOwn
  <2>4. \A p \in Servers : RunningAt(p)' = RunningAt(p)
    BY <2>1 DEF RunningAt
  <2>5. \A v \in Updates : waiting'[v] \cap Running(v)' = {}
    BY <2>1, <2>2, <2>3 DEF Accounted
  <2> QED
    BY <1>4, <2>4, <2>5 DEF Stage, Accounted, UploadsLimited
<1>5. ASSUME NEW p \in Servers, Crash(p) PROVE Accounted'
  <2>1. semaphore' = [semaphore EXCEPT ![p] = 0]
    BY <1>5 DEF Crash
  <2>2. ASSUME NEW u \in Updates, ServerOf[u] = p PROVE Running(u)' = {} /\ waiting'[u] = {}
    BY <1>0, <1>5, <2>2 DEF Crash, UploadsOwn, Running
  <2>3. ASSUME NEW u \in Updates, ServerOf[u] # p
        PROVE  Running(u)' = Running(u) /\ waiting'[u] = waiting[u]
    BY <1>5, <2>3 DEF Crash, Running
  <2>4. RunningAt(p)' = {} /\ semaphore'[p] = 0
    BY <1>0, <2>1, <2>2 DEF RunningAt, TypeOK
  <2>5. ASSUME NEW q \in Servers, q # p
        PROVE  RunningAt(q)' = RunningAt(q) /\ semaphore'[q] = semaphore[q]
    BY <1>0, <2>1, <2>3, <2>5 DEF RunningAt, TypeOK
  <2>6. \A u \in Updates : waiting'[u] \cap Running(u)' = {}
    BY <2>2, <2>3 DEF Accounted
  <2>7. IsFiniteSet(RunningAt(p)') /\ semaphore'[p] = Cardinality(RunningAt(p)')
        /\ semaphore'[p] <= ConcurrentUploads
    BY <2>4, FS_EmptySet, PublishAssumption
  <2> QED
    BY <2>5, <2>6, <2>7 DEF Accounted, UploadsLimited
<1>6. ASSUME UNCHANGED uploadVars PROVE Accounted'
  BY <1>6, AccountKept DEF uploadVars, Running
<1>7. ASSUME NEW u \in Updates,
             \/ Load(u) \/ Reject(u) \/ Join(u) \/ AppendAudit(u) \/ AppendAuditFails(u)
             \/ Commit(u) \/ CommitFails(u) \/ FailAfterCommit(u) \/ Finish(u)
      PROVE  Accounted'
  BY <1>6, <1>7 DEF Load, Reject, Join, AppendAudit, AppendAuditFails, Commit, CommitFails,
                    FailAfterCommit, Finish
<1>8. ASSUME UNCHANGED vars PROVE Accounted'
  BY <1>6, <1>8 DEF vars
<1> QED
  BY <1>1, <1>2, <1>3, <1>4, <1>5, <1>7, <1>8 DEF Next, Proceed, Upload

\* No token is ever lost or returned twice, and no server exceeds its limit, for any
\* number of servers, updates and files.
THEOREM UploadsStayLimited == Spec => []UploadsLimited
<1>1. Spec => []IInv
  BY PublishInvariantHolds
<1>2. Accounted => UploadsLimited
  BY DEF Accounted
<1> QED
  BY <1>1, <1>2, AccountedInit, AccountedStep, PTL DEF Spec

-----------------------------------------------------------------------------
(* Tracing garbage while updates are being published.                        *)

\* The invariant of publishing together with that of the trace.
FullInv == IInv /\ TraceInv

\* Before the trace begins there is nothing to be seen.
LEMMA FullInit == Init /\ TraceInit => FullInv
<1> SUFFICES ASSUME Init, TraceInit PROVE TraceInv
  BY PublishInit DEF FullInv
<1>1. TraceTypeOK /\ SeenOrAudited
  BY DEF TraceInit, TraceTypeOK, SeenOrAudited, Manifests
<1>2. BeforeIsPast
  BY PublishAssumption DEF TraceInit, BeforeIsPast, Manifests
<1> QED
  BY <1>1, <1>2 DEF TraceInit, TraceInv

\* No step takes a record out of the audit log, and a manifest gets its references when an
\* update has been loaded, once and for all.
LEMMA RecordsAndReferences ==
    ASSUME [Next]_vars
    PROVE  /\ audit \subseteq audit'
           /\ refs' = refs \/ \E u \in Updates : Load(u)
<1> USE DEF storeVars
<1>1. CASE \E u \in Updates : Load(u)
  BY <1>1 DEF Load
<1>2. CASE \E u \in Updates : Proceed(u)
  BY <1>2 DEF Proceed, Reject, Stage, Acquire, Join, AppendAudit, AppendAuditFails,
              Commit, CommitFails, FailAfterCommit, Finish
<1>3. CASE \E u \in Updates, f \in Files : Upload(u, f)
  BY <1>3 DEF Upload, BlobExists, BlobMissing, WriteBlob, UploadFails
<1>4. CASE UNCHANGED vars \/ \E p \in Servers : Crash(p)
  BY <1>4 DEF vars, Crash
<1>5. QED
  BY <1>1, <1>2, <1>3, <1>4 DEF Next

\* An update that has committed has done so for good.
LEMMA PastStaysPast ==
    ASSUME IInv, [Next]_vars, NEW u \in Updates, pc[u] \in {"after", "done"}
    PROVE  pc'[u] \in {"after", "done"}
<1> USE DEF IInv, TypeOK
<1>1. CASE \E v \in Updates : Load(v)
  BY <1>1 DEF Load, Goto
<1>2. CASE \E v \in Updates : Proceed(v)
  BY <1>2 DEF Proceed, Reject, Stage, Acquire, Join, AppendAudit, AppendAuditFails, Goto, End,
              Commit, CommitFails, FailAfterCommit, Finish
<1>3. CASE \E v \in Updates, f \in Files : Upload(v, f)
  BY <1>3 DEF Upload, BlobExists, BlobMissing, WriteBlob, UploadFails
<1>4. CASE UNCHANGED vars \/ \E p \in Servers : Crash(p)
  BY <1>4 DEF vars, Crash
<1>5. QED
  BY <1>1, <1>2, <1>3, <1>4 DEF Next

\* Publishing cannot take away what the trace has seen: a site that changes is on
\* record from then on, and a deployed manifest's references do not change.
LEMMA PublishingKeepsTrace ==
    ASSUME FullInv, [Next]_vars, UNCHANGED traceVars
    PROVE  FullInv'
<1> USE DEF FullInv
<1>1. IInv'
  BY PublishInvStep
<1>2. audit \subseteq audit'
  BY RecordsAndReferences
<1>3. ASSUME NEW s \in Sites, deployed[s] # None PROVE refs'[deployed[s]] = refs[deployed[s]]
  <2> USE DEF storeVars
  <2>1. ASSUME NEW u \in Updates, Load(u) PROVE refs'[deployed[s]] = refs[deployed[s]]
    <3>1. deployed[s] # u
      BY <2>1 DEF Load, IInv, PublishedLate
    <3>2. refs' = refs \/ \E x \in SUBSET Blobs : refs' = [refs EXCEPT ![u] = x]
      <4>1. TypeOK'
        BY <1>1 DEF IInv
      <4>2. CASE u \in Deletions
        BY <2>1, <4>2 DEF Load
      <4>3. CASE u \notin Deletions
        BY <2>1, <4>1, <4>3 DEF Load, IInv, TypeOK, Manifests
      <4>4. QED
        BY <4>2, <4>3
    <3>3. QED
      BY <1>3, <3>1, <3>2 DEF IInv, TypeOK
  <2>2. QED
    BY <2>1, RecordsAndReferences
<1>4. SeenOrAudited'
  <2> SUFFICES ASSUME Collect, tracing \in {"sites", "audit"}, NEW s \in Sites \ unvisited
               PROVE  \/ deployed'[s] = None
                      \/ deployed'[s] \in audit' /\ deployed'[s] # before[s]
                      \/ refs'[deployed'[s]] \cap allBlobs \subseteq liveBlobs
    BY DEF SeenOrAudited, traceVars
  <2>1. CASE deployed'[s] = deployed[s]
    BY <1>2, <1>3, <2>1 DEF TraceInv, SeenOrAudited
  <2>2. CASE deployed'[s] # deployed[s]
    <3>1. PICK u \in Updates : Commit(u) /\ SiteOf[u] = s
      BY <2>2, OnlyCommitsDeploy DEF IInv
    <3>2. u \in audit
      BY <3>1 DEF Commit, IInv, PublishedLate
    <3>3. deployed'[s] \in {u, None}
      BY <3>1 DEF Commit, IInv, TypeOK
    <3>4. before[s] # u
      BY <3>1 DEF Commit, TraceInv, BeforeIsPast
    <3>5. QED
      BY <1>2, <3>2, <3>3, <3>4
  <2>3. QED
    BY <2>1, <2>2
<1>5. BeforeIsPast'
  BY PastStaysPast DEF TraceInv, BeforeIsPast, traceVars
<1>6. QED
  BY <1>1, <1>2, <1>4, <1>5 DEF TraceInv, TraceTypeOK, traceVars

\* Each step of the trace accounts for what it visits.
LEMMA TraceKeepsTrace ==
    ASSUME FullInv, TraceStep
    PROVE  FullInv'
<1> USE DEF FullInv, TraceInv, TraceTypeOK
<1>1. UNCHANGED vars
  BY DEF TraceStep, EnumerateBlobs, TraceSite, SitesTraced, TraceAudit, TraceFails,
         WithdrawRecord
<1>2. IInv'
  BY <1>1, PublishInvStep
<1>3. ASSUME EnumerateBlobs PROVE TraceInv'
  <2>1. TraceTypeOK' /\ SeenOrAudited' /\ tracing' # "audit"
    BY <1>1, <1>3 DEF EnumerateBlobs, SeenOrAudited, IInv, TypeOK, vars, storeVars
  <2>2. BeforeIsPast'
    BY <1>1, <1>3 DEF EnumerateBlobs, BeforeIsPast, IInv, PublishedLate, vars
  <2>3. QED
    BY <2>1, <2>2
<1>4. ASSUME NEW s \in Sites, TraceSite(s) PROVE TraceInv'
  <2>1. TraceTypeOK' /\ BeforeIsPast' /\ (tracing = "audit" => unvisited = {})'
    BY <1>1, <1>4 DEF TraceSite, BeforeIsPast, vars, storeVars
  <2>2. \A q \in Sites \ unvisited' :
            q = s \/ (q \in Sites \ unvisited)
    BY <1>4 DEF TraceSite
  <2>3. SeenOrAudited'
    BY <1>1, <1>4, <2>2 DEF TraceSite, SeenOrAudited, vars, storeVars
  <2>4. QED
    BY <2>1, <2>3
<1>5. ASSUME SitesTraced PROVE TraceInv'
  BY <1>1, <1>5 DEF SitesTraced, SeenOrAudited, BeforeIsPast, vars, storeVars
<1>6. ASSUME TraceAudit \/ TraceFails PROVE TraceInv'
  BY <1>1, <1>6 DEF TraceAudit, TraceFails, SeenOrAudited, BeforeIsPast, vars, storeVars
<1>7. ASSUME NEW u \in Updates, WithdrawRecord(u) PROVE TraceInv'
  BY <1>1, <1>7 DEF WithdrawRecord, SeenOrAudited, BeforeIsPast, vars, storeVars
<1>8. QED
  BY <1>2, <1>3, <1>4, <1>5, <1>6, <1>7 DEF TraceStep

\* With auditing on, what garbage tracing finds dead is no part of any site that is
\* deployed when it reads the audit log, unless the site was published since the trace
\* began and its record has been detached or removed by then.
THEOREM DeployedIsNotDead == SpecWithTrace => TraceSparesDeployed
<1> DEFINE Spared ==
        Collect /\ tracing = "audit" /\ tracing' = "done" =>
            \A s \in Sites :
                /\ deployed[s] # None
                /\ deployed[s] \in withdrawn => deployed[s] = before[s]
                => refs[deployed[s]] \cap allBlobs \subseteq liveBlobs'
           Both == (Next /\ UNCHANGED traceVars) \/ TraceStep
<1>1. FullInv /\ [Both]_allVars => FullInv'
  BY PublishingKeepsTrace, TraceKeepsTrace DEF allVars
<1>2. FullInv /\ [Both]_allVars => [Spared]_allVars
  <2> SUFFICES ASSUME FullInv, [Both]_allVars, Collect, tracing = "audit", tracing' = "done",
                      NEW s \in Sites, deployed[s] # None,
                      deployed[s] \in withdrawn => deployed[s] = before[s]
               PROVE  refs[deployed[s]] \cap allBlobs \subseteq liveBlobs'
    OBVIOUS
  <2>1. TraceStep
    BY DEF allVars, traceVars
  <2>2. TraceAudit
    BY <2>1 DEF TraceStep, EnumerateBlobs, TraceSite, SitesTraced, TraceFails, WithdrawRecord
  <2>3. deployed[s] \in audit \ withdrawn \/ refs[deployed[s]] \cap allBlobs \subseteq liveBlobs
    BY DEF FullInv, TraceInv, SeenOrAudited
  <2>4. QED
    BY <2>2, <2>3 DEF TraceAudit
<1>3. QED
  BY FullInit, <1>1, <1>2, PTL DEF SpecWithTrace, TraceSparesDeployed
=============================================================================
