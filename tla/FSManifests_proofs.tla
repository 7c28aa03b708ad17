------------------------- MODULE FSManifests_proofs -------------------------
(* Proofs about the filesystem backend's manifests, for every set of sites,  *)
(* requests and manifests.                                                   *)
EXTENDS FSManifests, TLAPS

\* Only manifests with files get as far as being renamed into place: what the
\* types need to know of the program's order.
CommitsNonEmpty ==
    \A r \in Requests : pc[r] \in {"lookup", "mkdir", "rename"} => new[r] # Empty

\* The types, made inductive.
TypeInv == TypeOK /\ CommitsNonEmpty

\* The backend starts with the types, and with nothing to commit.
LEMMA TypeInit == Init => TypeInv
<1> SUFFICES ASSUME Init PROVE TypeInv
  OBVIOUS
<1>1. domainDir \in BOOLEAN
  <2>1. domainDir = (\E s \in Sites : link[s] # None)
    BY DEF Init
  <2>2. QED
    BY <2>1, Zenon
<1>2. link \in [Sites -> MaybeInode]
  BY DEF Init
<1>3. file \in [Inodes -> [data : Contents \cup {Empty}, mtime : Nat]]
  BY FSAssumption DEF Init
<1>4. CommitsNonEmpty
  BY DEF Init, CommitsNonEmpty
<1>5. QED
  BY <1>1, <1>2, <1>3, <1>4
     DEF Init, TypeInv, TypeOK, MaybeInode, Steps, Answers

\* Every step keeps the types.
LEMMA TypeStep == TypeInv /\ [Next]_vars => TypeInv'
<1> SUFFICES ASSUME TypeOK, CommitsNonEmpty, [Next]_vars
             PROVE  TypeInv'
  BY DEF TypeInv
<1> USE FSAssumption DEF TypeInv, TypeOK, CommitsNonEmpty, Here, Goto, Tell, fsVars, reqVars
<1>1. ASSUME NEW r \in Requests, Submit(r) PROVE TypeInv'
  BY <1>1 DEF Submit, Publish, Steps
<1>2. ASSUME NEW r \in Requests, GetStat(r) PROVE TypeInv'
  BY <1>2 DEF GetStat, Steps
<1>3. ASSUME NEW r \in Requests, GetRead(r) PROVE TypeInv'
  BY <1>3 DEF GetRead, Publish, Steps
<1>4. ASSUME NEW r \in Requests, GetMissing(r) PROVE TypeInv'
  BY <1>4 DEF GetMissing, Steps, Answers
<1>5. ASSUME NEW r \in Requests, StageWrite(r) PROVE TypeInv'
  BY <1>5 DEF StageWrite, Steps, Inodes
<1>6. ASSUME NEW r \in Requests, StageRename(r) PROVE TypeInv'
  BY <1>6 DEF StageRename, Steps
<1>7. ASSUME NEW r \in Requests, Open(r) PROVE TypeInv'
  BY <1>7 DEF Open, Steps, Checks, MaybeInode
<1>8. ASSUME NEW r \in Requests, Lock(r) PROVE TypeInv'
  BY <1>8 DEF Lock, Steps, Checks
<1>9. ASSUME NEW r \in Requests, CheckFrozen(r) PROVE TypeInv'
  BY <1>9 DEF CheckFrozen, Refuse, Effect, Steps, Checks, Effects, Answers
<1>10. ASSUME NEW r \in Requests, PreconditionMissing(r) PROVE TypeInv'
  BY <1>10 DEF PreconditionMissing, Refuse, Steps, Answers
<1>11. ASSUME NEW r \in Requests, CheckUnmodifiedSince(r) PROVE TypeInv'
  <2> USE <1>11 DEF CheckUnmodifiedSince
  <2>1. pc' \in [Requests -> Steps] /\ CommitsNonEmpty'
    BY DEF Refuse, Steps, Checks
  <2>2. answer' \in [Requests -> Answers]
    BY DEF Refuse, Answers
  <2>3. UNCHANGED <<link, staged, file, clock, domainDir, marker, holder, new, statted,
                    loaded, fd>>
    OBVIOUS
  <2>4. QED
    BY <2>1, <2>2, <2>3
<1>12. ASSUME NEW r \in Requests, CheckMatch(r) PROVE TypeInv'
  <2> USE <1>12 DEF CheckMatch
  <2>1. pc' \in [Requests -> Steps] /\ CommitsNonEmpty'
    BY DEF Refuse, Effect, Steps, Effects
  <2>2. answer' \in [Requests -> Answers]
    BY DEF Refuse, Answers
  <2>3. UNCHANGED <<link, staged, file, clock, domainDir, marker, holder, new, statted,
                    loaded, fd>>
    OBVIOUS
  <2>4. QED
    BY <2>1, <2>2, <2>3
<1>13. ASSUME NEW r \in Requests, LookupStaged(r) PROVE TypeInv'
  BY <1>13 DEF LookupStaged, Refuse, Steps, Effects, Answers
<1>14. ASSUME NEW r \in Requests, MakeDomain(r) PROVE TypeInv'
  BY <1>14 DEF MakeDomain, Steps, Effects
<1>15. ASSUME NEW r \in Requests, CommitRename(r) PROVE TypeInv'
  <2> USE <1>15 DEF CommitRename
  <2>1. new[r] \in Contents
    BY DEF TypeInv
  <2>2. pc' \in [Requests -> Steps] /\ CommitsNonEmpty'
    BY DEF Steps
  <2>3. answer' \in [Requests -> Answers]
    BY ZenonT(40) DEF Answers
  <2>4. link' \in [Sites -> MaybeInode] /\ staged' \in [Contents -> Requests \cup {None}]
    <3>1. CASE staged[new[r]] = None
      BY <3>1
    <3>2. CASE staged[new[r]] # None
      <4>1. staged[new[r]] \in MaybeInode
        BY <2>1 DEF MaybeInode, Inodes
      <4>2. link' = [link EXCEPT ![SiteOf[r]] = staged[new[r]]]
        BY <3>2
      <4>3. staged' = [staged EXCEPT ![new[r]] = None]
        BY <3>2
      <4>4. QED
        BY <4>1, <4>2, <4>3
    <3>3. QED
      BY <3>1, <3>2
  <2>5. QED
    BY <2>2, <2>3, <2>4
<1>16. ASSUME NEW r \in Requests, Remove(r) PROVE TypeInv'
  BY <1>16 DEF Remove, Steps, Answers, MaybeInode
<1>17. ASSUME NEW r \in Requests, Unlock(r) PROVE TypeInv'
  BY <1>17 DEF Unlock, Released, Steps
<1>18. ASSUME NEW r \in Requests, Die(r) PROVE TypeInv'
  BY <1>18 DEF Die, Released, Steps, Answers
<1>19. CASE FreezeDomain
  BY <1>19 DEF FreezeDomain
<1>20. CASE UnfreezeDomain
  BY <1>20 DEF UnfreezeDomain
<1>21. CASE UNCHANGED vars
  BY <1>21 DEF vars
<1>22. QED
  BY <1>1, <1>2, <1>3, <1>4, <1>5, <1>6, <1>7, <1>8, <1>9, <1>10, <1>11,
     <1>12, <1>13, <1>14, <1>15, <1>16, <1>17, <1>18, <1>19, <1>20, <1>21
     DEF Next, Step

\* The filesystem backend's state keeps its types.
THEOREM TypeCorrect == Spec => []TypeOK
<1>1. TypeInv => TypeOK
  BY DEF TypeInv
<1>2. QED
  BY <1>1, TypeInit, TypeStep, PTL DEF Spec

-----------------------------------------------------------------------------
(* NoLostUpdate.  Everything from here on is about a store that only partial *)
(* updates write to, on a filesystem with locks.                             *)

AtomicPatches == OnlyPatches /\ DistinctResults /\ HasAtomicCAS

\* The part of the invariant that is not about types.
Inv ==
    /\ Progress /\ StagingSound /\ LinkingSound /\ StagingKept
    /\ NeverBack /\ LocksHeld /\ LockedBase /\ CheckedBase

Kept == {"open", "lock", "lookup", "mkdir", "rename"} \cup Checks

\* Two used inodes of a site that hold the same bytes are the same inode: the
\* ETag names a version.
LEMMA DataNamesInode ==
    ASSUME AtomicPatches, TypeOK, LinkingSound,
           NEW s \in Sites, NEW i \in InodesOf(s), NEW j \in InodesOf(s),
           Used(i), Used(j), file[i].data = file[j].data
    PROVE  i = j
<1> USE FSAssumption DEF AtomicPatches, OnlyPatches, DistinctResults, LinkingSound,
        InodesOf, TypeOK
<1>1. CASE i = s /\ j = s
  BY <1>1
<1>2. CASE i = s /\ j # s
  BY <1>2
<1>3. CASE i # s /\ j = s
  BY <1>3
<1>4. CASE i # s /\ j # s
  <2>1. /\ i \in Requests /\ j \in Requests
        /\ new[i] \in Produces[i] /\ new[j] \in Produces[j]
        /\ new[i] \in Contents /\ new[i] = new[j]
    BY <1>4
  <2>2. QED
    BY <2>1
<1>5. QED
  BY <1>1, <1>2, <1>3, <1>4

\* Steps that only move a request forward, answer it, or touch the marker, the
\* domain's directory and the locks.
LEMMA QuietStep ==
    ASSUME TypeOK, Inv, TypeOK', Progress',
           UNCHANGED <<link, staged, file, new, statted, loaded, fd>>,
           \A q \in Requests :
               /\ pc'[q] \in Early => pc[q] \in Early
               /\ pc[q] \notin Early => pc'[q] \notin Early
               /\ pc'[q] \in Holding \cup {"lock"} => pc[q] \in Holding \cup {"lock"}
               /\ pc'[q] \in Kept => pc[q] \in Kept,
           LocksHeld', CheckedBase'
    PROVE  Inv'
<1> USE DEF Inv, Here
<1>1. \A i : Used(i)' <=> Used(i)
  BY DEF Used
<1>2. StagingSound'
  BY <1>1 DEF StagingSound
<1>3. LinkingSound'
  BY <1>1 DEF LinkingSound, InodesOf
<1>4. StagingKept'
  BY DEF StagingKept, Kept
<1>5. NeverBack'
  BY DEF NeverBack
<1>6. LockedBase'
  BY DEF LockedBase
<1>7. QED
  BY <1>2, <1>3, <1>4, <1>5, <1>6

\* A request alone moves on, keeping its lock.
LEMMA MoveStep ==
    ASSUME TypeOK, Inv, TypeOK', Progress',
           UNCHANGED <<link, staged, file, new, statted, loaded, fd, holder>>,
           NEW r \in Requests, NEW step \in Steps, Goto(r, step),
           step \in Early => pc[r] \in Early,
           pc[r] \notin Early => step \notin Early,
           step \in Holding => pc[r] \in Holding,
           step # "lock",
           step \in Kept => pc[r] \in Kept,
           step \in Effects => pc[r] \in Effects
    PROVE  Inv'
<1> USE DEF Inv, Here, Goto, TypeOK
<1>1. \A q \in Requests : pc'[q] = IF q = r THEN step ELSE pc[q]
  OBVIOUS
<1>2. LocksHeld'
  BY <1>1 DEF LocksHeld
<1>3. CheckedBase'
  BY <1>1 DEF CheckedBase
<1>4. \A q \in Requests :
           /\ pc'[q] \in Early => pc[q] \in Early
           /\ pc[q] \notin Early => pc'[q] \notin Early
           /\ pc'[q] \in Holding \cup {"lock"} => pc[q] \in Holding \cup {"lock"}
           /\ pc'[q] \in Kept => pc[q] \in Kept
  BY <1>1
<1>5. QED
  BY <1>2, <1>3, <1>4, QuietStep

\* Every step takes a request on to the next point of its program.
LEMMA ProgressStep ==
    ASSUME AtomicPatches, TypeInv, Inv, [Next]_vars
    PROVE  Progress'
<1> USE FSAssumption DEF AtomicPatches, OnlyPatches, TypeInv, TypeOK, Inv, Progress,
        Goto, Tell, Here, fsVars, reqVars, Checks, Effects
<1>1. ASSUME NEW r \in Requests, GetStat(r) PROVE Progress'
  BY <1>1 DEF GetStat
<1>2. ASSUME NEW r \in Requests, GetRead(r) PROVE Progress'
  BY <1>2 DEF GetRead, Publish
<1>3. ASSUME NEW r \in Requests, GetMissing(r) PROVE Progress'
  BY <1>3 DEF GetMissing
<1>4. ASSUME NEW r \in Requests, StageWrite(r) PROVE Progress'
  BY <1>4 DEF StageWrite, Inodes
<1>5. ASSUME NEW r \in Requests, StageRename(r) PROVE Progress'
  BY <1>5 DEF StageRename
<1>6. ASSUME NEW r \in Requests, Open(r) PROVE Progress'
  BY <1>6 DEF Open
<1>7. ASSUME NEW r \in Requests, Lock(r) PROVE Progress'
  BY <1>7 DEF Lock
<1>8. ASSUME NEW r \in Requests, CheckFrozen(r) PROVE Progress'
  BY <1>8 DEF CheckFrozen, Refuse, Effect
<1>9. ASSUME NEW r \in Requests, PreconditionMissing(r) PROVE Progress'
  BY <1>9 DEF PreconditionMissing, Refuse
<1>10. ASSUME NEW r \in Requests, CheckUnmodifiedSince(r) PROVE Progress'
  BY <1>10 DEF CheckUnmodifiedSince, Refuse
<1>11. ASSUME NEW r \in Requests, CheckMatch(r) PROVE Progress'
  BY <1>11 DEF CheckMatch, Refuse, Effect
<1>12. ASSUME NEW r \in Requests, LookupStaged(r) PROVE Progress'
  BY <1>12 DEF LookupStaged, Refuse
<1>13. ASSUME NEW r \in Requests, MakeDomain(r) PROVE Progress'
  BY <1>13 DEF MakeDomain
<1>14. ASSUME NEW r \in Requests, CommitRename(r) PROVE Progress'
  BY <1>14 DEF CommitRename
<1>15. ASSUME NEW r \in Requests, Remove(r) PROVE Progress'
  BY <1>15 DEF Remove
<1>16. ASSUME NEW r \in Requests, Unlock(r) PROVE Progress'
  BY <1>16 DEF Unlock
<1>17. ASSUME NEW r \in Requests, Die(r) PROVE Progress'
  BY <1>17 DEF Die
<1>18. CASE FreezeDomain \/ UnfreezeDomain \/ UNCHANGED vars
  BY <1>18 DEF FreezeDomain, UnfreezeDomain, vars
<1>19. ASSUME NEW r \in Requests, Submit(r) PROVE Progress'
  BY <1>19 DEF Submit
<1>20. QED
  BY <1>1, <1>2, <1>3, <1>4, <1>5, <1>6, <1>7, <1>8, <1>9, <1>10, <1>11, <1>12,
     <1>13, <1>14, <1>15, <1>16, <1>17, <1>18, <1>19 DEF Next, Step

\* Reading the site's name makes nothing used that was not linked.
LEMMA ReadStep ==
    ASSUME TypeOK, Inv, TypeOK', Progress', NEW r \in Requests,
           GetStat(r) \/ GetRead(r)
    PROVE  Inv'
<1> USE FSAssumption DEF Inv, TypeOK, Here, Goto, fsVars
<1>0. /\ UNCHANGED <<link, staged, file, fd, holder>>
      /\ pc[r] \in {"idle", "read"}
      /\ pc'[r] \in {"read", "write", "open"}
      /\ pc'[r] = "open" => new'[r] = Empty
      /\ \A q \in Requests \ {r} : UNCHANGED <<pc[q], new[q], statted[q], loaded[q]>>
      /\ statted'[r] \in {statted[r], Here(r)} /\ loaded'[r] \in {loaded[r], Here(r)}
      /\ Here(r) # None
      /\ ~ Used(r)
  <2>1. CASE GetStat(r)
    BY <2>1 DEF GetStat, reqVars, LinkingSound, Early
  <2>2. CASE GetRead(r)
    BY <2>2 DEF GetRead, Publish, LinkingSound, Early
  <2>3. QED
    BY <2>1, <2>2
<1>1. \A i : Used(i)' => Used(i)
  BY <1>0 DEF Used
<1>2. StagingSound'
  <2>1. \A c \in Contents : staged[c] # r
    BY <1>0 DEF StagingSound, Early
  <2>2. QED
    BY <1>0, <1>1, <2>1 DEF StagingSound
<1>3. LinkingSound'
  BY <1>0, <1>1 DEF LinkingSound, InodesOf
<1>4. StagingKept'
  BY <1>0 DEF StagingKept, Checks
<1>5. NeverBack'
  BY <1>0 DEF NeverBack, Progress
<1>6. LocksHeld' /\ CheckedBase'
  BY <1>0 DEF LocksHeld, CheckedBase, Holding, Checks, Effects
<1>7. LockedBase'
  BY <1>0 DEF LockedBase, Holding, Checks, Effects
<1>8. QED
  BY <1>2, <1>3, <1>4, <1>5, <1>6, <1>7

\* A manifest written to an inode of its own, and then given its staging name.
LEMMA StageStep ==
    ASSUME AtomicPatches, TypeOK, Inv, TypeOK', Progress', NEW r \in Requests,
           StageWrite(r) \/ StageRename(r)
    PROVE  Inv'
<1> USE FSAssumption DEF AtomicPatches, OnlyPatches, DistinctResults, Inv, TypeOK,
        Here, Goto
<1>0. /\ UNCHANGED <<link, new, statted, loaded, fd, holder>>
      /\ pc[r] \in {"write", "stage"}
      /\ pc'[r] \in {"stage", "open"}
      /\ \A q \in Requests \ {r} : UNCHANGED <<pc[q], file[q]>>
      /\ \A s \in Sites : UNCHANGED file[s]
      /\ new[r] \in Contents /\ new[r] \in Produces[r]
  <2>1. new[r] \in Contents /\ new[r] \in Produces[r] /\ pc[r] \in {"write", "stage"}
    <3>1. pc[r] \in {"write", "stage"}
      BY DEF StageWrite, StageRename
    <3>2. Progress /\ new[r] \in Contents \cup {Empty}
      OBVIOUS
    <3> HIDE DEF AtomicPatches, OnlyPatches, DistinctResults, Inv, TypeOK
    <3>3. QED
      BY <3>1, <3>2 DEF Progress
  <2>2. CASE StageWrite(r)
    <3>1. file' = [file EXCEPT ![r] = file'[r]]
      BY <2>2 DEF StageWrite
    <3>2. pc' = [pc EXCEPT ![r] = "stage"]
      BY <2>2 DEF StageWrite
    <3>3. UNCHANGED <<link, new, statted, loaded, fd, holder>>
      BY <2>2 DEF StageWrite, reqVars
    <3>4. DOMAIN file = Inodes /\ DOMAIN pc = Requests
      OBVIOUS
    <3>8. r \notin Sites /\ Sites \subseteq Inodes /\ Requests \subseteq Inodes
      BY DEF Inodes
    <3>5. \A q \in Requests \ {r} : UNCHANGED <<pc[q], file[q]>>
      <4> HIDE FSAssumption DEF AtomicPatches, OnlyPatches, DistinctResults, Inv, TypeOK
      <4>1. QED
        BY <3>1, <3>2, <3>4, <3>8
    <3>6. \A s \in Sites : UNCHANGED file[s]
      <4> HIDE FSAssumption DEF AtomicPatches, OnlyPatches, DistinctResults, Inv, TypeOK
      <4>1. QED
        BY <3>1, <3>4, <3>8
    <3>7. QED
      BY <2>1, <3>2, <3>3, <3>5, <3>6
  <2>3. CASE StageRename(r)
    BY <2>1, <2>3 DEF StageRename, reqVars
  <2>4. QED
    BY <2>2, <2>3
<1>1. \A i : Used(i)' <=> Used(i)
  BY <1>0 DEF Used
<1>2. ~ Used(r) /\ \A c \in Contents : staged[c] # r
  BY <1>0 DEF LinkingSound, StagingSound, Early
<1>3. LinkingSound'
  <2>1. ASSUME NEW q \in Requests, Used(q)'
        PROVE  pc'[q] \notin Early /\ UNCHANGED <<new[q], file[q]>> /\ Used(q)
    BY <1>0, <1>1, <1>2, <2>1 DEF LinkingSound
  <2>2. QED
    BY <1>0, <2>1 DEF LinkingSound, InodesOf
<1>4. NeverBack' /\ LocksHeld' /\ LockedBase' /\ CheckedBase'
  BY <1>0 DEF NeverBack, LocksHeld, LockedBase, CheckedBase, Holding, Checks, Effects
<1>5. CASE StageWrite(r)
  <2> USE <1>5 DEF StageWrite
  <2>1. StagingSound'
    BY <1>0, <1>1, <1>2 DEF StagingSound
  <2>2. StagingKept'
    BY <1>0 DEF StagingKept, Checks
  <2>3. QED
    BY <1>3, <1>4, <2>1, <2>2
<1>6. CASE StageRename(r)
  <2> USE <1>6 DEF StageRename
  <2>1. /\ staged' = [staged EXCEPT ![new[r]] = r]
        /\ file' = file
        /\ file[r].data = new[r]
    BY DEF Progress
  <2>2. StagingSound'
    BY <1>0, <1>1, <1>2, <2>1 DEF StagingSound, Early
  <2>3. StagingKept'
    <3> SUFFICES ASSUME NEW q \in Requests, pc'[q] \in Kept, new'[q] # Empty
                 PROVE  staged'[new[q]] = q
      BY <1>0 DEF StagingKept, Kept
    <3>1. CASE q = r
      BY <2>1, <1>0, <3>1
    <3>2. CASE q # r
      <4>1. staged[new[q]] = q /\ pc[q] \notin {"idle", "read", "done"}
        BY <1>0, <3>2 DEF StagingKept, Kept, Checks
      <4>2. new[q] \in Produces[q] /\ new[q] \in Contents
        BY <1>0, <4>1 DEF Progress
      <4>3. new[q] # new[r]
        BY <1>0, <3>2, <4>2
      <4>4. QED
        BY <2>1, <4>1, <4>2, <4>3
    <3>3. QED
      BY <3>1, <3>2
  <2>4. QED
    BY <1>3, <1>4, <2>2, <2>3
<1>7. QED
  BY <1>5, <1>6

\* Opening the site's name and locking the inode found there.
LEMMA LockStep ==
    ASSUME AtomicPatches, TypeOK, Inv, TypeOK', Progress', NEW r \in Requests,
           Open(r) \/ Lock(r)
    PROVE  Inv'
<1> USE FSAssumption DEF AtomicPatches, Inv, TypeOK, Here, Goto, fsVars, reqVars
<1>0. /\ UNCHANGED <<link, staged, file, new, statted, loaded>>
      /\ pc[r] \in {"open", "lock"}
      /\ pc'[r] \in {"lock", "frozen"}
      /\ \A q \in Requests \ {r} : UNCHANGED <<pc[q], fd[q]>>
  BY DEF Open, Lock
<1>1. \A i : Used(i)' <=> Used(i)
  BY <1>0 DEF Used
<1>2. StagingSound' /\ LinkingSound'
  BY <1>0, <1>1 DEF StagingSound, LinkingSound, InodesOf, Early
<1>3. StagingKept' /\ NeverBack' /\ CheckedBase'
  BY <1>0 DEF StagingKept, NeverBack, CheckedBase, Checks, Effects
<1>4. CASE Open(r)
  <2> USE <1>4 DEF Open
  <2>1. fd'[r] = Here(r) /\ holder' = holder /\ (pc'[r] = "frozen" => fd'[r] = None)
    OBVIOUS
  <2>2. LocksHeld'
    BY <1>0, <2>1 DEF LocksHeld, Holding, Checks, Effects
  <2>3. LockedBase'
    BY <1>0, <2>1 DEF LockedBase, Holding, Checks
  <2>4. QED
    BY <1>2, <1>3, <2>2, <2>3
<1>5. CASE Lock(r)
  <2> USE <1>5 DEF Lock
  <2>1. LocksHeld'
    BY <1>0 DEF LocksHeld, MaybeInode, Inodes
  <2>2. LockedBase'
    BY <1>0 DEF LockedBase, Holding, Checks
  <2>3. QED
    BY <1>2, <1>3, <2>1, <2>2
<1>6. QED
  BY <1>4, <1>5

\* A PATCH gets past its preconditions only over the inode it was computed from.
LEMMA MatchStep ==
    ASSUME AtomicPatches, TypeOK, Inv, TypeOK', Progress', NEW r \in Requests,
           CheckMatch(r)
    PROVE  Inv'
<1> USE FSAssumption DEF AtomicPatches, OnlyPatches, Inv, TypeOK, Here, Goto, fsVars,
        reqVars
<1>0. /\ UNCHANGED <<link, staged, file, new, statted, loaded, fd, holder>>
      /\ pc[r] = "etag"
      /\ pc'[r] \in {"unlock", "lookup", "remove"}
      /\ \A q \in Requests \ {r} : UNCHANGED pc[q]
      /\ Here(r) # None
      /\ pc'[r] # "unlock" => file[Here(r)].data = file[loaded[r]].data
  BY DEF CheckMatch, Refuse, Effect
<1>1. ASSUME pc'[r] # "unlock" PROVE Here(r) = loaded[r]
  <2>1. Used(Here(r)) /\ Used(loaded[r])
    BY DEF Used
  <2>2. Here(r) \in InodesOf(SiteOf[r]) /\ loaded[r] \in InodesOf(SiteOf[r])
    BY <1>0 DEF LinkingSound, Progress
  <2>3. QED
    BY <1>0, <1>1, <2>1, <2>2, DataNamesInode
<1>2. CheckedBase'
  BY <1>0, <1>1 DEF CheckedBase, Effects
<1>3. LocksHeld'
  BY <1>0 DEF LocksHeld, Holding, Checks, Effects
<1>4. \A q \in Requests :
           /\ pc'[q] \in Early => pc[q] \in Early
           /\ pc[q] \notin Early => pc'[q] \notin Early
           /\ pc'[q] \in Holding \cup {"lock"} => pc[q] \in Holding \cup {"lock"}
           /\ pc'[q] \in Kept => pc[q] \in Kept
  BY <1>0 DEF Early, Holding, Kept, Checks, Effects
<1>5. QED
  BY <1>0, <1>2, <1>3, <1>4, QuietStep

\* At most one request at a time is between its checks and its effect on a site:
\* both would have to hold the lock of the inode that is deployed there.
LEMMA OneChecked ==
    ASSUME Inv, NEW r \in Requests, NEW q \in Requests, SiteOf[r] = SiteOf[q],
           pc[r] \in Effects, pc[q] \in Effects
    PROVE  r = q
<1>1. Here(r) # None /\ fd[r] = Here(r) /\ fd[q] = Here(r)
  BY DEF Inv, CheckedBase, LockedBase, Here, Holding
<1>2. holder[Here(r)] = r /\ holder[Here(r)] = q
  BY <1>1 DEF Inv, LocksHeld, Holding
<1>3. QED
  BY <1>2

\* A rename deploys the request's own inode, which nobody has seen before.
LEMMA CommitStep ==
    ASSUME AtomicPatches, TypeOK, Inv, TypeOK', Progress', NEW r \in Requests,
           CommitRename(r)
    PROVE  Inv'
<1> USE FSAssumption DEF AtomicPatches, OnlyPatches, DistinctResults, Inv, TypeOK, Goto
<1>0. /\ UNCHANGED <<file, new, statted, loaded, fd, holder>>
      /\ pc[r] = "rename" /\ pc'[r] = "unlock"
      /\ \A q \in Requests \ {r} : UNCHANGED pc[q]
      /\ new[r] \in Contents
      /\ staged[new[r]] = r
      /\ link' = [link EXCEPT ![SiteOf[r]] = r]
      /\ staged' = [staged EXCEPT ![new[r]] = None]
  <2>1. new[r] \in Contents /\ staged[new[r]] = r
    BY DEF CommitRename, Progress, StagingKept
  <2>2. QED
    BY <2>1 DEF CommitRename, reqVars, Inodes
<1>1. ~ Used(r) /\ file[r].data = new[r] /\ new[r] \in Produces[r]
  BY <1>0 DEF StagingSound
<1>2. \A i : Used(i)' => Used(i) \/ i = r
  BY <1>0 DEF Used
<1>3. StagingSound'
  <2> SUFFICES ASSUME NEW c \in Contents, NEW q \in Requests, staged'[c] = q
               PROVE  /\ pc'[q] \notin Early /\ ~ Used(q)' /\ new'[q] = c
                      /\ new'[q] \in Produces[q] /\ file'[q].data = c
    BY DEF StagingSound
  <2>1. c # new[r] /\ staged[c] = q
    BY <1>0, <1>1 DEF Inodes
  <2>2. q # r
    BY <1>0, <2>1 DEF StagingSound
  <2>3. QED
    BY <1>0, <1>2, <2>1, <2>2 DEF StagingSound
<1>4. LinkingSound'
  <2>1. \A q \in Requests :
            Used(q)' => /\ pc'[q] \notin Early /\ new'[q] # Empty
                        /\ new'[q] \in Produces[q] /\ file'[q].data = new'[q]
    BY <1>0, <1>1, <1>2 DEF LinkingSound, Early
  <2>2. QED
    BY <1>0, <2>1 DEF LinkingSound, InodesOf
<1>5. StagingKept'
  <2> SUFFICES ASSUME NEW q \in Requests, pc'[q] \in Kept, new'[q] # Empty
               PROVE  staged'[new'[q]] = q
    BY DEF StagingKept, Kept
  <2>1. q # r
    BY <1>0 DEF Kept, Checks
  <2>2. staged[new[q]] = q /\ new[q] # new[r]
    BY <1>0, <2>1 DEF StagingKept, Kept
  <2>3. QED
    BY <1>0, <2>2
<1>6. \A q \in Requests : r \notin {statted[q], loaded[q]}
  BY <1>1 DEF Used
<1>7. r # None
  BY DEF Inodes
<1>8. NeverBack' /\ LockedBase'
  BY <1>0, <1>6, <1>7 DEF NeverBack, LockedBase, Here, Holding, Checks, Effects
<1>9. LocksHeld'
  BY <1>0 DEF LocksHeld, Holding, Checks, Effects
<1>10. CheckedBase'
  <2> SUFFICES ASSUME NEW q \in Requests, pc'[q] \in Effects
               PROVE  Here(q)' # None /\ Here(q)' = loaded'[q]
    BY DEF CheckedBase
  <2>1. q # r /\ pc[q] \in Effects
    BY <1>0 DEF Effects
  <2>2. SiteOf[q] # SiteOf[r]
    BY <1>0, <2>1, OneChecked DEF Effects
  <2>3. QED
    BY <1>0, <2>1, <2>2 DEF CheckedBase, Here
<1>11. QED
  BY <1>3, <1>4, <1>5, <1>8, <1>9, <1>10

\* A removal leaves the site to nobody.
LEMMA RemoveStep ==
    ASSUME AtomicPatches, TypeOK, Inv, TypeOK', Progress', NEW r \in Requests,
           Remove(r)
    PROVE  Inv'
<1> USE FSAssumption DEF AtomicPatches, OnlyPatches, Inv, TypeOK, Goto, Remove, reqVars
<1>0. /\ UNCHANGED <<staged, file, new, statted, loaded, fd, holder>>
      /\ pc[r] = "remove" /\ pc'[r] = "unlock"
      /\ \A q \in Requests \ {r} : UNCHANGED pc[q]
      /\ link' = [link EXCEPT ![SiteOf[r]] = None]
  OBVIOUS
<1>1. \A q \in Requests : Used(q)' => Used(q)
  BY <1>0 DEF Used, Inodes
<1>2. StagingSound' /\ LinkingSound'
  BY <1>0, <1>1 DEF StagingSound, LinkingSound, InodesOf, Early
<1>3. StagingKept' /\ LocksHeld'
  BY <1>0 DEF StagingKept, LocksHeld, Holding, Checks, Effects
<1>4. NeverBack' /\ LockedBase'
  BY <1>0 DEF NeverBack, LockedBase, Here, Progress, Holding, Checks, Effects
<1>5. CheckedBase'
  <2> SUFFICES ASSUME NEW q \in Requests, pc'[q] \in Effects
               PROVE  Here(q)' # None /\ Here(q)' = loaded'[q]
    BY DEF CheckedBase
  <2>1. q # r /\ pc[q] \in Effects
    BY <1>0 DEF Effects
  <2>2. SiteOf[q] # SiteOf[r]
    BY <1>0, <2>1, OneChecked DEF Effects
  <2>3. QED
    BY <1>0, <2>1, <2>2 DEF CheckedBase, Here
<1>6. QED
  BY <1>2, <1>3, <1>4, <1>5

\* A request that ends, or whose process dies, releases only its own locks.
LEMMA EndStep ==
    ASSUME TypeOK, Inv, TypeOK', Progress', NEW r \in Requests,
           Unlock(r) \/ Die(r)
    PROVE  Inv'
<1> USE FSAssumption DEF Inv, TypeOK, Goto, fsVars, reqVars
<1>0. /\ UNCHANGED <<link, staged, file, new, statted, loaded, fd>>
      /\ pc'[r] = "done"
      /\ \A q \in Requests \ {r} : UNCHANGED pc[q]
      /\ holder' = Released(r)
  BY DEF Unlock, Die
<1>1. LocksHeld'
  BY <1>0 DEF LocksHeld, Released, MaybeInode, Holding, Checks, Effects
<1>2. CheckedBase'
  BY <1>0 DEF CheckedBase, Here, Effects
<1>3. \A q \in Requests :
           /\ pc'[q] \in Early => pc[q] \in Early
           /\ pc[q] \notin Early => pc'[q] \notin Early
           /\ pc'[q] \in Holding \cup {"lock"} => pc[q] \in Holding \cup {"lock"}
           /\ pc'[q] \in Kept => pc[q] \in Kept
  BY <1>0 DEF Early, Holding, Kept, Checks, Effects
<1>4. QED
  BY <1>0, <1>1, <1>2, <1>3, QuietStep

\* Before any request is issued nothing is staged, used or locked.
LEMMA InvInit == Init => Inv
<1> SUFFICES ASSUME Init PROVE Inv
  OBVIOUS
<1> USE FSAssumption DEF Init, Inv, Here
<1>1. \A r \in Requests : ~ Used(r)
  BY DEF Used, Inodes
<1>2. Progress
  BY DEF Progress
<1>3. StagingSound
  BY DEF StagingSound, Inodes
<1>4. LinkingSound
  BY <1>1 DEF LinkingSound, InodesOf, Inodes
<1>5. StagingKept /\ NeverBack
  BY DEF StagingKept, NeverBack, Checks
<1>6. LocksHeld /\ LockedBase /\ CheckedBase
  BY DEF LocksHeld, LockedBase, CheckedBase, Holding, Checks, Effects
<1>7. QED
  BY <1>2, <1>3, <1>4, <1>5, <1>6

\* The invariant is inductive when all updates are PATCHes of distinct results.
LEMMA InvStep ==
    ASSUME AtomicPatches, TypeInv, Inv, [Next]_vars
    PROVE  Inv'
<1>0. TypeOK /\ TypeOK' /\ Progress'
  BY TypeStep, ProgressStep DEF TypeInv
<1> USE <1>0
<1>1. ASSUME NEW r \in Requests, GetStat(r) \/ GetRead(r) PROVE Inv'
  BY <1>1, ReadStep
<1>2. ASSUME NEW r \in Requests, StageWrite(r) \/ StageRename(r) PROVE Inv'
  BY <1>2, StageStep
<1>3. ASSUME NEW r \in Requests, Open(r) \/ Lock(r) PROVE Inv'
  BY <1>3, LockStep
<1>4. ASSUME NEW r \in Requests, CheckMatch(r) PROVE Inv'
  BY <1>4, MatchStep
<1>5. ASSUME NEW r \in Requests, CommitRename(r) PROVE Inv'
  BY <1>5, CommitStep
<1>6. ASSUME NEW r \in Requests, Remove(r) PROVE Inv'
  BY <1>6, RemoveStep
<1>7. ASSUME NEW r \in Requests, Unlock(r) \/ Die(r) PROVE Inv'
  BY <1>7, EndStep
<1>8. ASSUME NEW r \in Requests,
             \/ GetMissing(r) \/ CheckFrozen(r) \/ PreconditionMissing(r)
             \/ CheckUnmodifiedSince(r) \/ LookupStaged(r) \/ MakeDomain(r)
      PROVE  Inv'
  <2> DEFINE Moves(before, step) ==
          /\ pc[r] = before /\ Goto(r, step)
          /\ UNCHANGED <<link, staged, file, new, statted, loaded, fd, holder>>
  <2>1. CASE GetMissing(r)
    <3>1. \E before \in {"idle", "read"} : Moves(before, "done")
      BY <2>1 DEF GetMissing, fsVars, reqVars
    <3>2. QED
      BY <3>1, MoveStep DEF Steps, Early, Holding, Kept, Checks, Effects
  <2>2. CASE CheckFrozen(r)
    <3>1. \E step \in {"unlock", "mtime"} : Moves("frozen", step)
      BY <2>2 DEF CheckFrozen, Refuse, AtomicPatches, OnlyPatches, fsVars, reqVars
    <3>2. QED
      BY <3>1, MoveStep DEF Steps, Early, Holding, Kept, Checks, Effects
  <2>3. CASE PreconditionMissing(r)
    <3>1. \E before \in {"mtime", "etag"} : Moves(before, "unlock")
      BY <2>3 DEF PreconditionMissing, Refuse, fsVars, reqVars
    <3>2. QED
      BY <3>1, MoveStep DEF Steps, Early, Holding, Kept, Checks, Effects
  <2>4. CASE CheckUnmodifiedSince(r)
    <3>1. \E step \in {"unlock", "etag"} : Moves("mtime", step)
      BY <2>4 DEF CheckUnmodifiedSince, Refuse, fsVars, reqVars
    <3>2. QED
      BY <3>1, MoveStep DEF Steps, Early, Holding, Kept, Checks, Effects
  <2>5. CASE LookupStaged(r)
    <3>1. \E step \in {"unlock", "mkdir"} : Moves("lookup", step)
      BY <2>5 DEF LookupStaged, Refuse, fsVars, reqVars
    <3>2. QED
      BY <3>1, MoveStep DEF Steps, Early, Holding, Kept, Checks, Effects
  <2>6. CASE MakeDomain(r)
    <3>1. Moves("mkdir", "rename")
      BY <2>6 DEF MakeDomain, reqVars
    <3>2. QED
      BY <3>1, MoveStep DEF Steps, Early, Holding, Kept, Checks, Effects
  <2>7. QED
    BY <1>8, <2>1, <2>2, <2>3, <2>4, <2>5, <2>6
<1>9. CASE FreezeDomain \/ UnfreezeDomain \/ UNCHANGED vars
  <2>1. UNCHANGED <<link, staged, file, new, statted, loaded, fd, holder, pc>>
    BY <1>9 DEF FreezeDomain, UnfreezeDomain, vars, fsVars, reqVars
  <2>2. LocksHeld' /\ CheckedBase'
    BY <2>1 DEF Inv, LocksHeld, CheckedBase, Here
  <2>3. QED
    BY <2>1, <2>2, QuietStep
<1>10. ASSUME NEW r \in Requests, Submit(r) PROVE Inv'
  BY <1>10 DEF Submit, AtomicPatches, OnlyPatches
<1>11. QED
  BY <1>1, <1>2, <1>3, <1>4, <1>5, <1>6, <1>7, <1>8, <1>9, <1>10 DEF Next, Step

\* With partial updates of distinct results and working locks, every state of
\* the backend satisfies the inductive invariant.
THEOREM InvariantHolds ==
    ASSUME AtomicPatches
    PROVE  Spec => []IInv
<1>1. TypeInv /\ Inv /\ [Next]_vars => (TypeInv /\ Inv)'
  BY TypeStep, InvStep
<1>2. TypeInv /\ Inv => IInv
  BY DEF TypeInv, Inv, IInv
<1>3. QED
  BY TypeInit, InvInit, <1>1, <1>2, PTL DEF Spec

\* A PATCH never overwrites an update it has not seen, whatever the number of
\* requests, of sites, of processes, and whichever of them die.
THEOREM PatchesLoseNothing ==
    ASSUME AtomicPatches
    PROVE  Spec => []NoLostUpdate
<1>1. IInv => NoLostUpdate
  BY FSAssumption DEF IInv, CheckedBase, NoLostUpdate
<1>2. QED
  BY InvariantHolds, <1>1, PTL

-----------------------------------------------------------------------------
(* The refinement of ManifestStore. *)

\* The initial states of the backend are those of the store.
LEMMA StoreInit == Init => Store!Init
<1> SUFFICES ASSUME Init PROVE Store!Init
  OBVIOUS
<1> USE FSAssumption DEF Init
<1>1. Deployed \in [Sites -> Contents \cup {Empty}]
  BY DEF Deployed, Inodes
<1>2. StillAt(statted) = {} /\ StillAt(loaded) = {}
  BY DEF StillAt
<1>3. Status = [r \in Requests |-> "new"]
  BY DEF Status
<1>4. QED
  BY <1>1, <1>2, <1>3 DEF Store!Init

\* A step that leaves the tree alone and answers nobody does not show.
LEMMA HiddenStep ==
    ASSUME TypeOK, UNCHANGED <<link, statted, loaded, answer>>,
           \A s \in Sites : link[s] # None => UNCHANGED file[link[s]].data,
           \A q \in Requests : answer[q] = "none" =>
               /\ pc'[q] = "idle" <=> pc[q] = "idle"
               /\ pc'[q] = "read" <=> pc[q] = "read"
    PROVE  UNCHANGED Store!storeVars
<1>1. Deployed' = Deployed
  BY DEF Deployed
<1>2. StillAt(statted)' = StillAt(statted) /\ StillAt(loaded)' = StillAt(loaded)
  BY DEF StillAt, Here
<1>3. Status' = Status
  BY DEF Status
<1>4. QED
  BY <1>1, <1>2, <1>3 DEF Store!storeVars

\* A request that ends without touching the tree leaves the store.
LEMMA LeaveStep ==
    ASSUME AtomicPatches, TypeOK, TypeOK', UNCHANGED <<link, file, statted, loaded>>,
           NEW r \in Requests, NEW why \in Answers \ {"none", "ok"},
           answer[r] = "none", Tell(r, why),
           \A q \in Requests \ {r} : UNCHANGED pc[q]
    PROVE  Store!Leave(r, why)
<1> USE FSAssumption DEF AtomicPatches, OnlyPatches, TypeOK, Tell
<1>1. Store!Pending(r)
  BY DEF Store!Pending, Store!Answers, Status
<1>2. Deployed' = Deployed
  BY DEF Deployed
<1>3. /\ StillAt(statted)' = StillAt(statted) \ {r}
      /\ StillAt(loaded)' = StillAt(loaded) \ {r}
  <2>1. answer' = [answer EXCEPT ![r] = why] /\ answer \in [Requests -> Answers]
    OBVIOUS
  <2>2. answer'[r] # "none" /\ \A q \in Requests \ {r} : answer'[q] = answer[q]
    BY <2>1
  <2>3. Patches \subseteq Requests /\ link' = link /\ statted' = statted /\ loaded' = loaded
    OBVIOUS
  <2> HIDE FSAssumption DEF AtomicPatches, OnlyPatches, TypeOK, Tell
  <2>4. QED
    BY <2>2, <2>3, ZenonT(40) DEF StillAt, Here
<1>4. Status' = [Status EXCEPT ![r] = why]
  BY ZenonT(40) DEF Status, Answers
<1>5. QED
  BY <1>1, <1>2, <1>3, <1>4 DEF Store!Leave

\* A deployed manifest is never empty.
LEMMA DeployedNonEmpty ==
    ASSUME AtomicPatches, IInv, NEW s \in Sites, link[s] # None
    PROVE  Deployed[s] # Empty
<1>1. link[s] \in InodesOf(s) /\ Used(link[s])
  BY DEF IInv, LinkingSound, Used
<1>2. CASE link[s] = s
  BY <1>2, FSAssumption DEF IInv, LinkingSound, Deployed
<1>3. CASE link[s] \in Requests
  BY <1>1, <1>3 DEF IInv, LinkingSound, Deployed
<1>4. QED
  BY <1>1, <1>2, <1>3 DEF InodesOf

\* How a request that alone moves or is answered shows in the store's status.
LEMMA StatusStep ==
    ASSUME AtomicPatches, TypeOK, NEW r \in Requests, answer[r] = "none",
           \A q \in Requests \ {r} : pc'[q] = pc[q] /\ answer'[q] = answer[q]
    PROVE  /\ pc[r] = "idle" => Status[r] = "new"
           /\ pc[r] = "read" => Status[r] = "begun"
           /\ answer'[r] = "none" /\ pc'[r] = "read"
                  => Status' = [Status EXCEPT ![r] = "begun"]
           /\ answer'[r] = "none" /\ pc'[r] \notin {"idle", "read"}
                  => Status' = [Status EXCEPT ![r] = "loaded"]
           /\ answer'[r] = "ok" => Status' = [Status EXCEPT ![r] = "ok"]
<1> USE DEF AtomicPatches, OnlyPatches, TypeOK
<1>1. \A q \in Requests \ {r} : Status'[q] = Status[q]
  BY DEF Status
<1>2. /\ pc[r] = "idle" => Status[r] = "new"
      /\ pc[r] = "read" => Status[r] = "begun"
  BY DEF Status
<1>3. /\ answer'[r] = "none" /\ pc'[r] = "read" => Status'[r] = "begun"
      /\ answer'[r] = "none" /\ pc'[r] \notin {"idle", "read"} => Status'[r] = "loaded"
      /\ answer'[r] = "ok" => Status'[r] = "ok"
  BY DEF Status
<1>4. /\ Status = [q \in Requests |-> Status[q]]
      /\ Status' = [q \in Requests |-> Status'[q]]
  BY DEF Status
<1>5. QED
  BY <1>1, <1>2, <1>3, <1>4

\* GetManifest's two system calls are the beginning and the load of a PATCH.
LEMMA LoadStep ==
    ASSUME AtomicPatches, IInv, IInv', NEW r \in Requests, GetStat(r) \/ GetRead(r)
    PROVE  Store!Begin(r) \/ Store!LoadLinked(r)
<1> USE FSAssumption DEF AtomicPatches, OnlyPatches, IInv, TypeOK, fsVars, Here, Goto
<1>1. Deployed' = Deployed /\ (Here(r) # None => Deployed[SiteOf[r]] # Empty)
  BY DeployedNonEmpty DEF GetStat, GetRead, Deployed
<1>2. CASE GetStat(r)
  <2> USE <1>2 DEF GetStat
  <2>1. answer[r] = "none"
    BY DEF Progress
  <2>2. StillAt(statted)' = StillAt(statted) \cup {r}
    BY <2>1 DEF StillAt
  <2>3. StillAt(loaded)' = StillAt(loaded)
    BY DEF StillAt
  <2>4. Status[r] = "new" /\ Status' = [Status EXCEPT ![r] = "begun"]
    <3>1. /\ pc'[r] = "read" /\ answer' = answer /\ r \in Patches
          /\ \A q \in Requests \ {r} : pc'[q] = pc[q]
      OBVIOUS
    <3>2. QED
      BY <2>1, <3>1, StatusStep
  <2>5. QED
    BY <1>1, <2>2, <2>3, <2>4 DEF Store!Begin
<1>3. CASE GetRead(r)
  <2> USE <1>3 DEF GetRead, Publish
  <2>1. answer[r] = "none"
    BY DEF Progress
  <2>2. StillAt(loaded)' = StillAt(loaded) \cup {r}
    BY <2>1 DEF StillAt
  <2>3. StillAt(statted)' = StillAt(statted)
    BY DEF StillAt
  <2>4. Status[r] = "begun" /\ Status' = [Status EXCEPT ![r] = "loaded"]
    <3>1. /\ pc'[r] \in {"write", "open"} /\ answer' = answer /\ r \in Patches
          /\ \A q \in Requests \ {r} : pc'[q] = pc[q]
      OBVIOUS
    <3>2. QED
      BY <2>1, <3>1, StatusStep
  <2>5. QED
    BY <1>1, <2>2, <2>3, <2>4 DEF Store!LoadLinked
<1>4. QED
  BY <1>2, <1>3

\* The rename or removal of a checked PATCH is a successful store-conditional.
LEMMA EffectStep ==
    ASSUME AtomicPatches, IInv, IInv', NEW r \in Requests, CommitRename(r) \/ Remove(r)
    PROVE  \E c \in Contents \cup {Empty} : Store!StoreConditional(r, c)
<1> USE FSAssumption DEF AtomicPatches, OnlyPatches, IInv, TypeOK, Goto, Tell
<1>0. /\ UNCHANGED <<file, statted, loaded>>
      /\ pc[r] \in {"rename", "remove"} /\ answer[r] = "none"
      /\ \A q \in Requests \ {r} : UNCHANGED <<pc[q], answer[q]>>
      /\ answer'[r] = "ok"
      /\ new[r] \in Contents \cup {Empty}
      /\ \/ /\ link' = [link EXCEPT ![SiteOf[r]] = r]
            /\ file[r].data = new[r] /\ ~ Used(r)
         \/ /\ link' = [link EXCEPT ![SiteOf[r]] = None]
            /\ new[r] = Empty
  <2>1. CASE CommitRename(r)
    <3>1. staged[new[r]] = r /\ new[r] \in Contents
      BY <2>1 DEF CommitRename, StagingKept, Progress
    <3>2. file[r].data = new[r] /\ ~ Used(r)
      BY <3>1 DEF StagingSound
    <3>3. staged[new[r]] # None
      BY <3>1 DEF Inodes
    <3>4. QED
      BY <2>1, <3>1, <3>2, <3>3 DEF CommitRename, reqVars, Progress
  <2>2. CASE Remove(r)
    BY <2>2 DEF Remove, reqVars, Progress
  <2>3. QED
    BY <2>1, <2>2
<1>1. Status[r] = "loaded" /\ r \in StillAt(loaded)
  BY <1>0 DEF Status, StillAt, CheckedBase, Effects
<1>2. Deployed' = [Deployed EXCEPT ![SiteOf[r]] = new[r]]
  <2>1. SiteOf[r] \in Sites /\ r # None
    BY DEF Inodes
  <2>2. \A s \in Sites : Deployed'[s] = IF s = SiteOf[r] THEN new[r] ELSE Deployed[s]
    BY <1>0, <2>1 DEF Deployed
  <2>3. QED
    BY <2>1, <2>2 DEF Deployed
<1>3. Status' = [Status EXCEPT ![r] = "ok"]
  BY <1>0, StatusStep
<1>4. StillAt(statted)' = StillAt(statted) \ Store!Watching(SiteOf[r])
  BY <1>0 DEF StillAt, Here, Used, Store!Watching
<1>5. StillAt(loaded)' = StillAt(loaded) \ Store!Watching(SiteOf[r])
  BY <1>0 DEF StillAt, Here, Used, Store!Watching
<1>6. QED
  BY <1>0, <1>1, <1>2, <1>3, <1>4, <1>5 DEF Store!StoreConditional, Store!Store

\* Each refusal is one the store allows.
LEMMA RefusalStep ==
    ASSUME AtomicPatches, IInv, IInv', NEW r \in Requests,
           \/ GetMissing(r) \/ PreconditionMissing(r)
           \/ CheckFrozen(r) \/ CheckUnmodifiedSince(r) \/ CheckMatch(r)
    PROVE  [Store!Next]_Store!storeVars
<1> USE FSAssumption DEF AtomicPatches, OnlyPatches, IInv, TypeOK, fsVars, reqVars, Goto
<1>0. /\ UNCHANGED <<link, file, statted, loaded>>
      /\ pc[r] \notin {"unlock", "done"} /\ pc'[r] \notin {"idle", "read"}
      /\ \A q \in Requests \ {r} : UNCHANGED pc[q]
  BY DEF GetMissing, PreconditionMissing, CheckFrozen, CheckUnmodifiedSince,
         CheckMatch, Refuse, Effect, Tell
<1>1. answer[r] = "none"
  BY <1>0 DEF Progress
<1>2. CASE GetMissing(r) \/ PreconditionMissing(r)
  <2>1. Here(r) = None /\ Tell(r, "error")
    BY <1>2 DEF GetMissing, PreconditionMissing, Refuse
  <2>2. Store!Leave(r, "error")
    BY <1>0, <1>1, <2>1, LeaveStep DEF Answers
  <2>3. Deployed[SiteOf[r]] = Empty
    BY <2>1 DEF Deployed, Here
  <2>4. QED
    BY <2>2, <2>3 DEF Store!Next, Store!Vanished
<1>3. CASE CheckFrozen(r) /\ marker
  <2>1. Store!Leave(r, "frozen")
    BY <1>0, <1>1, <1>3, LeaveStep DEF CheckFrozen, Refuse, Answers
  <2>2. QED
    BY <2>1 DEF Store!Next, Store!Interrupted
<1>4. CASE Tell(r, "conflict") /\ (CheckUnmodifiedSince(r) \/ CheckMatch(r))
  <2>1. Store!Leave(r, "conflict")
    BY <1>0, <1>1, <1>4, LeaveStep DEF Answers
  <2>2. r \notin StillAt(statted)
    <3>1. CASE CheckUnmodifiedSince(r)
      <4>1. answer'[r] = "conflict"
        BY <1>4 DEF Tell
      <4>2. file[Here(r)].mtime > file[statted[r]].mtime
        BY <3>1, <4>1, <1>1 DEF CheckUnmodifiedSince
      <4>3. Here(r) \in Inodes
        BY <3>1 DEF CheckUnmodifiedSince, Here, MaybeInode
      <4>4. Here(r) # statted[r]
        BY <4>2, <4>3
      <4>5. QED
        BY <4>4 DEF StillAt
    <3>2. CASE CheckMatch(r)
      <4>1. answer'[r] = "conflict"
        BY <1>4 DEF Tell
      <4>2. file[Here(r)].data # file[loaded[r]].data /\ Here(r) # None
        BY <3>2, <4>1, <1>1 DEF CheckMatch
      <4>3. Here(r) # loaded[r] /\ loaded[r] # None
        BY <3>2, <4>2 DEF CheckMatch, Progress
      <4>4. Here(r) # statted[r]
        BY <4>2, <4>3 DEF NeverBack
      <4>5. QED
        BY <4>4 DEF StillAt
    <3>3. QED
      BY <1>4, <3>1, <3>2
  <2>3. QED
    BY <2>1, <2>2 DEF Store!Next, Store!Conflict
<1>5. CASE answer' = answer
  <2>1. UNCHANGED <<link, statted, loaded, answer>>
    BY <1>0, <1>5
  <2>2. \A q \in Requests : answer[q] = "none" =>
            /\ pc'[q] = "idle" <=> pc[q] = "idle"
            /\ pc'[q] = "read" <=> pc[q] = "read"
    <3>1. pc[r] \notin {"idle", "read"}
      BY <1>1, <1>5 DEF GetMissing, PreconditionMissing, CheckFrozen,
         CheckUnmodifiedSince, CheckMatch, Tell
    <3>2. QED
      BY <1>0, <3>1
  <2>3. QED
    BY <1>0, <2>1, <2>2, HiddenStep
<1>6. QED
  BY <1>2, <1>3, <1>4, <1>5
     DEF CheckFrozen, CheckUnmodifiedSince, CheckMatch, Refuse

\* Staging, locking and unlocking do not show.
LEMMA InnerStep ==
    ASSUME AtomicPatches, IInv, NEW r \in Requests,
           \/ StageWrite(r) \/ StageRename(r) \/ Open(r) \/ Lock(r)
           \/ LookupStaged(r) \/ MakeDomain(r) \/ Unlock(r)
    PROVE  UNCHANGED Store!storeVars
<1> USE FSAssumption DEF IInv, TypeOK, fsVars, reqVars, Goto
<1>1. ~ (LookupStaged(r) /\ staged[new[r]] = None)
  <2>1. pc[r] = "lookup" => staged[new[r]] = r
    BY DEF StagingKept, Progress
  <2>2. QED
    BY <2>1 DEF LookupStaged, Inodes
<1>2. /\ UNCHANGED <<link, statted, loaded, answer>>
      /\ pc[r] \notin {"idle", "read"} /\ pc'[r] \notin {"idle", "read"}
      /\ \A q \in Requests \ {r} : UNCHANGED pc[q]
  BY <1>1 DEF StageWrite, StageRename, Open, Lock, LookupStaged, MakeDomain, Unlock
<1>3. \A s \in Sites : link[s] # None => UNCHANGED file[link[s]].data
  <2>1. CASE StageWrite(r)
    <3>1. ~ Used(r)
      BY <2>1 DEF StageWrite, LinkingSound, Early
    <3>2. QED
      BY <2>1, <3>1 DEF StageWrite, Used, MaybeInode
  <2>2. CASE ~ StageWrite(r)
    BY <2>2 DEF StageRename, Open, Lock, LookupStaged, MakeDomain, Unlock
  <2>3. QED
    BY <2>1, <2>2
<1>4. QED
  BY <1>2, <1>3, HiddenStep

\* A request whose process dies is interrupted in the store, or was answered.
LEMMA DieStep ==
    ASSUME AtomicPatches, IInv, IInv', NEW r \in Requests, Die(r)
    PROVE  [Store!Next]_Store!storeVars
<1> USE FSAssumption DEF IInv, TypeOK, fsVars, reqVars, Goto, Die
<1>0. /\ UNCHANGED <<link, file, statted, loaded>>
      /\ \A q \in Requests \ {r} : UNCHANGED pc[q]
  OBVIOUS
<1>1. CASE answer[r] = "none"
  <2>1. Tell(r, "lost")
    BY <1>1 DEF Tell
  <2>2. Store!Leave(r, "lost")
    BY <1>0, <1>1, <2>1, LeaveStep DEF Answers
  <2>3. QED
    BY <2>2 DEF Store!Next, Store!Interrupted
<1>2. CASE answer[r] # "none"
  <2>1. answer' = answer
    BY <1>2
  <2>2. QED
    BY <1>0, <1>2, <2>1, HiddenStep
<1>3. QED
  BY <1>1, <1>2

\* Every step of the backend is a step of the store or does not show in it.
LEMMA StoreStep ==
    ASSUME AtomicPatches, IInv, IInv', [Next]_vars
    PROVE  [Store!Next]_Store!storeVars
<1>1. ASSUME NEW r \in Requests, GetStat(r) \/ GetRead(r)
      PROVE  [Store!Next]_Store!storeVars
  BY <1>1, LoadStep DEF Store!Next
<1>2. ASSUME NEW r \in Requests, CommitRename(r) \/ Remove(r)
      PROVE  [Store!Next]_Store!storeVars
  BY <1>2, EffectStep DEF Store!Next
<1>3. ASSUME NEW r \in Requests,
             \/ GetMissing(r) \/ PreconditionMissing(r)
             \/ CheckFrozen(r) \/ CheckUnmodifiedSince(r) \/ CheckMatch(r)
      PROVE  [Store!Next]_Store!storeVars
  BY <1>3, RefusalStep
<1>4. ASSUME NEW r \in Requests,
             \/ StageWrite(r) \/ StageRename(r) \/ Open(r) \/ Lock(r)
             \/ LookupStaged(r) \/ MakeDomain(r) \/ Unlock(r)
      PROVE  [Store!Next]_Store!storeVars
  BY <1>4, InnerStep
<1>5. ASSUME NEW r \in Requests, Die(r) PROVE [Store!Next]_Store!storeVars
  BY <1>5, DieStep
<1>6. CASE FreezeDomain \/ UnfreezeDomain \/ UNCHANGED vars
  <2>1. UNCHANGED <<link, file, statted, loaded, answer, pc>>
    BY <1>6 DEF FreezeDomain, UnfreezeDomain, vars, fsVars, reqVars
  <2>2. QED
    BY <2>1, HiddenStep DEF IInv
<1>7. ASSUME NEW r \in Requests, Submit(r) PROVE [Store!Next]_Store!storeVars
  BY <1>7 DEF Submit, AtomicPatches, OnlyPatches
<1>8. QED
  BY <1>1, <1>2, <1>3, <1>4, <1>5, <1>6, <1>7 DEF Next, Step

\* The locks, renames and preconditions of the filesystem backend add up to the
\* load-linked/store-conditional register that PATCH relies on, and a conflict
\* is reported only when there was one.
THEOREM Refinement ==
    ASSUME AtomicPatches
    PROVE  Spec => ImplementsStore
<1>1. Spec => []IInv
  BY InvariantHolds
<1>2. IInv /\ IInv' /\ [Next]_vars => [Store!Next]_Store!storeVars
  BY StoreStep
<1>3. QED
  BY StoreInit, <1>1, <1>2, PTL DEF Spec, ImplementsStore, Store!Spec

-----------------------------------------------------------------------------
(* What holds of any mix of updates, with working locks or without.         *)

\* Requests pass through their steps in the order of the code.
InOrder ==
    \A r \in Requests :
        /\ pc[r] \in {"write", "stage", "lookup", "mkdir", "rename"} => new[r] # Empty
        /\ pc[r] = "remove" => new[r] = Empty
        /\ pc[r] = "stage" => file[r].data = new[r]
        /\ pc[r] \in {"idle", "read"} => loaded[r] = None
        /\ r \in Patches /\ pc[r] \notin {"idle", "read", "done"} => loaded[r] # None

\* A request's inode is used only after it was staged, and is then staged no more.
UsedOnce ==
    \A r \in Requests :
        /\ Used(r) => pc[r] \notin Early
        /\ \A c \in Contents :
               staged[c] = r =>
                   pc[r] \notin Early /\ ~ Used(r) /\ new[r] = c /\ file[r].data = c

MixedInv == TypeInv /\ InOrder /\ UsedOnce /\ NeverBack

\* At the start nothing is staged, and only the sites' own inodes are linked.
LEMMA MixedInit == Init => MixedInv
<1> SUFFICES ASSUME Init PROVE InOrder /\ UsedOnce /\ NeverBack
  BY TypeInit DEF MixedInv
<1>1. InOrder /\ NeverBack
  BY DEF Init, InOrder, NeverBack
<1>2. UsedOnce
  BY FSAssumption DEF Init, UsedOnce, Used, Early, Inodes
<1>3. QED
  BY <1>1, <1>2

\* Every step takes a request on to the next point of its program.
LEMMA InOrderStep ==
    ASSUME MixedInv, [Next]_vars
    PROVE  InOrder'
<1> USE FSAssumption DEF MixedInv, TypeInv, TypeOK, InOrder, Goto, Tell, Here, fsVars,
        reqVars, Checks, Effects
<1>1. ASSUME NEW r \in Requests, Submit(r) \/ GetStat(r) PROVE InOrder'
  BY <1>1 DEF Submit, GetStat, Publish
<1>2. ASSUME NEW r \in Requests, GetRead(r) PROVE InOrder'
  BY <1>2 DEF GetRead, Publish
<1>3. ASSUME NEW r \in Requests, GetMissing(r) PROVE InOrder'
  BY <1>3 DEF GetMissing
<1>4. ASSUME NEW r \in Requests, StageWrite(r) PROVE InOrder'
  BY <1>4 DEF StageWrite, Inodes
<1>5. ASSUME NEW r \in Requests, StageRename(r) PROVE InOrder'
  BY <1>5 DEF StageRename
<1>6. ASSUME NEW r \in Requests, Open(r) \/ Lock(r) PROVE InOrder'
  BY <1>6 DEF Open, Lock
<1>7. ASSUME NEW r \in Requests, CheckFrozen(r) PROVE InOrder'
  BY <1>7 DEF CheckFrozen, Refuse, Effect
<1>8. ASSUME NEW r \in Requests, PreconditionMissing(r) PROVE InOrder'
  BY <1>8 DEF PreconditionMissing, Refuse
<1>9. ASSUME NEW r \in Requests, CheckUnmodifiedSince(r) PROVE InOrder'
  BY <1>9 DEF CheckUnmodifiedSince, Refuse
<1>10. ASSUME NEW r \in Requests, CheckMatch(r) PROVE InOrder'
  BY <1>10 DEF CheckMatch, Refuse, Effect
<1>11. ASSUME NEW r \in Requests, LookupStaged(r) PROVE InOrder'
  BY <1>11 DEF LookupStaged, Refuse
<1>12. ASSUME NEW r \in Requests, MakeDomain(r) PROVE InOrder'
  BY <1>12 DEF MakeDomain
<1>13. ASSUME NEW r \in Requests, CommitRename(r) PROVE InOrder'
  BY <1>13 DEF CommitRename
<1>14. ASSUME NEW r \in Requests, Remove(r) PROVE InOrder'
  BY <1>14 DEF Remove
<1>15. ASSUME NEW r \in Requests, Unlock(r) \/ Die(r) PROVE InOrder'
  BY <1>15 DEF Unlock, Die
<1>16. CASE FreezeDomain \/ UnfreezeDomain \/ UNCHANGED vars
  BY <1>16 DEF FreezeDomain, UnfreezeDomain, vars
<1>17. QED
  BY <1>1, <1>2, <1>3, <1>4, <1>5, <1>6, <1>7, <1>8, <1>9, <1>10, <1>11, <1>12,
     <1>13, <1>14, <1>15, <1>16 DEF Next, Step

\* A request settles on its manifest; a PATCH looks at its site for that.
LEMMA MixedRead ==
    ASSUME MixedInv, InOrder', NEW r \in Requests,
           Submit(r) \/ GetStat(r) \/ GetRead(r)
    PROVE  UsedOnce' /\ NeverBack'
<1> USE FSAssumption DEF MixedInv, TypeInv, TypeOK, Goto, Here
<1>0. /\ UNCHANGED <<link, staged, file>>
      /\ pc[r] \in {"idle", "read"}
      /\ \A q \in Requests \ {r} : UNCHANGED <<pc[q], new[q], statted[q], loaded[q]>>
      /\ \/ UNCHANGED <<statted, loaded>>
         \/ /\ Here(r) # None
            /\ statted'[r] = Here(r) /\ pc'[r] = "read" /\ UNCHANGED loaded
         \/ Here(r) # None /\ loaded'[r] = Here(r) /\ UNCHANGED statted
  <2>1. CASE Submit(r)
    BY <2>1 DEF Submit, Publish, fsVars
  <2>2. CASE GetStat(r)
    BY <2>2 DEF GetStat, fsVars
  <2>3. CASE GetRead(r)
    BY <2>3 DEF GetRead, Publish, fsVars
  <2>4. QED
    BY <2>1, <2>2, <2>3
<1>1. \A i : Used(i)' => Used(i)
  BY <1>0 DEF Used
<1>2. ~ Used(r) /\ \A c \in Contents : staged[c] # r
  BY <1>0 DEF UsedOnce, Early
<1>3. UsedOnce'
  <2>1. \A q \in Requests : Used(q)' => q # r /\ pc'[q] = pc[q] /\ Used(q)
    BY <1>0, <1>1, <1>2
  <2>2. QED
    BY <1>0, <1>1, <1>2, <2>1 DEF UsedOnce
<1>4. NeverBack'
  BY <1>0 DEF NeverBack, InOrder
<1>5. QED
  BY <1>3, <1>4

\* A manifest is written to an inode nobody uses, and given its staging name.
LEMMA MixedStage ==
    ASSUME MixedInv, NEW r \in Requests, StageWrite(r) \/ StageRename(r)
    PROVE  UsedOnce' /\ NeverBack'
<1> USE FSAssumption DEF MixedInv, TypeInv, TypeOK, Goto, Here
<1>0. /\ UNCHANGED <<link, new, statted, loaded>>
      /\ pc[r] \in {"write", "stage"}
      /\ \A q \in Requests \ {r} : UNCHANGED <<pc[q], file[q]>>
      /\ new[r] \in Contents
  BY DEF StageWrite, StageRename, reqVars, InOrder, Inodes
<1>1. \A i : Used(i)' <=> Used(i)
  BY <1>0 DEF Used
<1>2. ~ Used(r) /\ \A c \in Contents : staged[c] # r
  BY <1>0 DEF UsedOnce, Early
<1>3. NeverBack'
  BY <1>0 DEF NeverBack
<1>4. CASE StageWrite(r)
  BY <1>0, <1>1, <1>2, <1>3, <1>4 DEF StageWrite, UsedOnce
<1>5. CASE StageRename(r)
  <2>1. /\ staged' = [staged EXCEPT ![new[r]] = r]
        /\ file' = file /\ file[r].data = new[r] /\ pc'[r] \notin Early
    BY <1>5 DEF StageRename, InOrder, Early
  <2>2. QED
    BY <1>0, <1>1, <1>2, <1>3, <2>1 DEF UsedOnce
<1>6. QED
  BY <1>4, <1>5

\* What a request commits was staged, whoever staged it, and never used before.
LEMMA MixedCommit ==
    ASSUME MixedInv, NEW r \in Requests, CommitRename(r) \/ Remove(r)
    PROVE  UsedOnce' /\ NeverBack'
<1> USE FSAssumption DEF MixedInv, TypeInv, TypeOK, Goto, Here
<1>0. /\ UNCHANGED <<file, new, statted, loaded>>
      /\ \A q \in Requests : pc[q] \notin Early => pc'[q] \notin Early
  <2>1. UNCHANGED <<file, new, statted, loaded>> /\ pc' = [pc EXCEPT ![r] = "unlock"]
    BY DEF CommitRename, Remove, reqVars
  <2>2. QED
    BY <2>1 DEF Early
<1>1. CASE UNCHANGED <<link, staged>>
  <2>1. \A i : Used(i)' <=> Used(i)
    BY <1>0, <1>1 DEF Used
  <2>2. QED
    BY <1>0, <1>1, <2>1 DEF UsedOnce, NeverBack
<1>2. CASE link' = [link EXCEPT ![SiteOf[r]] = None] /\ UNCHANGED staged
  <2>1. \A q \in Requests : Used(q)' => Used(q)
    BY <1>0, <1>2 DEF Used, Inodes
  <2>2. QED
    BY <1>0, <1>2, <2>1 DEF UsedOnce, NeverBack
<1>3. ASSUME NEW q \in Requests, new[r] \in Contents, staged[new[r]] = q,
             link' = [link EXCEPT ![SiteOf[r]] = q],
             staged' = [staged EXCEPT ![new[r]] = None]
      PROVE  UsedOnce' /\ NeverBack'
  <2>1. pc[q] \notin Early /\ ~ Used(q) /\ new[q] = new[r]
    BY <1>3 DEF UsedOnce
  <2>2. \A i \in Requests : Used(i)' => Used(i) \/ i = q
    BY <1>0, <1>3 DEF Used
  <2>3. \A i \in Requests, c \in Contents :
             staged'[c] = i => staged[c] = i /\ c # new[r]
    BY <1>3, None \notin Requests DEF Inodes
  <2>4. UsedOnce'
    BY <1>0, <2>1, <2>2, <2>3 DEF UsedOnce
  <2>5. NeverBack'
    BY <1>0, <1>3, <2>1 DEF NeverBack, Used
  <2>6. QED
    BY <2>4, <2>5
<1>4. QED
  <2>1. CASE Remove(r)
    BY <1>2, <2>1 DEF Remove
  <2>2. CASE CommitRename(r) /\ staged[new[r]] = None
    BY <1>1, <2>2 DEF CommitRename
  <2>3. CASE CommitRename(r) /\ staged[new[r]] # None
    <3>1. new[r] \in Contents
      BY <2>3 DEF CommitRename, InOrder
    <3>2. QED
      BY <1>3, <2>3, <3>1 DEF CommitRename
  <2>4. QED
    BY <2>1, <2>2, <2>3

\* Every step, of requests with preconditions or without, keeps the invariant.
LEMMA MixedStep == MixedInv /\ [Next]_vars => MixedInv'
<1> SUFFICES ASSUME MixedInv, [Next]_vars PROVE UsedOnce' /\ NeverBack'
  BY TypeStep, InOrderStep DEF MixedInv
<1>1. ASSUME UNCHANGED <<link, staged, file, new, statted, loaded>>,
             \A q \in Requests : pc[q] \notin Early => pc'[q] \notin Early
      PROVE  UsedOnce' /\ NeverBack'
  <2>1. \A i : Used(i)' <=> Used(i)
    BY <1>1 DEF Used
  <2>2. QED
    BY <1>1, <2>1 DEF MixedInv, UsedOnce, NeverBack, Here
<1> USE DEF MixedInv, TypeInv, TypeOK, Goto, Early, fsVars, reqVars
<1>2. ASSUME NEW r \in Requests, Submit(r) \/ GetStat(r) \/ GetRead(r)
      PROVE  UsedOnce' /\ NeverBack'
  BY <1>2, InOrderStep, MixedRead
<1>3. ASSUME NEW r \in Requests, StageWrite(r) \/ StageRename(r)
      PROVE  UsedOnce' /\ NeverBack'
  BY <1>3, MixedStage
<1>4. ASSUME NEW r \in Requests, CommitRename(r) \/ Remove(r)
      PROVE  UsedOnce' /\ NeverBack'
  BY <1>4, MixedCommit
<1>5. ASSUME NEW r \in Requests,
             GetMissing(r) \/ Open(r) \/ Lock(r) \/ Unlock(r) \/ Die(r)
      PROVE  UsedOnce' /\ NeverBack'
  BY <1>1, <1>5 DEF GetMissing, Open, Lock, Unlock, Die
<1>6. ASSUME NEW r \in Requests,
             \/ CheckFrozen(r) \/ PreconditionMissing(r) \/ CheckUnmodifiedSince(r)
             \/ CheckMatch(r) \/ LookupStaged(r) \/ MakeDomain(r)
      PROVE  UsedOnce' /\ NeverBack'
  BY <1>1, <1>6 DEF CheckFrozen, PreconditionMissing, CheckUnmodifiedSince, CheckMatch,
     LookupStaged, MakeDomain, Refuse, Effect
<1>7. CASE FreezeDomain \/ UnfreezeDomain \/ UNCHANGED vars
  BY <1>1, <1>7 DEF FreezeDomain, UnfreezeDomain, vars
<1>8. QED
  BY <1>2, <1>3, <1>4, <1>5, <1>6, <1>7 DEF Next, Step

\* An acknowledgement is true of the bytes, and a conflict is with someone else's
\* write, whether updates carry preconditions or not and locks work or not.
THEOREM Truthful == Spec => AnswersAreTrue
<1>1. ASSUME MixedInv, [Next]_vars, NEW r \in Requests,
             answer[r] # "ok", answer'[r] = "ok"
      PROVE  IF new[r] = Empty
             THEN Here(r)' = None
             ELSE Here(r)' # None /\ file[Here(r)'].data = new[r]
  <2> USE FSAssumption DEF MixedInv, TypeInv, TypeOK, InOrder, Here
  <2>1. CommitRename(r) \/ Remove(r)
    BY <1>1 DEF Next, Step, vars, Submit, GetStat, GetRead, GetMissing, StageWrite,
       StageRename, Open, Lock, CheckFrozen, PreconditionMissing, CheckUnmodifiedSince,
       CheckMatch, LookupStaged, MakeDomain, CommitRename, Remove, Unlock, Die,
       FreezeDomain, UnfreezeDomain, Refuse, Tell
  <2>2. CASE Remove(r)
    BY <1>1, <2>2 DEF Remove
  <2>3. CASE CommitRename(r)
    <3>1. staged[new[r]] # None /\ new[r] \in Contents
      BY <1>1, <2>3 DEF CommitRename, Tell
    <3>2. file[staged[new[r]]].data = new[r]
      BY <1>1, <3>1 DEF UsedOnce
    <3>3. QED
      BY <1>1, <2>3, <3>1, <3>2 DEF CommitRename, Inodes
  <2>4. QED
    BY <2>1, <2>2, <2>3
<1>2. ASSUME MixedInv, [Next]_vars, NEW r \in Patches,
             answer[r] # "conflict", answer'[r] = "conflict"
      PROVE  Here(r) # statted[r]
  <2> USE FSAssumption DEF MixedInv, TypeInv, TypeOK, InOrder, Here
  <2>1. CheckUnmodifiedSince(r) \/ CheckMatch(r)
    BY <1>2 DEF Next, Step, vars, Submit, GetStat, GetRead, GetMissing, StageWrite,
       StageRename, Open, Lock, CheckFrozen, PreconditionMissing, CheckUnmodifiedSince,
       CheckMatch, LookupStaged, MakeDomain, CommitRename, Remove, Unlock, Die,
       FreezeDomain, UnfreezeDomain, Refuse, Tell
  <2>2. CASE CheckUnmodifiedSince(r)
    <3>1. file[Here(r)].mtime > file[statted[r]].mtime /\ Here(r) \in Inodes
      BY <1>2, <2>2 DEF CheckUnmodifiedSince, MaybeInode
    <3>2. file[Here(r)].mtime \in Nat
      BY <1>2, <3>1
    <3>3. QED
      BY <3>1, <3>2
  <2>3. CASE CheckMatch(r)
    <3>1. /\ Here(r) # None
          /\ file[Here(r)].data # file[loaded[r]].data
          /\ loaded[r] # None
      BY <1>2, <2>3 DEF CheckMatch
    <3>2. QED
      BY <1>2, <3>1 DEF NeverBack
  <2>4. QED
    BY <2>1, <2>2, <2>3
<1>3. MixedInv /\ [Next]_vars =>
         /\ [\A r \in Requests :
               answer[r] # "ok" /\ answer'[r] = "ok" =>
                   IF new[r] = Empty
                   THEN Here(r)' = None
                   ELSE Here(r)' # None /\ file[Here(r)'].data = new[r]]_vars
         /\ [\A r \in Patches :
               answer[r] # "conflict" /\ answer'[r] = "conflict" =>
                   Here(r) # statted[r]]_vars
  BY <1>1, <1>2
<1>4. QED
  BY <1>3, MixedInit, MixedStep, PTL
     DEF Spec, AnswersAreTrue, AcknowledgedAsSubmitted, ConflictIsGenuine
=============================================================================
