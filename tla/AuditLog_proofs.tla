--------------------------- MODULE AuditLog_proofs ---------------------------
(* The audit log, for any number of processes, operations and records, and    *)
(* any node IDs.  An operation takes effect after its record was written,     *)
(* which nothing but -audit-expire removes, as long as the store refuses a    *)
(* record whose ID is taken; and -audit-detach is complete because each       *)
(* operation writes one record, so that none that it found comes back.        *)
EXTENDS AuditLog, TLAPS

Shape ==
    /\ DOMAIN site = Sites
    /\ DOMAIN pc = Operations /\ DOMAIN id = Operations /\ DOMAIN manifest = Operations

\* No two records have the same ID: one that is taken is refused, or its record replaced.
UniqueIds == \A r, q \in log : r.id = q.id => r = q

\* An operation writes its record in one step, and is past that step ever after.
Written(r) == r.op \in Operations /\ pc[r.op] \in {"apply", "done"}
WrittenOnce == \A r \in log \cup found : Written(r)

\* The record of an operation that is about to take effect, removed or not.
Recorded(o) ==
    pc[o] = "apply" =>
        \E r \in log \cup removed : r.op = o /\ r.id = id[o] /\ r.manifest = manifest[o]

\* A record to detach is detached, or still in the listing.
Awaited(r) ==
    \/ r.id \in detached
    \/ r.id \in todo /\ SiteIn(r) = target /\ IsDetachable(r)
Detaching == target # None => \A r \in log \cap found : Awaited(r)

IInv ==
    /\ Shape /\ UniqueIds /\ WrittenOnce /\ Detaching
    /\ RefusesTaken => \A o \in Operations : Recorded(o)

\* Nothing is recorded, and nothing begun.
LEMMA InitInvariant == Init => IInv
BY DEF Init, IInv, Shape, UniqueIds, WrittenOnce, Detaching, Recorded

\* Steps that add no record, and detach none, keep what is known of the records.
LEMMA SameRecords ==
    ASSUME IInv, UNCHANGED <<id, manifest, detached, target, todo, found>>,
           log' \subseteq log, log \cup removed \subseteq log' \cup removed',
           DOMAIN site' = Sites, DOMAIN pc' = Operations,
           \A o \in Operations : /\ pc'[o] = "apply" => pc[o] = "apply"
                                 /\ pc[o] \in {"apply", "done"} => pc'[o] \in {"apply", "done"}
    PROVE  IInv'
<1>1. Shape' /\ UniqueIds'
  BY DEF IInv, Shape, UniqueIds
<1>2. WrittenOnce'
  BY DEF IInv, WrittenOnce, Written
<1>3. Detaching'
  BY DEF IInv, Detaching, Awaited, SiteIn, IsDetachable
<1>4. ASSUME RefusesTaken PROVE \A o \in Operations : Recorded(o)'
  BY <1>4 DEF IInv, Recorded
<1> QED
  BY <1>1, <1>2, <1>3, <1>4 DEF IInv

\* An operation begins with a manifest of its own, before it has a record.
LEMMA BeginInvariant == ASSUME IInv, NEW o \in Operations, Begin(o) PROVE IInv'
<1>1. /\ pc[o] = "idle" /\ pc' = [pc EXCEPT ![o] = "record"]
      /\ UNCHANGED <<log, detached, site, id, taskVars>>
  BY DEF Begin, Goto
<1>2. DOMAIN manifest' = Operations /\ \A q \in Operations \ {o} : manifest'[q] = manifest[q]
  <2>1. KindOf[o] \in {"commit", "delete", "rollback"}
    BY AuditLogAssumption DEF Kinds
  <2>2. manifest' = manifest \/ \E m : manifest' = [manifest EXCEPT ![o] = m]
    BY <2>1 DEF Begin
  <2> QED
    BY <2>2 DEF IInv, Shape
<1>3. Shape' /\ UniqueIds' /\ Detaching'
  BY <1>1, <1>2
     DEF IInv, Shape, UniqueIds, Detaching, Awaited, taskVars, SiteIn, IsDetachable
<1>4. WrittenOnce'
  BY <1>1 DEF IInv, Shape, WrittenOnce, Written, taskVars
<1>5. ASSUME RefusesTaken, NEW q \in Operations PROVE Recorded(q)'
  <2>1. CASE q = o
    BY <1>1, <2>1 DEF Recorded, IInv, Shape
  <2>2. CASE q # o
    <3>1. pc'[q] = pc[q] /\ manifest'[q] = manifest[q] /\ id' = id
      BY <1>1, <1>2, <2>2 DEF IInv, Shape
    <3>2. log' \cup removed' = log \cup removed
      BY <1>1 DEF taskVars
    <3> QED
      BY <1>5, <3>1, <3>2 DEF IInv, Recorded
  <2> QED
    BY <2>1, <2>2
<1> QED
  BY <1>3, <1>4, <1>5 DEF IInv

\* What is known of the records after one is written for operation o, which goes on or not.
LEMMA StoreInvariant ==
    ASSUME IInv, NEW o \in Operations, Store(o), pc[o] = "record",
           NEW next \in {"apply", "done"}, pc' = [pc EXCEPT ![o] = next],
           next = "apply" => id' = [id EXCEPT ![o] = NextId(ProcessOf[o])],
           next = "done" => id' = id,
           UNCHANGED <<detached, site, manifest, taskVars>>
    PROVE  IInv'
<1>1. PICK new : new = NextId(ProcessOf[o])
  OBVIOUS
<1>2. PICK r : r = [id |-> new, op |-> o, manifest |-> manifest[o]]
  OBVIOUS
<1>3. r.id = new /\ r.op = o /\ r.manifest = manifest[o]
  BY <1>2
<1>4. log' = {q \in log : q.id # new} \cup {r} /\ (RefusesTaken => new \notin Taken)
  BY <1>1, <1>2 DEF Store
<1>5. Shape' /\ pc'[o] = next /\ \A q \in Operations \ {o} : pc'[q] = pc[q] /\ id'[q] = id[q]
  BY DEF IInv, Shape
<1>6. UniqueIds'
  BY <1>3, <1>4 DEF IInv, UniqueIds
<1>7. WrittenOnce'
  <2>1. \A q \in log \cup found : Written(q)'
    BY <1>5 DEF IInv, WrittenOnce, Written
  <2>2. Written(r)'
    BY <1>3, <1>5 DEF Written
  <2> QED
    BY <1>4, <2>1, <2>2 DEF WrittenOnce, taskVars
<1>8. Detaching'
  <2>1. r \notin found
    BY <1>3 DEF IInv, WrittenOnce, Written
  <2>2. \A q \in log \cap found : Awaited(q)' <=> Awaited(q)
    BY DEF Awaited, taskVars, SiteIn, IsDetachable
  <2> QED
    BY <1>4, <2>1, <2>2 DEF IInv, Detaching, taskVars
<1>9. ASSUME RefusesTaken, NEW q \in Operations PROVE Recorded(q)'
  <2>1. log \cup {r} = log' /\ removed' = removed /\ manifest' = manifest
    BY <1>4, <1>9 DEF Taken, taskVars
  <2>2. CASE q = o
    BY <1>1, <1>3, <1>5, <2>1, <2>2 DEF Recorded, IInv, Shape
  <2>3. CASE q # o
    BY <1>5, <1>9, <2>1, <2>3 DEF IInv, Recorded
  <2> QED
    BY <2>2, <2>3
<1> QED
  BY <1>5, <1>6, <1>7, <1>8, <1>9 DEF IInv

\* A record is detached, as it is the only one of its ID.
LEMMA DetachInvariant == ASSUME IInv, NEW i \in todo, Detach(i) PROVE IInv'
<1>1. UNCHANGED <<log, site, opVars, target, found, removed>>
  BY DEF Detach
<1>2. RecordOf(i) \in log /\ RecordOf(i).id = i
  BY DEF Detach, RecordOf, Taken
<1>3. \A r \in log : r.id = i => r = RecordOf(i)
  BY <1>2 DEF IInv, UniqueIds
<1>4. /\ todo' = todo \ {i} /\ detached \subseteq detached'
      /\ SiteIn(RecordOf(i)) = target /\ IsDetachable(RecordOf(i)) => i \in detached'
  BY DEF Detach
<1>5. Detaching'
  BY <1>1, <1>3, <1>4 DEF IInv, Detaching, Awaited, SiteIn, IsDetachable
<1>6. Shape' /\ UniqueIds' /\ WrittenOnce'
  BY <1>1 DEF IInv, Shape, UniqueIds, WrittenOnce, Written, opVars
<1>7. RefusesTaken => \A o \in Operations : Recorded(o)'
  BY <1>1 DEF IInv, Recorded, opVars
<1> QED
  BY <1>5, <1>6, <1>7 DEF IInv

\* What -audit-detach finds is what there is; whatever ends it leaves nothing to find.
LEMMA CommandInvariant ==
    ASSUME IInv, (\E s \in Sites : StartDetach(s)) \/ DetachFails \/ EndDetach
    PROVE  IInv'
<1>1. UNCHANGED <<log, detached, site, opVars, removed>> /\ found' \subseteq log \cup found
  BY DEF StartDetach, DetachFails, EndDetach
<1>2. Shape' /\ UniqueIds' /\ WrittenOnce'
  BY <1>1 DEF IInv, Shape, UniqueIds, WrittenOnce, Written, opVars
<1>3. RefusesTaken => \A o \in Operations : Recorded(o)'
  BY <1>1 DEF IInv, Recorded, opVars
<1>4. Detaching'
  <2>1. CASE \E s \in Sites : StartDetach(s)
    BY <2>1 DEF StartDetach, Detaching, Awaited, Taken, SiteIn, IsDetachable
  <2>2. CASE DetachFails \/ EndDetach
    BY <2>2 DEF DetachFails, EndDetach, Detaching
  <2> QED
    BY <2>1, <2>2
<1> QED
  BY <1>2, <1>3, <1>4 DEF IInv

\* The invariant is inductive.
LEMMA StepInvariant == IInv /\ [Next]_vars => IInv'
<1> SUFFICES ASSUME IInv, [Next]_vars PROVE IInv'
  OBVIOUS
<1>1. ASSUME NEW o \in Operations, Begin(o) PROVE IInv'
  BY <1>1, BeginInvariant
<1>2. ASSUME NEW o \in Operations, Append(o) PROVE IInv'
  BY <1>2, StoreInvariant DEF Append, Generate, Goto
<1>3. ASSUME NEW o \in Operations, Collide(o) \/ AppendFails(o) \/ Apply(o) PROVE IInv'
  <2>1. CASE AppendFails(o) /\ Store(o)
    BY <2>1, StoreInvariant DEF AppendFails, Generate, Goto
  <2>2. CASE Collide(o) \/ (AppendFails(o) /\ UNCHANGED log) \/ Apply(o)
    <3>1. /\ UNCHANGED <<id, manifest, detached, target, todo, found, log, removed>>
          /\ pc' = [pc EXCEPT ![o] = "done"]
      BY <2>2 DEF Collide, AppendFails, Apply, Goto, taskVars
    <3>2. DOMAIN site' = Sites
      BY <2>2 DEF Collide, AppendFails, Apply, IInv, Shape
    <3>3. DOMAIN pc' = Operations
      BY <3>1 DEF IInv, Shape
    <3>4. ASSUME NEW q \in Operations
          PROVE  /\ pc'[q] = "apply" => pc[q] = "apply"
                 /\ pc[q] \in {"apply", "done"} => pc'[q] \in {"apply", "done"}
      BY <3>1 DEF IInv, Shape
    <3> QED
      BY <3>1, <3>2, <3>3, <3>4, SameRecords
  <2> QED
    BY <1>3, <2>1, <2>2 DEF AppendFails
<1>4. ASSUME NEW p \in Processes, Exit(p) PROVE IInv'
  <2>1. /\ UNCHANGED <<id, manifest, detached, target, todo, found, log, removed, site>>
        /\ pc' = [o \in Operations |->
                    IF ProcessOf[o] = p /\ pc[o] # "idle" THEN "done" ELSE pc[o]]
    BY <1>4 DEF Exit, taskVars
  <2>2. DOMAIN pc' = Operations /\ DOMAIN site' = Sites
    BY <2>1 DEF IInv, Shape
  <2>3. ASSUME NEW q \in Operations
        PROVE  /\ pc'[q] = "apply" => pc[q] = "apply"
               /\ pc[q] \in {"apply", "done"} => pc'[q] \in {"apply", "done"}
    BY <2>1
  <2> QED
    BY <2>1, <2>2, <2>3, SameRecords
<1>5. ASSUME NEW i \in todo, Detach(i) PROVE IInv'
  BY <1>5, DetachInvariant
<1>6. ASSUME (\E s \in Sites : StartDetach(s)) \/ DetachFails \/ EndDetach PROVE IInv'
  BY <1>6, CommandInvariant
<1>7. ASSUME \/ \E p \in Processes : \E i \in notices[p] : Notify(p, i)
             \/ \E i \in removing : Expire(i)
             \/ StartExpire \/ ExpireFails \/ Tick \/ UNCHANGED vars
      PROVE  IInv'
  <2>1. UNCHANGED <<id, manifest, detached, target, todo, found, site, pc>>
    BY <1>7 DEF Notify, Expire, StartExpire, ExpireFails, Tick, vars, opVars, taskVars
  <2>2. log' \subseteq log /\ log \cup removed \subseteq log' \cup removed'
    BY <1>7 DEF Notify, Expire, StartExpire, ExpireFails, Tick, vars, taskVars
  <2> QED
    BY <2>1, <2>2, SameRecords DEF IInv, Shape
<1> QED
  BY <1>1, <1>2, <1>3, <1>4, <1>5, <1>6, <1>7 DEF Next

\* The invariant holds of every behaviour.
THEOREM AuditInvariance == Spec => []IInv
BY InitInvariant, StepInvariant, PTL DEF Spec

\* If the store refuses a record whose ID is taken, whatever changes a site has its record
\* in the log, or had it until -audit-expire removed it, whichever processes share a node
\* ID, fail, die or are restarted.
THEOREM RecordedAsAppliedTheorem == ASSUME RefusesTaken PROVE Spec => RecordedAsApplied
<1> DEFINE OnRecord == \A s \in Sites : site'[s] # site[s] =>
                \E o \in Operations, r \in log \cup removed :
                    /\ SiteOf[o] = s /\ pc[o] = "apply" /\ pc'[o] = "done"
                    /\ r.op = o /\ r.id = id[o] /\ r.manifest = site'[s]
<1>1. IInv /\ [Next]_vars => [OnRecord]_vars
  <2> SUFFICES ASSUME IInv, [Next]_vars, NEW s \in Sites, site'[s] # site[s]
               PROVE  \E o \in Operations, r \in log \cup removed :
                        /\ SiteOf[o] = s /\ pc[o] = "apply" /\ pc'[o] = "done"
                        /\ r.op = o /\ r.id = id[o] /\ r.manifest = site'[s]
    OBVIOUS
  <2>1. PICK o \in Operations : Apply(o) /\ site' # site
    BY DEF Next, vars, Begin, Append, Collide, AppendFails, Exit, Notify, StartDetach, Detach,
           DetachFails, EndDetach, StartExpire, Expire, ExpireFails, Tick
  <2>2. /\ site' = [site EXCEPT ![SiteOf[o]] = manifest[o]]
        /\ pc[o] = "apply" /\ pc' = [pc EXCEPT ![o] = "done"]
    BY <2>1 DEF Apply, Goto
  <2>3. SiteOf[o] = s /\ site'[s] = manifest[o] /\ pc'[o] = "done"
    BY <2>2 DEF IInv, Shape
  <2>4. Recorded(o)
    BY DEF IInv
  <2> QED
    BY <2>2, <2>3, <2>4 DEF Recorded
<1> QED
  BY <1>1, AuditInvariance, PTL DEF Spec, RecordedAsApplied

\* No record that -audit-detach found is left attached when it has come to the end of its
\* listing; this does not need IDs to differ.
THEOREM DetachIsCompleteTheorem == Spec => []DetachIsComplete
<1>1. IInv => DetachIsComplete
  BY DEF IInv, Detaching, Awaited, DetachIsComplete, ManifestOf
<1> QED
  BY <1>1, AuditInvariance, PTL
=============================================================================
