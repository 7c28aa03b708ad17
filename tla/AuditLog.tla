------------------------------ MODULE AuditLog ------------------------------
(* The audit log: operations on sites and domains leave a record before they  *)
(* take effect (audit.go), the record is announced to an audit server, which  *)
(* runs a handler for it, and commands roll back to a record, detach records  *)
(* from their manifests and remove old ones (main.go).  The log is a directory *)
(* or a prefix of the bucket, with a marker beside each detached record.      *)
EXTENDS Integers, FiniteSetsExt

CONSTANTS
    Processes,      \* servers and commands that write the log
    NodeOf,         \* [audit].node-id of each, the same for those of one machine
    Operations, KindOf, SiteOf, ProcessOf,
    Sites,
    Horizon,        \* the last millisecond of the clock
    MaxSequence,    \* record IDs of a process in one millisecond
    Retention,      \* -audit-expire removes records older than this
    RefusesTaken,   \* the store refuses a record whose ID is taken ("may or may not be
                    \* supported", backend_s3.go:877; a file is looked for first)
    Unreliable,     \* the store may fail
    None

Kinds == {"commit", "delete", "rollback"}

Ids == [time : 1..Horizon, node : {NodeOf[p] : p \in Processes}, seq : 0..MaxSequence]

ASSUME AuditLogAssumption ==
    /\ KindOf \in [Operations -> Kinds]
    /\ SiteOf \in [Operations -> Sites]
    /\ ProcessOf \in [Operations -> Processes]
    /\ Horizon \in Nat \ {0} /\ MaxSequence \in Nat /\ Retention \in Nat
    /\ RefusesTaken \in BOOLEAN /\ Unreliable \in BOOLEAN
    /\ None \notin Operations \cup Ids \cup Sites

VARIABLES
    now,
    latest,         \* the latest ID each process has made
    log,            \* the records
    detached,       \* the IDs with a marker
    site,           \* the operation whose manifest each site has, or None
    pc,             \* the step of each operation
    id,             \* the ID of its record, once that is written
    manifest,       \* the manifest an operation is to commit, or None
    notices,        \* the notifications each process still has to deliver
    handled,        \* the IDs the audit server's handler was successful for
    target, todo,   \* the site that -audit-detach is for, and its listing
    removing,       \* the listing of -audit-expire
    found,          \* (history) the records that -audit-detach found when it began
    removed,        \* (history) the records that -audit-expire removed
    dropped         \* (history) the notifications that died with their process

opVars == <<pc, id, manifest>>
noticeVars == <<notices, handled, dropped>>
taskVars == <<target, todo, removing, found, removed>>
vars == <<now, latest, log, detached, site, opVars, noticeVars, taskVars>>

Taken == {r.id : r \in log}
RecordOf(i) == CHOOSE r \in log : r.id = i

Init ==
    /\ now = 1
    /\ latest = [p \in Processes |-> [time |-> 0, seq |-> 0]]
    /\ log = {} /\ detached = {}
    /\ site = [s \in Sites |-> None]
    /\ pc = [o \in Operations |-> "idle"]
    /\ id = [o \in Operations |-> None]
    /\ manifest = [o \in Operations |-> None]
    /\ notices = [p \in Processes |-> {}]
    /\ handled = {} /\ dropped = {}
    /\ target = None /\ todo = {} /\ removing = {} /\ found = {} /\ removed = {}

Goto(o, step) == pc' = [pc EXCEPT ![o] = step]

-----------------------------------------------------------------------------
(* Records                                                                   *)

SiteIn(r) == SiteOf[r.op]
IsDetachable(r) == KindOf[r.op] # "delete"

\* QueryAuditLog leaves out the manifest of a detached record.
ManifestOf(r) == IF r.id \in detached THEN None ELSE r.manifest

\* GenerateAuditID: milliseconds, machine and sequence number.
NextId(p) ==
    [time |-> now, node |-> NodeOf[p],
     seq |-> IF latest[p].time = now THEN latest[p].seq + 1 ELSE 0]

\* The start of an operation; a rollback takes its manifest from a record.
Begin(o) ==
    /\ pc[o] = "idle"
    /\ CASE KindOf[o] = "commit" -> manifest' = [manifest EXCEPT ![o] = o]
         [] KindOf[o] = "delete" -> UNCHANGED manifest
         [] KindOf[o] = "rollback" ->
                \E r \in log : /\ SiteIn(r) = SiteOf[o] /\ ManifestOf(r) # None
                               /\ manifest' = [manifest EXCEPT ![o] = ManifestOf(r)]
    /\ Goto(o, "record")
    /\ UNCHANGED <<now, latest, log, detached, site, id, noticeVars, taskVars>>

\* An operation gives its record the next ID.
Generate(o) ==
    LET new == NextId(ProcessOf[o]) IN
    /\ pc[o] = "record" /\ new.seq <= MaxSequence
    /\ latest' = [latest EXCEPT ![ProcessOf[o]] = [time |-> now, seq |-> new.seq]]

\* AppendAuditLog, of a record whose ID is not taken if the store looks.
Store(o) ==
    LET new == NextId(ProcessOf[o]) IN
    /\ RefusesTaken => new \notin Taken
    /\ log' = {r \in log : r.id # new}
                \cup {[id |-> new, op |-> o, manifest |-> manifest[o]]}

\* appendNewAuditRecord, with a goroutine that notifies.
Append(o) ==
    LET p == ProcessOf[o] IN
    /\ Generate(o) /\ Store(o)
    /\ id' = [id EXCEPT ![o] = NextId(p)]
    /\ notices' = [notices EXCEPT ![p] = @ \cup {NextId(p)}]
    /\ Goto(o, "apply")
    /\ UNCHANGED <<now, detached, site, manifest, handled, dropped, taskVars>>

\* Two records with one ID: a panic, which is the end of the operation.
Collide(o) ==
    /\ Generate(o) /\ RefusesTaken /\ NextId(ProcessOf[o]) \in Taken
    /\ Goto(o, "done")
    /\ UNCHANGED <<now, log, detached, site, id, manifest, noticeVars, taskVars>>

\* Seeded fault: a record that cannot be written does not stop the operation.
AppendIgnored(o) ==
    /\ Unreliable /\ Generate(o)
    /\ (UNCHANGED log \/ Store(o))
    /\ Goto(o, "apply")
    /\ UNCHANGED <<now, detached, site, id, manifest, noticeVars, taskVars>>

\* A failure to write the record is the end of the operation, though the record may have
\* been stored.
AppendFails(o) ==
    /\ Unreliable /\ Generate(o)
    /\ (UNCHANGED log \/ Store(o))
    /\ Goto(o, "done")
    /\ UNCHANGED <<now, detached, site, id, manifest, noticeVars, taskVars>>

\* CommitManifest or DeleteManifest of the backend, which may fail.
Apply(o) ==
    /\ pc[o] = "apply" /\ Goto(o, "done")
    /\ \/ site' = [site EXCEPT ![SiteOf[o]] = manifest[o]]
       \/ Unreliable /\ UNCHANGED site
    /\ UNCHANGED <<now, latest, log, detached, id, manifest, noticeVars, taskVars>>

-----------------------------------------------------------------------------
(* Notifications                                                             *)

\* Seeded fault: the query is set on the URL of the configuration, which all
\* notifications share.
AnnouncedShared(p, i) ==
    CHOOSE j \in notices[p] : \A k \in notices[p] : j.time > k.time \/ (j.time = k.time /\ j.seq >= k.seq)

\* The ID in the URL of a notification, a copy of the configured one.
Announced(p, i) == i

\* The audit server finds the record and its handler succeeds, but the answer may be lost,
\* so that the notification is sent again.
Notify(p, i) ==
    /\ i \in notices[p] /\ Announced(p, i) \in Taken
    /\ handled' = handled \cup {Announced(p, i)}
    /\ \/ notices' = [notices EXCEPT ![p] = @ \ {i}]
       \/ Unreliable /\ UNCHANGED notices
    /\ UNCHANGED <<now, latest, log, detached, site, opVars, dropped, taskVars>>

\* A command exits, or a server dies or is restarted, in the midst of its operations: its
\* goroutines are gone, and IDs are counted anew.
Exit(p) ==
    /\ notices[p] # {} \/ \E o \in Operations : ProcessOf[o] = p /\ pc[o] \in {"record", "apply"}
    /\ latest' = [latest EXCEPT ![p] = [time |-> 0, seq |-> 0]]
    /\ pc' = [o \in Operations |->
                IF ProcessOf[o] = p /\ pc[o] # "idle" THEN "done" ELSE pc[o]]
    /\ notices' = [notices EXCEPT ![p] = {}]
    /\ dropped' = dropped \cup notices[p]
    /\ UNCHANGED <<now, log, detached, site, id, manifest, handled, taskVars>>

-----------------------------------------------------------------------------
(* -audit-detach and -audit-expire                                           *)

StartDetach(s) ==
    /\ target = None
    /\ target' = s /\ todo' = Taken
    /\ found' = {r \in log : SiteIn(r) = s /\ IsDetachable(r)}
    /\ UNCHANGED <<now, latest, log, detached, site, opVars, noticeVars, removing, removed>>

\* Seeded fault: a record that is detached already ends the command.
DetachUntilDetached(i) ==
    /\ target # None /\ i \in todo /\ i \in Taken
    /\ LET r == RecordOf(i) IN
       IF SiteIn(r) # target \/ ~IsDetachable(r)
       THEN todo' = todo \ {i} /\ UNCHANGED detached
       ELSE /\ detached' = detached \cup {i}
            /\ todo' = IF i \in detached THEN {} ELSE todo \ {i}
    /\ UNCHANGED <<now, latest, log, site, opVars, noticeVars, target, removing, found, removed>>

\* A record is read, and its marker written.
Detach(i) ==
    /\ target # None /\ i \in todo /\ i \in Taken
    /\ LET r == RecordOf(i) IN
       detached' = IF SiteIn(r) = target /\ IsDetachable(r) THEN detached \cup {i} ELSE detached
    /\ todo' = todo \ {i}
    /\ UNCHANGED <<now, latest, log, site, opVars, noticeVars, target, removing, found, removed>>

\* A record that cannot be read, as when it has been removed since it was listed, or not be
\* marked, is the end of the command.
DetachFails ==
    /\ target # None /\ todo # {}
    /\ Unreliable \/ \E i \in todo : i \notin Taken
    /\ target' = None /\ todo' = {} /\ found' = {}
    /\ UNCHANGED <<now, latest, log, detached, site, opVars, noticeVars, removing, removed>>

EndDetach ==
    /\ target # None /\ todo = {}
    /\ target' = None /\ found' = {}
    /\ UNCHANGED <<now, latest, log, detached, site, opVars, noticeVars, todo, removing, removed>>

\* The records up to a certain time, inclusive.
StartExpire ==
    /\ removing = {} /\ now > Retention
    /\ removing' = {i \in Taken : i.time <= now - Retention}
    /\ UNCHANGED <<now, latest, log, detached, site, opVars, noticeVars, target, todo, found, removed>>

\* The marker of a detached record stays.
Expire(i) ==
    /\ i \in removing
    /\ log' = {r \in log : r.id # i}
    /\ removed' = removed \cup {r \in log : r.id = i}
    /\ removing' = removing \ {i}
    /\ UNCHANGED <<now, latest, detached, site, opVars, noticeVars, target, todo, found>>

\* A record that cannot be removed is the end of the command.
ExpireFails ==
    /\ Unreliable /\ removing # {}
    /\ removing' = {}
    /\ UNCHANGED <<now, latest, log, detached, site, opVars, noticeVars, target, todo, found, removed>>

Tick ==
    /\ now < Horizon /\ now' = now + 1
    /\ UNCHANGED <<latest, log, detached, site, opVars, noticeVars, taskVars>>

Next ==
    \/ \E o \in Operations : Begin(o) \/ Append(o) \/ Collide(o) \/ AppendFails(o) \/ Apply(o)
    \/ \E p \in Processes : Exit(p) \/ \E i \in notices[p] : Notify(p, i)
    \/ \E s \in Sites : StartDetach(s)
    \/ \E i \in todo : Detach(i)
    \/ \E i \in removing : Expire(i)
    \/ DetachFails \/ EndDetach \/ StartExpire \/ ExpireFails \/ Tick

Spec == Init /\ [][Next]_vars

\* Notifications are retried until they have been answered, as long as their process lives;
\* the handler is not for ever failing, nor are its answers for ever lost.
FairSpec ==
    /\ Spec
    /\ \A o \in Operations :
          SF_vars(Notify(ProcessOf[o], id[o]) /\ id[o] \notin notices'[ProcessOf[o]])

-----------------------------------------------------------------------------
(* Properties *)

\* What becomes of a site has been put on record by the same operation with the same
\* manifest, rollbacks and deletions included ("this error must interrupt whatever
\* operation it was auditing", audit.go:292), also where processes share a node ID, and
\* the record is there unless -audit-expire has removed it.
RecordedAsApplied ==
    [][\A s \in Sites : site'[s] # site[s] =>
          \E o \in Operations, r \in log \cup removed :
              /\ SiteOf[o] = s /\ pc[o] = "apply" /\ pc'[o] = "done"
              /\ r.op = o /\ r.id = id[o] /\ r.manifest = site'[s]]_vars

\* When -audit-detach comes to the end of its listing, no record of the site that was there
\* when it began can be rolled back to any more, though other records come meanwhile and
\* -audit-expire removes some (main.go:655-680).
DetachIsComplete ==
    target # None /\ todo = {} => \A r \in log \cap found : ManifestOf(r) = None

\* Every record that an operation has written is announced to the handler ("try to make
\* sure it is delivered by retrying with exponential backoff on errors", audit.go:316-317),
\* unless it is removed, or its process exits or dies, before; each has an announcement
\* of its own.
AllAnnounced ==
    \A o \in Operations :
        id[o] # None ~> id[o] \in handled \/ id[o] \notin Taken \/ id[o] \in dropped
=============================================================================
