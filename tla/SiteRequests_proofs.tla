------------------------ MODULE SiteRequests_proofs ------------------------
(* What an update commits, for any number of requests, sites and pushes, and  *)
(* who may ask for one, for any configuration of the server.  The invariant of *)
(* the first follows a manifest from the request that makes it to the site: a *)
(* date that was settled on within the limit stays there, what a PATCH made   *)
(* agrees with what it read, and a commit that was fetched later is no older. *)
EXTENDS HTTPRequests, FiniteSetTheorems, WellFoundedInduction, TLAPS

Shape ==
    /\ now \in Nat /\ head \in Nat
    /\ DOMAIN site = Sites
    /\ DOMAIN asked = Requests /\ DOMAIN expires = Requests /\ DOMAIN pc = Requests
    /\ DOMAIN base = Requests /\ DOMAIN draft = Requests
    /\ limit \in [Requests -> Nat] /\ ended \in [Requests -> SUBSET Requests]

Within(date, cap) == cap # Never => date # Never /\ date <= cap

\* What an update has settled on before it makes its manifest.
Settled(r) ==
    pc[r] \in {"read", "make"} =>
        /\ asked[r].method # "delete"
        /\ Expiration => Within(expires[r], limit[r])
        /\ pc[r] = "make" /\ asked[r].method = "patch" => base[r] # None

\* What has been checked before it is written.
Checked(r) == pc[r] = "write" => asked[r].method # "delete" /\ ~Refuses(r)

HasDraft(r) ==
    draft[r] # None \/ pc[r] = "write" \/ (pc[r] = "commit" /\ asked[r].method # "delete")

\* The manifest it has made.
Sound(r) ==
    /\ pc[r] \in {"commit", "write", "report", "done"}
    /\ draft[r].by = r
    /\ draft[r].commit \in Nat /\ draft[r].commit <= head
    /\ Expiration => Within(draft[r].expires, limit[r])
    /\ asked[r].method = "patch" =>
        base[r] # None /\ (base[r].expires # Never => draft[r].expires # Never)
    /\ \A q \in ended[r] : draft[r].commit > 0 => draft[q].commit <= draft[r].commit

\* Updates that are over have a manifest, which stays what it is.
Over(r) == \A q \in ended[r] : pc[q] = "done" /\ draft[q] # None

\* A site is what the update that is its author has made.
Authored(s) ==
    site[s] # None /\ site[s].by # Old =>
        /\ site[s].by \in Requests
        /\ pc[site[s].by] \in {"report", "done"}
        /\ site[s] = draft[site[s].by]

IInv ==
    /\ Shape
    /\ \A r \in Requests : Settled(r) /\ Checked(r) /\ (HasDraft(r) => Sound(r)) /\ Over(r)
    /\ \A s \in Sites : Authored(s)

\* No request has come in, and every site is one published before.
LEMMA InitInvariant == Init => IInv
<1> SUFFICES ASSUME Init PROVE IInv
  OBVIOUS
<1>1. Shape
  BY DEF Init, Shape, Never
<1>2. ASSUME NEW r \in Requests PROVE Settled(r) /\ Checked(r) /\ ~HasDraft(r) /\ Over(r)
  BY DEF Init, Settled, Checked, HasDraft, Over
<1>3. ASSUME NEW s \in Sites PROVE Authored(s)
  BY SiteRequestsAssumption DEF Init, Authored
<1> QED
  BY <1>1, <1>2, <1>3 DEF IInv

\* The expiration that is settled on is within the limit of the authorization, whatever
\* the header asks for.
LEMMA ExpiresWithin ==
    ASSUME NEW q \in Shapes, NEW cap \in Nat, q.preview \/ cap = Never,
           ~BadExpires(q), q.method # "delete", Expiration
    PROVE  Within(ExpiresAt(q, cap), cap)
<1>1. CASE q.method = "post"
  BY <1>1, SiteRequestsAssumption DEF Within
<1>2. CASE q.method # "post"
  <2>1. q.expires = Absent \/ q.expires \in Nat
    BY <1>2, SiteRequestsAssumption DEF BadExpires
  <2> QED
    BY <1>2, <2>1 DEF ExpiresAt, Within, Never
<1> QED
  BY <1>1, <1>2

\* A step of one update leaves the others sound, and the sites that it does not change
\* authored.
LEMMA Others ==
    ASSUME IInv, NEW r \in Requests,
           pc' = [pc EXCEPT ![r] = pc'[r]],
           UNCHANGED <<head, asked, limit, expires, ended>>,
           \A q \in Requests \ {r} : base'[q] = base[q] /\ draft'[q] = draft[q],
           pc[r] # "done" \/ (pc'[r] = "done" /\ draft'[r] = draft[r])
    PROVE  \A q \in Requests \ {r} :
                Settled(q)' /\ Checked(q)' /\ (HasDraft(q)' => Sound(q)') /\ Over(q)'
<1> SUFFICES ASSUME NEW q \in Requests \ {r}
             PROVE  Settled(q)' /\ Checked(q)' /\ (HasDraft(q)' => Sound(q)') /\ Over(q)'
  OBVIOUS
<1>1. Shape /\ Settled(q) /\ Checked(q) /\ (HasDraft(q) => Sound(q)) /\ Over(q)
  BY DEF IInv
<1>2. pc'[q] = pc[q] /\ draft'[q] = draft[q] /\ base'[q] = base[q]
  BY <1>1 DEF Shape
<1>3. \A p \in ended[q] : p \in Requests /\ pc[p] = "done" /\ draft[p] # None
  BY <1>1 DEF Shape, Over
<1>4. \A p \in ended[q] : pc'[p] = "done" /\ draft'[p] = draft[p]
  BY <1>1, <1>3 DEF Shape
<1>5. Settled(q)' /\ Checked(q)'
  BY <1>1, <1>2 DEF Settled, Checked, Refuses, Within
<1>6. HasDraft(q)' => Sound(q)'
  BY <1>1, <1>2, <1>4 DEF HasDraft, Sound, Within
<1>7. Over(q)'
  BY <1>3, <1>4 DEF Over
<1> QED
  BY <1>5, <1>6, <1>7

\* A site is still authored after a step that neither changes it nor takes back a report.
LEMMA StillAuthored ==
    ASSUME IInv, NEW s \in Sites, site'[s] = site[s],
           \A q \in Requests : pc[q] \in {"report", "done"} =>
                                pc'[q] \in {"report", "done"} /\ draft'[q] = draft[q]
    PROVE  Authored(s)'
BY DEF IInv, Authored

\* A request is received: its update has yet to make a manifest, and what it settles on
\* is within its limit.
LEMMA ReceiveInvariant == ASSUME IInv, NEW r \in Requests, Receive(r) PROVE IInv'
<1>1. PICK q \in Shapes :
        /\ asked' = [asked EXCEPT ![r] = q]
        /\ limit' = [limit EXCEPT ![r] = IF q.preview THEN now + MaxPreviewLifetime ELSE Never]
        /\ \/ Goto(r, "done") /\ UNCHANGED expires
           \/ /\ ~BadExpires(q)
              /\ expires' = [expires EXCEPT ![r] = ExpiresAt(q, limit'[r])]
              /\ Goto(r, IF q.method = "delete" THEN "commit" ELSE "read")
  BY DEF Receive
<1>2. Shape /\ pc[r] = "idle" /\ draft[r] = None
  <2>1. HasDraft(r) => Sound(r)
    BY DEF IInv
  <2> QED
    BY <2>1 DEF IInv, Receive, HasDraft, Sound
<1>3. UNCHANGED <<now, head, site, base, draft>>
  BY DEF Receive
<1>4. ended' = [ended EXCEPT ![r] = {p \in Requests : draft[p] # None /\ draft[p].commit > 0
                                                    /\ pc[p] = "done"}]
  BY DEF Receive
<1>5. /\ asked'[r] = q /\ limit'[r] \in Nat
      /\ q.preview \/ limit'[r] = Never
  BY <1>1, <1>2, SiteRequestsAssumption DEF Shape, Never
<1>6. Shape'
  BY <1>1, <1>2, <1>3, <1>4, <1>5 DEF Shape, Goto
<1>7. pc'[r] \in {"done", "commit", "read"} /\ (pc'[r] = "commit" => asked'[r].method = "delete")
  BY <1>1, <1>2, <1>5 DEF Shape, Goto
<1>8. Settled(r)' /\ Checked(r)' /\ ~HasDraft(r)' /\ Over(r)'
  <2>1. Over(r)'
    BY <1>2, <1>3, <1>4, <1>1 DEF Over, Shape, Goto
  <2>2. ~HasDraft(r)'
    BY <1>2, <1>3, <1>7 DEF HasDraft
  <2>3. ASSUME pc'[r] = "read" PROVE Settled(r)'
    <3>1. ~BadExpires(q) /\ q.method # "delete" /\ expires'[r] = ExpiresAt(q, limit'[r])
      BY <1>1, <1>2, <2>3 DEF Shape, Goto
    <3>2. Expiration => Within(expires'[r], limit'[r])
      BY <3>1, <1>5, ExpiresWithin
    <3> QED
      BY <1>5, <2>3, <3>1, <3>2 DEF Settled
  <2> QED
    BY <1>7, <2>1, <2>2, <2>3 DEF Settled, Checked
<1>9. ASSUME NEW p \in Requests \ {r}
      PROVE  Settled(p)' /\ Checked(p)' /\ (HasDraft(p)' => Sound(p)') /\ Over(p)'
  <2>1. Settled(p) /\ Checked(p) /\ (HasDraft(p) => Sound(p)) /\ Over(p)
    BY DEF IInv
  <2>2. /\ asked'[p] = asked[p] /\ limit'[p] = limit[p] /\ expires'[p] = expires[p]
        /\ pc'[p] = pc[p] /\ ended'[p] = ended[p]
    BY <1>1, <1>2, <1>4 DEF Shape, Goto
  <2>3. \A o \in ended[p] : pc'[o] = "done"
    BY <1>1, <1>2, <2>1 DEF Shape, Over, Goto
  <2> QED
    BY <1>3, <2>1, <2>2, <2>3 DEF Settled, Checked, Refuses, HasDraft, Sound, Over, Within
<1>10. ASSUME NEW s \in Sites PROVE Authored(s)'
  BY <1>1, <1>2, <1>3, StillAuthored DEF Goto, Shape
<1> QED
  BY <1>6, <1>8, <1>9, <1>10 DEF IInv

\* The update reads the site.
LEMMA ReadInvariant == ASSUME IInv, NEW r \in Requests, Read(r) PROVE IInv'
<1>1. Shape /\ Settled(r) /\ Checked(r) /\ (HasDraft(r) => Sound(r)) /\ Over(r)
  BY DEF IInv
<1>2. /\ pc[r] = "read" /\ draft[r] = None
      /\ base' = [base EXCEPT ![r] = base'[r]]
      /\ pc' = [pc EXCEPT ![r] = pc'[r]] /\ pc'[r] \in {"make", "report"}
      /\ UNCHANGED <<now, head, site, asked, limit, expires, draft, ended>>
      /\ pc'[r] = "make" /\ asked[r].method = "patch" => base'[r] # None
  BY <1>1 DEF Read, Finish, Goto, Shape, HasDraft, Sound, siteVars
<1>3. Shape'
  BY <1>1, <1>2 DEF Shape
<1>4. Settled(r)' /\ Checked(r)' /\ ~HasDraft(r)'
  BY <1>1, <1>2 DEF Settled, Checked, HasDraft, Within
<1>5. Over(r)'
  BY <1>1, <1>2 DEF Over, Shape
<1>6. \A q \in Requests \ {r} : Settled(q)' /\ Checked(q)' /\ (HasDraft(q)' => Sound(q)') /\ Over(q)'
  BY <1>1, <1>2, Others DEF Shape
<1>7. ASSUME NEW s \in Sites PROVE Authored(s)'
  BY <1>1, <1>2, StillAuthored DEF Shape
<1> QED
  BY <1>3, <1>4, <1>5, <1>6, <1>7 DEF IInv

\* The manifest is made: it has the expiration that was settled on, or, if none was and the
\* update is a PATCH, that of the manifest that was read; and its commit is the newest.
LEMMA MakeInvariant == ASSUME IInv, NEW r \in Requests, Make(r) PROVE IInv'
<1>1. Shape /\ Settled(r) /\ Checked(r) /\ (HasDraft(r) => Sound(r)) /\ Over(r)
  BY DEF IInv
<1>2. /\ pc[r] = "make" /\ draft[r] = None /\ pc' = [pc EXCEPT ![r] = "commit"]
      /\ draft' = [draft EXCEPT ![r] =
                      [by |-> r, expires |-> NewExpiry(r), empty |-> asked[r].empty,
                       commit |-> IF IsRepository(r) THEN CommitOf(r) ELSE 0]]
      /\ UNCHANGED <<now, head, site, asked, limit, expires, base, ended>>
  BY <1>1 DEF Make, Goto, HasDraft, Sound, siteVars
<1>3. Shape'
  BY <1>1, <1>2 DEF Shape
<1>4. /\ pc'[r] = "commit" /\ draft'[r].by = r
      /\ draft'[r].expires = NewExpiry(r)
      /\ draft'[r].commit \in {0, head}
  BY <1>1, <1>2 DEF Shape, CommitOf
<1>5. \A q \in ended[r] : /\ q \in Requests /\ q # r /\ draft'[q] = draft[q]
                         /\ draft[q].commit \in Nat /\ draft[q].commit <= head
  <2> SUFFICES ASSUME NEW q \in ended[r]
               PROVE  /\ q \in Requests /\ q # r /\ draft'[q] = draft[q]
                      /\ draft[q].commit \in Nat /\ draft[q].commit <= head
    OBVIOUS
  <2>1. q \in Requests /\ pc[q] = "done" /\ draft[q] # None
    BY <1>1 DEF Shape, Over
  <2>2. Sound(q)
    BY <2>1 DEF IInv, HasDraft
  <2> QED
    BY <1>1, <1>2, <2>1, <2>2 DEF Sound, Shape
<1>6. Sound(r)'
  <2>1. Expiration => Within(draft'[r].expires, limit'[r])
    BY <1>1, <1>2, <1>4 DEF Settled, NewExpiry, Within
  <2>2. asked[r].method = "patch" =>
            base[r] # None /\ (base[r].expires # Never => draft'[r].expires # Never)
    BY <1>1, <1>2, <1>4 DEF Settled, NewExpiry
  <2>3. draft'[r].commit \in Nat /\ draft'[r].commit <= head
    BY <1>1, <1>4 DEF Shape
  <2>4. \A q \in ended[r] : draft'[r].commit > 0 => draft'[q].commit <= draft'[r].commit
    BY <1>1, <1>4, <1>5 DEF Shape
  <2> QED
    BY <1>2, <1>4, <2>1, <2>2, <2>3, <2>4 DEF Sound
<1>7. Settled(r)' /\ Checked(r)' /\ Over(r)'
  BY <1>1, <1>2, <1>4, <1>5 DEF Settled, Checked, Over, Shape
<1>8. \A q \in Requests \ {r} : Settled(q)' /\ Checked(q)' /\ (HasDraft(q)' => Sound(q)') /\ Over(q)'
  BY <1>1, <1>2, Others DEF Shape
<1>9. ASSUME NEW s \in Sites PROVE Authored(s)'
  BY <1>1, <1>2, StillAuthored DEF Shape
<1> QED
  BY <1>3, <1>6, <1>7, <1>8, <1>9 DEF IInv

\* The update may change the site, as far as can be told.
LEMMA CheckInvariant == ASSUME IInv, NEW r \in Requests, Check(r) PROVE IInv'
<1>1. Shape /\ Settled(r) /\ (HasDraft(r) => Sound(r)) /\ Over(r)
  BY DEF IInv
<1>2. /\ pc[r] = "commit" /\ pc' = [pc EXCEPT ![r] = "write"]
      /\ asked[r].method # "delete" /\ ~Refuses(r)
      /\ UNCHANGED <<now, head, site, asked, limit, expires, base, draft, ended>>
  BY DEF Check, Goto, siteVars
<1>3. Shape'
  BY <1>1, <1>2 DEF Shape
<1>4. pc'[r] = "write" /\ HasDraft(r)
  BY <1>1, <1>2 DEF Shape, HasDraft
<1>5. Settled(r)' /\ Checked(r)' /\ (HasDraft(r)' => Sound(r)') /\ Over(r)'
  <2>1. Settled(r)' /\ Checked(r)'
    BY <1>2, <1>4 DEF Settled, Checked, Refuses
  <2>2. Sound(r)'
    BY <1>1, <1>2, <1>4 DEF Sound, Within
  <2>3. Over(r)'
    BY <1>1, <1>2 DEF Over, Shape
  <2> QED
    BY <2>1, <2>2, <2>3
<1>6. \A q \in Requests \ {r} : Settled(q)' /\ Checked(q)' /\ (HasDraft(q)' => Sound(q)') /\ Over(q)'
  BY <1>1, <1>2, <1>4, Others
<1>7. ASSUME NEW s \in Sites PROVE Authored(s)'
  BY <1>1, <1>2, StillAuthored DEF Shape
<1> QED
  BY <1>3, <1>5, <1>6, <1>7 DEF IInv

\* The update is over: what it has made stays, and a site is changed to that at most.
LEMMA FinishInvariant ==
    ASSUME IInv, NEW r \in Requests,
           \/ MakeFails(r) \/ Commit(r) \/ CommitFails(r) \/ Delete(r) \/ Report(r) \/ Send(r)
    PROVE  IInv'
<1>1. Shape /\ Settled(r) /\ Checked(r) /\ (HasDraft(r) => Sound(r)) /\ Over(r)
  BY DEF IInv
<1>2. /\ pc[r] \in {"read", "make", "commit", "write", "report"} /\ pc' = [pc EXCEPT ![r] = pc'[r]]
      /\ pc'[r] \in {"report", "done"}
      /\ UNCHANGED <<now, head, asked, limit, expires, base, draft, ended>>
  BY <1>1 DEF MakeFails, Commit, CommitFails, Delete, Report, Send, Finish, Goto, Shape
<1>3. Shape'
  <2>1. DOMAIN site' = Sites
    BY <1>1 DEF MakeFails, Commit, CommitFails, Delete, Report, Send, Write, Put, Shape, siteVars
  <2> QED
    BY <1>1, <1>2, <2>1 DEF Shape
<1>4. Settled(r)' /\ Checked(r)' /\ (HasDraft(r)' => Sound(r)') /\ Over(r)'
  <2>1. Settled(r)' /\ Checked(r)'
    BY <1>2 DEF Settled, Checked
  <2>2. HasDraft(r)' => Sound(r)'
    BY <1>1, <1>2 DEF HasDraft, Sound, Within
  <2>3. Over(r)'
    BY <1>1, <1>2 DEF Over, Shape
  <2> QED
    BY <2>1, <2>2, <2>3
<1>5. \A q \in Requests \ {r} : Settled(q)' /\ Checked(q)' /\ (HasDraft(q)' => Sound(q)') /\ Over(q)'
  BY <1>1, <1>2, Others DEF Shape
<1>6. ASSUME NEW s \in Sites PROVE Authored(s)'
  <2>1. \/ site'[s] = site[s]
        \/ site'[s] = None
        \/ pc[r] = "write" /\ site'[s] = draft[r]
    BY <1>1 DEF MakeFails, Commit, CommitFails, Delete, Report, Send, Write, Put, Shape, siteVars
  <2>2. CASE site'[s] = site[s]
    BY <1>1, <1>2, <2>2, StillAuthored DEF Shape
  <2>3. CASE site'[s] = None
    BY <2>3 DEF Authored
  <2>4. CASE pc[r] = "write" /\ site'[s] = draft[r]
    BY <1>1, <1>2, <2>4 DEF Authored, HasDraft, Sound
  <2> QED
    BY <2>1, <2>2, <2>3, <2>4
<1> QED
  BY <1>3, <1>4, <1>5, <1>6 DEF IInv

\* Steps that are not an update's: its manifest, the site and the branch's past remain.
LEMMA QuietInvariant ==
    ASSUME IInv, now' \in Nat, head' \in Nat, head <= head',
           UNCHANGED <<asked, limit, expires, pc, base, draft, ended>>,
           DOMAIN site' = Sites,
           \A s \in Sites : site'[s] = site[s] \/ site'[s] = None
    PROVE  IInv'
<1>1. Shape'
  BY DEF IInv, Shape
<1>2. ASSUME NEW r \in Requests PROVE Settled(r)' /\ Checked(r)' /\ (HasDraft(r)' => Sound(r)') /\ Over(r)'
  <2>1. Shape /\ Settled(r) /\ Checked(r) /\ (HasDraft(r) => Sound(r)) /\ Over(r)
    BY DEF IInv
  <2> QED
    BY <2>1 DEF Shape, Settled, Checked, Refuses, HasDraft, Sound, Over, Within
<1>3. ASSUME NEW s \in Sites PROVE Authored(s)'
  <2>1. CASE site'[s] = site[s]
    BY <2>1, StillAuthored
  <2>2. CASE site'[s] = None
    BY <2>2 DEF Authored
  <2> QED
    BY <2>1, <2>2
<1> QED
  BY <1>1, <1>2, <1>3 DEF IInv

\* The invariant is inductive.
LEMMA StepInvariant == IInv /\ [Next]_vars => IInv'
<1> SUFFICES ASSUME IInv, [Next]_vars PROVE IInv'
  OBVIOUS
<1>0. Shape
  BY DEF IInv
<1> DEFINE Quiet == UNCHANGED <<asked, limit, expires, pc, base, draft, ended>>
<1>1. ASSUME NEW r \in Requests, Receive(r) PROVE IInv'
  BY <1>1, ReceiveInvariant
<1>2. ASSUME NEW r \in Requests, Work(r) PROVE IInv'
  BY <1>2, ReadInvariant, MakeInvariant, CheckInvariant, FinishInvariant DEF Work
<1>3. ASSUME NEW r \in Requests, DeadlinePasses(r) \/ Respond(r) PROVE IInv'
  <2>1. Quiet /\ UNCHANGED <<now, head, site>>
    BY <1>3 DEF DeadlinePasses, Respond, Answer, TimerFires, siteVars
  <2> QED
    BY <1>0, <2>1, QuietInvariant DEF Shape
<1>4. CASE Job \/ JobFails
  <2>1. Quiet /\ UNCHANGED <<now, head>>
    BY <1>4 DEF Job, StartJob, Visit, Remove, EndJob, JobFails, requestVars
  <2>2. DOMAIN site' = Sites /\ \A s \in Sites : site'[s] = site[s] \/ site'[s] = None
    BY <1>0, <1>4 DEF Job, StartJob, Visit, Remove, EndJob, JobFails, Put, siteVars, Shape
  <2> QED
    BY <1>0, <2>1, <2>2, QuietInvariant DEF Shape
<1>5. CASE Tick \/ Push \/ UNCHANGED vars
  <2>1. Quiet /\ UNCHANGED site /\ now' \in Nat /\ head' \in Nat /\ head <= head'
    BY <1>0, <1>5 DEF Tick, Push, vars, siteVars, requestVars, Shape
  <2> QED
    BY <1>0, <2>1, QuietInvariant DEF Shape
<1> QED
  BY <1>1, <1>2, <1>3, <1>4, <1>5 DEF Next

\* The invariant holds of every behaviour.
THEOREM RequestsInvariance == Spec => []IInv
BY InitInvariant, StepInvariant, PTL DEF Spec

\* With the feature "expiration", a site published as a preview expires when its
\* authorization says at the latest, whatever its header asked for (pages.go:522-526).
THEOREM PreviewsExpireTheorem == ASSUME Expiration PROVE Spec => []PreviewsExpire
<1>1. IInv => PreviewsExpire
  <2> SUFFICES ASSUME IInv, NEW s \in Sites,
                      site[s] # None, site[s].by # Old, limit[site[s].by] # Never
               PROVE  ~IsPermanent(s) /\ site[s].expires <= limit[site[s].by]
    BY DEF PreviewsExpire
  <2>1. Authored(s)
    BY DEF IInv
  <2>2. site[s].by \in Requests /\ site[s] = draft[site[s].by]
    BY <2>1 DEF Authored
  <2>3. Sound(site[s].by)
    BY <2>2 DEF IInv, HasDraft
  <2> QED
    BY <2>2, <2>3 DEF Sound, Within, IsPermanent
<1> QED
  BY <1>1, RequestsInvariance, PTL

\* The steps of an update that change a site for something else than nothing: a commit of
\* what it has made, on what it has read if it is a PATCH.
LEMMA SiteChanges ==
    ASSUME IInv, [Next]_vars, NEW s \in Sites, site'[s] # site[s], site'[s] # None
    PROVE  \E r \in Requests :
              /\ s = SiteOf[r] /\ pc[r] = "write" /\ pc'[r] = "report"
              /\ Matches(r) /\ ~draft[r].empty
              /\ site'[s] = draft[r] /\ \A q \in Requests \ {r} : pc'[q] = pc[q]
<1>0. Shape
  BY DEF IInv
<1>1. ASSUME NEW r \in Requests, Commit(r) \/ CommitFails(r)
      PROVE  /\ s = SiteOf[r] /\ pc[r] = "write" /\ pc'[r] = "report"
             /\ Matches(r) /\ ~draft[r].empty
             /\ site'[s] = draft[r] /\ \A q \in Requests \ {r} : pc'[q] = pc[q]
  BY <1>0, <1>1 DEF Commit, CommitFails, Write, Put, Finish, Goto, Shape, siteVars
<1>2. ASSUME NEW r \in Requests, Receive(r) PROVE FALSE
  BY <1>0, <1>2 DEF Receive
<1>4. ASSUME NEW r \in Requests,
             \/ DeadlinePasses(r) \/ Respond(r)
             \/ Read(r) \/ Make(r) \/ MakeFails(r) \/ Check(r) \/ Delete(r) \/ Report(r) \/ Send(r)
      PROVE  FALSE
  BY <1>0, <1>4 DEF DeadlinePasses, Respond, Answer, TimerFires, Read, Make, MakeFails,
                    Check, Delete, Put, Report, Send, Shape, siteVars
<1>3. ASSUME Job \/ JobFails \/ Tick \/ Push \/ UNCHANGED vars PROVE FALSE
  BY <1>0, <1>3 DEF Job, StartJob, Visit, Remove, EndJob, JobFails, Put, Tick, Push, vars, siteVars,
                    Shape
<1> QED
  BY <1>1, <1>2, <1>3, <1>4 DEF Next, Work

\* On a store that honours If-Match a PATCH neither gives an expiration date to a permanent
\* site nor takes one away (update.go:61, manifest.go:442, backend_s3.go:615-631), however
\* old the manifest that it read and whatever happens between its check and its write.
THEOREM PatchesKeepPermanenceTheorem == ASSUME HonoursIfMatch PROVE Spec => PatchesKeepPermanence
<1> DEFINE Keeps == \A r \in Requests : LET s == SiteOf[r] IN
                      /\ pc[r] = "write" /\ pc'[r] # "write" /\ asked[r].method = "patch"
                      /\ site'[s] # site[s] /\ site'[s] # None
                      => IsPermanent(s) = IsPermanent(s)'
<1>1. IInv /\ [Next]_vars => [Keeps]_vars
  <2> SUFFICES ASSUME IInv, [Next]_vars, NEW r \in Requests, NEW s, s = SiteOf[r],
                      pc[r] = "write", pc'[r] # "write", asked[r].method = "patch",
                      site'[s] # site[s], site'[s] # None
               PROVE  IsPermanent(s) = IsPermanent(s)'
    OBVIOUS
  <2>1. s \in Sites
    BY SiteRequestsAssumption
  <2>2. PICK q \in Requests :
          /\ Matches(q) /\ ~draft[q].empty /\ site'[s] = draft[q] /\ SiteOf[q] = s
          /\ \A p \in Requests \ {q} : pc'[p] = pc[p]
    BY <2>1, SiteChanges
  <2>3. q = r
    BY <2>2
  <2>4. site[s] = base[r] /\ site'[s] = draft[r]
    BY <2>2, <2>3 DEF Matches, Unmodified
  <2>5. /\ base[r] # None /\ (base[r].expires # Never => draft[r].expires # Never)
        /\ ~Refuses(r)
    BY DEF IInv, HasDraft, Sound, Checked
  <2>6. base[r].expires = Never => draft[r].expires = Never
    BY <2>5 DEF Refuses
  <2> QED
    BY <2>4, <2>5, <2>6 DEF IsPermanent
<1> QED
  BY <1>1, RequestsInvariance, PTL DEF Spec, PatchesKeepPermanence

\* A fetch that began when another was over does not put back an older commit: it checks
\* out the newest of the branch, whatever the event says (update.go:123, pages.go:884).
THEOREM NoStepBackTheorem == Spec => NoStepBack
<1> DEFINE Forward == \A s \in Sites, r \in Requests :
                        /\ site[s] # None /\ site[s].commit > 0
                        /\ site'[s] # None /\ site'[s].commit > 0
                        /\ site'[s].by = r /\ site[s].by \in ended[r]
                        => site'[s].commit >= site[s].commit
<1>1. IInv /\ [Next]_vars => [Forward]_vars
  <2> SUFFICES ASSUME IInv, [Next]_vars, NEW s \in Sites, NEW r \in Requests,
                      site[s] # None, site[s].commit > 0,
                      site'[s] # None, site'[s].commit > 0,
                      site'[s].by = r, site[s].by \in ended[r]
               PROVE  site'[s].commit >= site[s].commit
    OBVIOUS
  <2>1. site[s].by \in Requests /\ site[s] = draft[site[s].by]
    BY SiteRequestsAssumption DEF IInv, Shape, Authored
  <2>2. Sound(site[s].by) /\ site[s].commit \in Nat
    BY <2>1 DEF IInv, HasDraft, Sound
  <2>3. CASE site'[s] = site[s]
    BY <2>2, <2>3
  <2>4. CASE site'[s] # site[s]
    <3>1. PICK q \in Requests :
            /\ pc[q] = "write" /\ site'[s] = draft[q]
      BY <2>4, SiteChanges
    <3>2. Sound(q)
      BY <3>1 DEF IInv, HasDraft
    <3>3. q = r
      BY <3>1, <3>2 DEF Sound
    <3>4. draft[site[s].by].commit <= draft[r].commit /\ draft[r].commit \in Nat
      BY <3>1, <3>2, <3>3 DEF Sound
    <3> QED
      BY <2>1, <2>2, <3>1, <3>3, <3>4
  <2> QED
    BY <2>3, <2>4
<1> QED
  BY <1>1, RequestsInvariance, PTL DEF Spec, NoStepBack

-----------------------------------------------------------------------------
(* Who may update a site, for any configuration of the server and whatever    *)
(* DNS and the forge answer: the verdict rests on what the first of the ways   *)
(* to be authorized grants, and each way has a rule of the README.             *)

\* A set of numbers that is not empty has a least one, which is its minimum.
LEMMA MinExists ==
    ASSUME NEW T \in SUBSET Nat, T # {}
    PROVE  Auth!Min(T) \in T /\ \A y \in T : Auth!Min(T) <= y
<1> DEFINE R == OpToRel(<, Nat)
<1>1. IsWellFoundedOn(R, Nat)
  BY NatLessThanWellFounded
<1> HIDE DEF R
<1>2. PICK x \in T : \A y \in T : ~ (<<y, x>> \in R)
  BY <1>1, WFMin
<1>3. \A y \in T : x <= y
  <2> SUFFICES ASSUME NEW y \in T PROVE x <= y
    OBVIOUS
  <2>1. <<y, x>> \notin R
    BY <1>2
  <2>2. ~(y < x)
    BY <2>1 DEF R, OpToRel
  <2>3. QED
    BY <2>2
<1>4. QED
  BY <1>3 DEF Auth!Min

\* What the rules take from the code: the methods there are, authorizations are not errors,
\* "any repository" is not a list of them, sections have a lifetime for previews, and a
\* run of a workflow has a user and the number of a pull request.
AuthAssumption ==
    /\ Methods \subseteq {"form", "archive", "patch", "delete", "post", "metadata"}
    /\ {Insecure, Limited, CodebergCompat} \subseteq BOOLEAN
    /\ DOMAIN Patterns \subseteq Nat
    /\ \A i \in DOMAIN Patterns :
        Patterns[i].authorization \in BOOLEAN /\ Patterns[i].lifetime # None
    /\ \A w \in Worlds : w.run # None => w.run.user # Nobody /\ w.run.number # None
    /\ \A w \in Worlds : w.codeberg # None =>
        w.codeberg = [repo |-> w.codeberg.repo, branch |-> w.codeberg.branch]
    /\ \A repos, branch, lifetime, user :
        LET one == [repos |-> repos, branch |-> branch, lifetime |-> lifetime, user |-> user]
        IN  Auth!Granted(one) /\ one # None
    /\ AnyURL \notin SUBSET Repositories /\ \A repo : AnyURL # {repo}
    /\ None \notin Repositories /\ ForbiddenDomain # Unauthorized
    /\ \A forge, owner, name : None # [forge |-> forge, owner |-> owner, name |-> name]
    /\ Auth!Granted(None) /\ Auth!Granted("allowed") /\ Auth!Granted("pending")

\* The first that decides is one of them, and nothing before it did.
LEMMA FirstDecides ==
    ASSUME NEW outcomes, DOMAIN outcomes \subseteq Nat
    PROVE  LET first == Auth!FirstOf(outcomes)
           IN  IF \A i \in DOMAIN outcomes : outcomes[i] = Unauthorized THEN first = Unauthorized
               ELSE \E i \in DOMAIN outcomes : first = outcomes[i] /\ first # Unauthorized
<1> DEFINE decided == {i \in DOMAIN outcomes : outcomes[i] # Unauthorized}
<1>1. Auth!FirstOf(outcomes) = IF decided = {} THEN Unauthorized ELSE outcomes[Auth!Min(decided)]
  BY DEF Auth!FirstOf
<1>2. CASE decided = {}
  BY <1>1, <1>2
<1>3. CASE decided # {}
  <2>1. decided \in SUBSET Nat
    OBVIOUS
  <2>2. Auth!Min(decided) \in decided
    BY <1>3, <2>1, MinExists
  <2>3. QED
    BY <1>1, <1>3, <2>2
<1>4. QED
  BY <1>2, <1>3

\* The first of two, and of five.
LEMMA FirstOfTwo ==
    ASSUME NEW a, NEW b
    PROVE  LET first == Auth!FirstOf(<<a, b>>)
           IN  /\ first \in {Unauthorized, a, b}
               /\ first = Unauthorized => a = Unauthorized /\ b = Unauthorized
<1> DEFINE outcomes == <<a, b>>
<1>1. DOMAIN outcomes = {1, 2} /\ outcomes[1] = a /\ outcomes[2] = b
  OBVIOUS
<1> HIDE DEF outcomes
<1>2. DOMAIN outcomes \subseteq Nat
  BY <1>1
<1>3. QED
  BY <1>1, <1>2, FirstDecides DEF outcomes

LEMMA FirstOfFive ==
    ASSUME NEW a, NEW b, NEW c, NEW d, NEW e
    PROVE  LET first == Auth!FirstOf(<<a, b, c, d, e>>)
           IN  /\ first \in {Unauthorized, a, b, c, d, e}
               /\ first = Unauthorized => 
                    /\ a = Unauthorized /\ b = Unauthorized /\ c = Unauthorized
                    /\ d = Unauthorized /\ e = Unauthorized
<1> DEFINE outcomes == <<a, b, c, d, e>>
<1>1. /\ DOMAIN outcomes = {1, 2, 3, 4, 5} /\ outcomes[1] = a /\ outcomes[2] = b
      /\ outcomes[3] = c /\ outcomes[4] = d /\ outcomes[5] = e
  OBVIOUS
<1> HIDE DEF outcomes
<1>2. DOMAIN outcomes \subseteq Nat
  BY <1>1
<1>3. QED
  BY <1>1, <1>2, FirstDecides DEF outcomes

Granted(outcome) == Auth!Granted(outcome)

\* The reasons to refuse are no authorizations.
LEMMA ReasonsRefuse ==
    ~Granted(Unauthorized) /\ ~Granted(BadRequest) /\ ~Granted(ForbiddenDomain)
BY DEF Granted, Auth!Granted, Auth!Reasons

\* What the domain itself allows: development mode, the challenge, and its list of
\* repositories.
LEMMA DomainWays ==
    ASSUME NEW q, q.header \in {"absent", "malformed", "token"}
    PROVE  /\ ~Granted(Auth!CheckForbiddenDomain(q))
           /\ Granted(Auth!DevelopmentMode) => Insecure
           /\ Granted(Auth!DNSChallenge(q)) =>
                  Auth!RuleChallenge(q) /\ Auth!DNSChallenge(q) = Auth!Grant(AnyURL, Pages)
           /\ \A records : Granted(Auth!DNSAllowlist(q, records)) =>
                  q.project = Index /\ Auth!DNSAllowlist(q, records) = Auth!Grant(records \cap Repositories, Pages)
<1>1. ~Granted(Auth!CheckForbiddenDomain(q)) /\ (Granted(Auth!DevelopmentMode) => Insecure)
  BY ReasonsRefuse DEF Auth!CheckForbiddenDomain, Auth!DevelopmentMode
<1>2. Granted(Auth!DNSChallenge(q)) =>
          Auth!RuleChallenge(q) /\ Auth!DNSChallenge(q) = Auth!Grant(AnyURL, Pages)
  BY ReasonsRefuse DEF Auth!DNSChallenge, Auth!RuleChallenge
<1>3. ASSUME NEW records, Granted(Auth!DNSAllowlist(q, records))
      PROVE  q.project = Index /\ Auth!DNSAllowlist(q, records) = Auth!Grant(records \cap Repositories, Pages)
  BY <1>3, ReasonsRefuse DEF Auth!DNSAllowlist
<1>4. QED
  BY <1>1, <1>2, <1>3

\* Some section of the configuration yields what the list of sections does.
LEMMA WildcardsByHost ==
    ASSUME AuthAssumption, NEW q
    PROVE  LET Way(pattern) == Auth!WildcardMatchHost(q, pattern)
           IN  Granted(Auth!Wildcards(Way)) <=>
                  \E i \in DOMAIN Patterns : Granted(Auth!WildcardMatchHost(q, Patterns[i]))
<1> DEFINE outcomes == [i \in DOMAIN Patterns |-> Auth!WildcardMatchHost(q, Patterns[i])]
           Way(pattern) == Auth!WildcardMatchHost(q, pattern)
<1>1. Auth!Wildcards(Way) = Auth!FirstOf(outcomes)
  BY DEF Auth!Wildcards
<1>2. DOMAIN outcomes = DOMAIN Patterns /\ DOMAIN outcomes \subseteq Nat
  BY DEF AuthAssumption
<1>3. \A i \in DOMAIN Patterns : outcomes[i] = Auth!WildcardMatchHost(q, Patterns[i])
  OBVIOUS
<1>4. \A i \in DOMAIN Patterns : outcomes[i] = Unauthorized \/ Granted(outcomes[i])
  BY DEF Auth!WildcardMatchHost, AuthAssumption, Auth!Grant, Granted
<1> HIDE DEF outcomes
<1>5. Granted(Auth!FirstOf(outcomes)) <=> \E i \in DOMAIN outcomes : Granted(outcomes[i])
  BY <1>2, <1>4, FirstDecides, ReasonsRefuse
<1>6. QED
  BY <1>1, <1>2, <1>3, <1>5

\* Of ways that grant or are unauthorized, the first that grants one decides.
LEMMA FirstGrants ==
    ASSUME NEW outcomes, DOMAIN outcomes \subseteq Nat,
           \A i \in DOMAIN outcomes : outcomes[i] = Unauthorized \/ Granted(outcomes[i])
    PROVE  LET first == Auth!FirstOf(outcomes)
           IN  IF \E i \in DOMAIN outcomes : Granted(outcomes[i])
               THEN Granted(first) /\ \E i \in DOMAIN outcomes : first = outcomes[i]
               ELSE first = Unauthorized
BY FirstDecides, ReasonsRefuse

\* An update from a repository is for the one that a matching section names.
LEMMA WildcardsBySite ==
    ASSUME AuthAssumption, NEW q
    PROVE  LET Way(pattern) == Auth!WildcardMatchSite(q, pattern)
           IN  \/ Auth!Wildcards(Way) = Unauthorized
               \/ \E i \in DOMAIN Patterns :
                    LET t == Auth!Template(Patterns[i], q.host.label, q.project.full)
                    IN  /\ q.host.rest = Patterns[i].domain
                        /\ Auth!Wildcards(Way) = Auth!Grant({t.repo}, t.branch)
<1> DEFINE outcomes == [i \in DOMAIN Patterns |-> Auth!WildcardMatchSite(q, Patterns[i])]
           Way(pattern) == Auth!WildcardMatchSite(q, pattern)
<1>1. Auth!Wildcards(Way) = Auth!FirstOf(outcomes)
  BY DEF Auth!Wildcards
<1>2. DOMAIN outcomes = DOMAIN Patterns /\ DOMAIN outcomes \subseteq Nat
  BY DEF AuthAssumption
<1>3. \A i \in DOMAIN Patterns : outcomes[i] = Auth!WildcardMatchSite(q, Patterns[i])
  OBVIOUS
<1> HIDE DEF outcomes
<1>4. \/ Auth!FirstOf(outcomes) = Unauthorized
      \/ \E i \in DOMAIN Patterns :
            Auth!FirstOf(outcomes) = outcomes[i] /\ outcomes[i] # Unauthorized
  BY <1>2, FirstDecides
<1>5. QED
  BY <1>1, <1>3, <1>4 DEF Auth!WildcardMatchSite, Auth!MatchesPrimary

\* The owner's token, where sites are.
LEMMA PrimaryWay ==
    ASSUME AuthAssumption, NEW q, NEW pattern
    PROVE  LET t == Auth!Template(pattern, q.host.label, q.project.full)
               may == pattern.domain # None /\ q.host.rest = pattern.domain /\ Auth!CanPush(t.repo)
               way == Auth!Primary(q, pattern)
           IN  IF may THEN /\ Granted(way) /\ way.repos = {t.repo}
                           /\ way.user = world.user /\ world.user # Nobody
               ELSE way = Unauthorized
<1> DEFINE t == Auth!Template(pattern, q.host.label, q.project.full)
           found == Auth!GogsUser(t.repo)
           one == [repos |-> {t.repo}, branch |-> None, lifetime |-> None, user |-> world.user]
           two == [repos |-> {t.repo}, branch |-> t.branch, lifetime |-> None, user |-> world.user]
<1>1. found = IF Auth!CanPush(t.repo) THEN one ELSE Unauthorized
  BY DEF Auth!GogsUser, Auth!Grant, Auth!CanPush
<1>2. Granted(one) /\ Granted(two)
  BY DEF AuthAssumption, Granted
<1>3. [one EXCEPT !.branch = t.branch] = two
  OBVIOUS
<1>4. Auth!Primary(q, pattern) =
        IF ~Auth!MatchesPrimary(q, pattern) \/ ~Granted(found) THEN Unauthorized
        ELSE [found EXCEPT !.branch = t.branch]
  BY DEF Auth!Primary, Granted
<1>5. two.repos = {t.repo} /\ two.user = world.user
  OBVIOUS
<1> HIDE DEF found, one, two, t
<1>6. Auth!CanPush(t.repo) => world.user # Nobody
  BY DEF Auth!CanPush
<1>7. Auth!MatchesPrimary(q, pattern) <=> pattern.domain # None /\ q.host.rest = pattern.domain
  BY DEF Auth!MatchesPrimary
<1>8. QED
  BY <1>1, <1>2, <1>3, <1>4, <1>5, <1>6, <1>7, ReasonsRefuse DEF t

\* The token of a run for the pull request, where previews are.
LEMMA PreviewWay ==
    ASSUME AuthAssumption, world \in Worlds, NEW q, NEW pattern
    PROVE  LET t == Auth!Template(pattern, q.host.label, q.project.name)
               may == /\ pattern.preview # None /\ q.host.rest = pattern.preview
                      /\ world.run # None /\ world.run.repo = t.repo
                      /\ world.run.number = q.project.number
               way == Auth!Preview(q, pattern)
           IN  IF may THEN /\ Granted(way) /\ way.repos = {t.repo} /\ way.lifetime = pattern.lifetime
                           /\ way.user = world.run.user /\ world.run.user # Nobody
               ELSE way = Unauthorized
<1> DEFINE t == Auth!Template(pattern, q.host.label, q.project.name)
           found == Auth!ForgejoActionRun(t.repo, q.project.number)
           runs == /\ world.run # None /\ world.run.repo = t.repo
                   /\ world.run.number = q.project.number
           one == [repos |-> {t.repo}, branch |-> None, lifetime |-> None, user |-> world.run.user]
           two == [repos |-> {t.repo}, branch |-> t.branch, lifetime |-> pattern.lifetime,
                   user |-> world.run.user]
<1>1. found = IF runs THEN one ELSE Unauthorized
  BY DEF Auth!ForgejoActionRun, Auth!Grant
<1>2. Granted(one) /\ Granted(two)
  BY DEF AuthAssumption, Granted
<1>3. [one EXCEPT !.branch = t.branch, !.lifetime = pattern.lifetime] = two
  <2> DEFINE three == [repos |-> {t.repo}, branch |-> t.branch, lifetime |-> None, user |-> world.run.user]
  <2>1. [one EXCEPT !.branch = t.branch] = three
    OBVIOUS
  <2>2. [three EXCEPT !.lifetime = pattern.lifetime] = two
    OBVIOUS
  <2>3. [one EXCEPT !.branch = t.branch, !.lifetime = pattern.lifetime]
          = [[one EXCEPT !.branch = t.branch] EXCEPT !.lifetime = pattern.lifetime]
    OBVIOUS
  <2> QED
    BY <2>1, <2>2, <2>3
<1>4. Auth!Preview(q, pattern) =
        IF ~Auth!MatchesPreview(q, pattern) \/ q.project.number = None \/ ~Granted(found)
        THEN Unauthorized
        ELSE [found EXCEPT !.branch = t.branch, !.lifetime = pattern.lifetime]
  BY DEF Auth!Preview, Granted
<1>5. two.repos = {t.repo} /\ two.user = world.run.user /\ two.lifetime = pattern.lifetime
  OBVIOUS
<1>6. runs => world.run.user # Nobody /\ q.project.number # None
  BY DEF AuthAssumption
<1> HIDE DEF found, one, two, t
<1>7. Auth!MatchesPreview(q, pattern) <=> pattern.preview # None /\ q.host.rest = pattern.preview
  BY DEF Auth!MatchesPreview
<1>8. QED
  BY <1>1, <1>2, <1>3, <1>4, <1>5, <1>6, <1>7, ReasonsRefuse DEF t

\* Of the sections that ask the forge, one whose token is good decides.
LEMMA ForgeSections ==
    ASSUME AuthAssumption, world \in Worlds, NEW q
    PROVE  LET Good(i) == /\ q.token /\ Patterns[i].authorization
                          /\ Granted(Auth!Primary(q, Patterns[i])) \/ Granted(Auth!Preview(q, Patterns[i]))
               way == Auth!ForgeWildcard(q)
           IN  IF \E i \in DOMAIN Patterns : Good(i)
               THEN /\ Granted(way)
                    /\ \E i \in DOMAIN Patterns :
                        Good(i) /\ way \in {Auth!Primary(q, Patterns[i]), Auth!Preview(q, Patterns[i])}
               ELSE way = Unauthorized
<1> DEFINE Way(pattern) ==
               IF pattern.authorization
               THEN Auth!FirstOf(<<Auth!Primary(q, pattern), Auth!Preview(q, pattern)>>) ELSE Unauthorized
           outcomes == [i \in DOMAIN Patterns |-> Way(Patterns[i])]
<1>1. Auth!ForgeWildcard(q) = IF q.token THEN Auth!FirstOf(outcomes) ELSE Unauthorized
  BY DEF Auth!ForgeWildcard, Auth!Wildcards
<1>2. DOMAIN outcomes = DOMAIN Patterns /\ DOMAIN outcomes \subseteq Nat
  BY DEF AuthAssumption
<1>3. ASSUME NEW i \in DOMAIN Patterns
      PROVE  IF /\ Patterns[i].authorization
                /\ Granted(Auth!Primary(q, Patterns[i])) \/ Granted(Auth!Preview(q, Patterns[i]))
             THEN /\ Granted(outcomes[i])
                  /\ outcomes[i] \in {Auth!Primary(q, Patterns[i]), Auth!Preview(q, Patterns[i])}
             ELSE outcomes[i] = Unauthorized
  <2> DEFINE a == Auth!Primary(q, Patterns[i])
             b == Auth!Preview(q, Patterns[i])
  <2>1. outcomes[i] = IF Patterns[i].authorization THEN Auth!FirstOf(<<a, b>>) ELSE Unauthorized
    OBVIOUS
  <2>2. (a = Unauthorized \/ Granted(a)) /\ (b = Unauthorized \/ Granted(b))
    BY PrimaryWay, PreviewWay
  <2> HIDE DEF a, b
  <2>3. /\ Auth!FirstOf(<<a, b>>) \in {Unauthorized, a, b}
        /\ Auth!FirstOf(<<a, b>>) = Unauthorized => a = Unauthorized /\ b = Unauthorized
    BY FirstOfTwo
  <2>4. QED
    BY <2>1, <2>2, <2>3, ReasonsRefuse DEF a, b
<1> HIDE DEF outcomes
<1>4. \A i \in DOMAIN outcomes : outcomes[i] = Unauthorized \/ Granted(outcomes[i])
  BY <1>2, <1>3
<1>5. IF \E i \in DOMAIN outcomes : Granted(outcomes[i])
      THEN Granted(Auth!FirstOf(outcomes)) /\ \E i \in DOMAIN outcomes : Auth!FirstOf(outcomes) = outcomes[i]
      ELSE Auth!FirstOf(outcomes) = Unauthorized
  BY <1>2, <1>4, FirstGrants
<1>6. QED
  BY <1>1, <1>2, <1>3, <1>5, ReasonsRefuse

\* The records that list repositories whose tokens are good.
LEMMA ForgeRecords ==
    ASSUME AuthAssumption, NEW q
    PROVE  LET good == {repo \in world.forgeAllowlist \cap Repositories : Auth!CanPush(repo)}
               way == Auth!ForgeDNSAllowlist(q)
           IN  IF q.token /\ q.project = Index /\ good # {}
               THEN /\ Granted(way)
                    /\ \E repo \in good : way.repos = {repo} /\ way.user = world.user
                    /\ world.user # Nobody
               ELSE way = Unauthorized
<1> DEFINE records == world.forgeAllowlist \cap Repositories
           dns == Auth!DNSAllowlist(q, world.forgeAllowlist)
           User(repo) == [repos |-> {repo}, branch |-> None, lifetime |-> None, user |-> world.user]
<1>1. dns = IF q.project # Index \/ records = {} THEN Unauthorized
            ELSE [repos |-> records, branch |-> Pages, lifetime |-> None, user |-> Nobody]
  BY DEF Auth!DNSAllowlist, Auth!Grant
<1>2. Granted(dns) <=> q.project = Index /\ records # {}
  BY <1>1, ReasonsRefuse DEF AuthAssumption, Granted
<1>3. Granted(dns) => dns.repos = records
  BY <1>1, <1>2
<1>4. ASSUME NEW repo
      PROVE  /\ Granted(Auth!GogsUser(repo)) <=> Auth!CanPush(repo)
             /\ Auth!CanPush(repo) => Auth!GogsUser(repo) = User(repo) /\ world.user # Nobody
  <2>1. Auth!GogsUser(repo) = IF Auth!CanPush(repo) THEN User(repo) ELSE Unauthorized
    BY DEF Auth!GogsUser, Auth!Grant, Auth!CanPush
  <2>2. Granted(User(repo))
    BY DEF AuthAssumption, Granted
  <2>3. QED
    BY <2>1, <2>2, ReasonsRefuse DEF Auth!CanPush
<1>5. \A repo : User(repo).repos = {repo} /\ User(repo).user = world.user
  OBVIOUS
<1>6. Auth!ForgeDNSAllowlist(q) =
        IF q.token /\ Granted(dns) /\ \E repo \in dns.repos : Granted(Auth!GogsUser(repo))
        THEN Auth!GogsUser(CHOOSE repo \in dns.repos : Granted(Auth!GogsUser(repo)))
        ELSE Unauthorized
  BY DEF Auth!ForgeDNSAllowlist, Granted
<1> HIDE DEF dns, User
<1>7. CASE q.token /\ Granted(dns) /\ \E repo \in records : Auth!CanPush(repo)
  <2> DEFINE chosen == CHOOSE repo \in dns.repos : Granted(Auth!GogsUser(repo))
  <2>1. chosen \in records /\ Granted(Auth!GogsUser(chosen))
    BY <1>3, <1>4, <1>7
  <2>2. Auth!ForgeDNSAllowlist(q) = Auth!GogsUser(chosen)
    BY <1>3, <1>4, <1>6, <1>7
  <2> HIDE DEF chosen
  <2>3. QED
    BY <1>2, <1>4, <1>5, <1>7, <2>1, <2>2
<1>8. CASE ~(q.token /\ Granted(dns) /\ \E repo \in records : Auth!CanPush(repo))
  BY <1>2, <1>3, <1>4, <1>6, <1>8
<1>9. QED
  BY <1>7, <1>8

\* The first of three.
LEMMA FirstOfThree ==
    ASSUME NEW a, NEW b, NEW c
    PROVE  LET first == Auth!FirstOf(<<a, b, c>>)
           IN  /\ first \in {Unauthorized, a, b, c}
               /\ first = Unauthorized => a = Unauthorized /\ b = Unauthorized /\ c = Unauthorized
<1> DEFINE outcomes == <<a, b, c>>
<1>1. /\ DOMAIN outcomes = {1, 2, 3}
      /\ outcomes[1] = a /\ outcomes[2] = b /\ outcomes[3] = c
  OBVIOUS
<1> HIDE DEF outcomes
<1>2. DOMAIN outcomes \subseteq Nat
  BY <1>1
<1>3. QED
  BY <1>1, <1>2, FirstDecides DEF outcomes

\* What the forge vouches for: a repository that the token may push to, or one whose pull
\* request it was run for.
Vouched(q, way) ==
    /\ way.user # Nobody
    /\ \E repo :
        /\ repo # None /\ way.repos = {repo}
        /\ \/ Auth!CanPush(repo) /\ (Auth!RuleForge(q) \/ Auth!RuleForgeAllowlist(q))
           \/ world.run.repo = repo /\ way.lifetime # None /\ Auth!RulePreview(q)

Asks(q) == q.header \in {"absent", "malformed", "token"}

\* A template names a repository.
LEMMA TemplateNames ==
    ASSUME AuthAssumption, NEW pattern, NEW user, NEW project
    PROVE  Auth!Template(pattern, user, project).repo # None
BY DEF Auth!Template, AuthAssumption

\* What a forge grants it vouches for, and where it grants nothing its rules do not apply.
LEMMA ForgeVouches ==
    ASSUME AuthAssumption, world \in Worlds, NEW q, q.method \in Auth!Uploads
    PROVE  /\ Granted(Auth!ForgeWildcard(q)) => Vouched(q, Auth!ForgeWildcard(q))
           /\ Granted(Auth!ForgeDNSAllowlist(q)) => Vouched(q, Auth!ForgeDNSAllowlist(q))
           /\ q.host.rest # None /\ ~Granted(Auth!ForgeWildcard(q)) =>
                ~Auth!RuleForge(q) /\ ~Auth!RulePreview(q)
           /\ ~Granted(Auth!ForgeDNSAllowlist(q)) => ~Auth!RuleForgeAllowlist(q)
<1> DEFINE Good(i) == /\ q.token /\ Patterns[i].authorization
                      /\ \/ Granted(Auth!Primary(q, Patterns[i]))
                         \/ Granted(Auth!Preview(q, Patterns[i]))
           way == Auth!ForgeWildcard(q)
<1>1. IF \E i \in DOMAIN Patterns : Good(i)
      THEN /\ Granted(way)
           /\ \E i \in DOMAIN Patterns :
                Good(i) /\ way \in {Auth!Primary(q, Patterns[i]), Auth!Preview(q, Patterns[i])}
      ELSE way = Unauthorized
  BY ForgeSections
<1>2. ASSUME Granted(way) PROVE Vouched(q, way)
  <2>1. PICK i \in DOMAIN Patterns :
          Good(i) /\ way \in {Auth!Primary(q, Patterns[i]), Auth!Preview(q, Patterns[i])}
    BY <1>1, <1>2, ReasonsRefuse
  <2>2. CASE way = Auth!Primary(q, Patterns[i])
    <3> DEFINE t == Auth!Template(Patterns[i], q.host.label, q.project.full)
    <3>1. /\ q.host.rest = Patterns[i].domain /\ Auth!CanPush(t.repo)
          /\ way.repos = {t.repo} /\ way.user # Nobody
      BY <1>2, <2>2, PrimaryWay, ReasonsRefuse
    <3>2. Auth!RuleForge(q)
      BY <2>1, <3>1 DEF Auth!RuleForge
    <3>3. t.repo # None
      BY TemplateNames
    <3> QED
      BY <3>1, <3>2, <3>3 DEF Vouched
  <2>3. CASE way = Auth!Preview(q, Patterns[i])
    <3> DEFINE t == Auth!Template(Patterns[i], q.host.label, q.project.name)
    <3>1. /\ q.host.rest = Patterns[i].preview
          /\ world.run # None /\ world.run.repo = t.repo /\ world.run.number = q.project.number
          /\ way.repos = {t.repo} /\ way.lifetime = Patterns[i].lifetime /\ way.user # Nobody
      BY <1>2, <2>3, PreviewWay, ReasonsRefuse
    <3>2. Patterns[i].lifetime # None
      BY DEF AuthAssumption
    <3>3. Auth!RulePreview(q)
      BY <2>1, <3>1 DEF Auth!RulePreview
    <3>4. t.repo # None
      BY TemplateNames
    <3> QED
      BY <3>1, <3>2, <3>3, <3>4 DEF Vouched
  <2> QED
    BY <2>1, <2>2, <2>3
<1>3. ASSUME q.host.rest # None, ~Granted(way)
      PROVE  ~Auth!RuleForge(q) /\ ~Auth!RulePreview(q)
  <2>1. ASSUME NEW i \in DOMAIN Patterns, q.token, Patterns[i].authorization
        PROVE  ~Granted(Auth!Primary(q, Patterns[i])) /\ ~Granted(Auth!Preview(q, Patterns[i]))
    BY <1>1, <1>3, <2>1
  <2>2. ~Auth!RuleForge(q)
    BY <1>3, <2>1, PrimaryWay DEF Auth!RuleForge
  <2>3. ~Auth!RulePreview(q)
    BY <1>3, <2>1, PreviewWay DEF Auth!RulePreview
  <2> QED
    BY <2>2, <2>3
<1>4. /\ Granted(Auth!ForgeDNSAllowlist(q)) => Vouched(q, Auth!ForgeDNSAllowlist(q))
      /\ ~Granted(Auth!ForgeDNSAllowlist(q)) => ~Auth!RuleForgeAllowlist(q)
  <2> DEFINE good == {repo \in world.forgeAllowlist \cap Repositories : Auth!CanPush(repo)}
             lists == Auth!ForgeDNSAllowlist(q)
  <2>1. Auth!RuleForgeAllowlist(q) <=> q.token /\ q.project = Index /\ good # {}
    BY DEF Auth!RuleForgeAllowlist
  <2>2. IF Auth!RuleForgeAllowlist(q)
        THEN /\ Granted(lists) /\ world.user # Nobody
             /\ \E repo \in good : lists.repos = {repo} /\ lists.user = world.user
        ELSE lists = Unauthorized
    BY <2>1, ForgeRecords
  <2> HIDE DEF lists
  <2>3. ASSUME Granted(lists) PROVE Vouched(q, lists)
    <3>1. PICK repo \in good : lists.repos = {repo} /\ lists.user = world.user
      BY <2>2, <2>3, ReasonsRefuse
    <3>2. repo # None /\ Auth!CanPush(repo)
      BY <3>1 DEF AuthAssumption
    <3> QED
      BY <2>2, <2>3, <3>1, <3>2, ReasonsRefuse DEF Vouched
  <2> QED
    BY <2>2, <2>3 DEF lists
<1> QED
  BY <1>2, <1>3, <1>4

\* The hosts that are forbidden are refused with a reason of their own.
LEMMA ForbiddenWay ==
    ASSUME NEW q
    PROVE  Auth!CheckForbiddenDomain(q) = IF q.host \in Forbidden THEN ForbiddenDomain ELSE Unauthorized
BY DEF Auth!CheckForbiddenDomain

\* Development mode and the secret of the domain.
LEMMA OwnersWays ==
    ASSUME AuthAssumption, NEW q, Asks(q)
    PROVE  /\ ~Granted(Auth!DevelopmentMode) => ~Insecure /\ Auth!DevelopmentMode = Unauthorized
           /\ ~Granted(Auth!DNSChallenge(q)) => ~Auth!RuleChallenge(q)
           /\ ~Granted(Auth!DNSChallenge(q)) /\ q.header # "malformed" =>
                Auth!DNSChallenge(q) = Unauthorized
<1>1. Granted(Auth!Grant(AnyURL, Pages))
  BY DEF AuthAssumption, Auth!Grant, Granted
<1>2. ~Granted(Auth!DevelopmentMode) => ~Insecure /\ Auth!DevelopmentMode = Unauthorized
  BY <1>1 DEF Auth!DevelopmentMode
<1>3. Auth!RuleChallenge(q) => Auth!DNSChallenge(q) = Auth!Grant(AnyURL, Pages)
  BY DEF Auth!DNSChallenge, Auth!RuleChallenge
<1>4. ~Auth!RuleChallenge(q) /\ q.header # "malformed" => Auth!DNSChallenge(q) = Unauthorized
  BY DEF Auth!DNSChallenge, Auth!RuleChallenge, Asks
<1> QED
  BY <1>1, <1>2, <1>3, <1>4

UploadRule(q) ==
    \/ Insecure \/ Auth!RuleChallenge(q) \/ Auth!RuleForge(q)
    \/ Auth!RulePreview(q) \/ Auth!RuleForgeAllowlist(q)

\* The secret of the domain or the forge allows an upload, and either suffices.
LEMMA ChallengeOrForgeWays ==
    ASSUME AuthAssumption, world \in Worlds, NEW q, Asks(q), q.method \in Auth!Uploads
    PROVE  LET way == Auth!ChallengeOrForge(q)
           IN  /\ Granted(way) => Insecure \/ Auth!RuleChallenge(q) \/ Vouched(q, way)
               /\ Auth!WellFormed(q) /\ ~Granted(way) => ~UploadRule(q)
<1> DEFINE a == Auth!CheckForbiddenDomain(q)
           b == Auth!DevelopmentMode
           c == Auth!DNSChallenge(q)
           d == Auth!ForgeWildcard(q)
           e == Auth!ForgeDNSAllowlist(q)
           way == Auth!ChallengeOrForge(q)
<1>1. way = Auth!FirstOf(<<a, b, c, d, e>>)
  BY DEF Auth!ChallengeOrForge
<1>2. ~Granted(a) /\ (Granted(b) => Insecure) /\ (Granted(c) => Auth!RuleChallenge(q))
  BY DomainWays DEF Asks
<1>3. /\ Granted(d) => Vouched(q, d)
      /\ Granted(e) => Vouched(q, e)
      /\ q.host.rest # None /\ ~Granted(d) => ~Auth!RuleForge(q) /\ ~Auth!RulePreview(q)
      /\ ~Granted(e) => ~Auth!RuleForgeAllowlist(q)
  BY ForgeVouches
<1>4. /\ ~Granted(b) => ~Insecure
      /\ ~Granted(c) => ~Auth!RuleChallenge(q)
  BY OwnersWays
<1>5. Auth!WellFormed(q) =>
        /\ q.host.rest # None /\ a = Unauthorized
        /\ Granted(b) \/ b = Unauthorized
        /\ Granted(c) \/ c = Unauthorized
  BY OwnersWays, ForbiddenWay DEF Auth!WellFormed, Auth!BadName
<1>6. (Granted(d) \/ d = Unauthorized) /\ (Granted(e) \/ e = Unauthorized)
  BY ForgeSections, ForgeRecords
<1> HIDE DEF a, b, c, d, e, way
<1>7. /\ way \in {Unauthorized, a, b, c, d, e}
      /\ way = Unauthorized => /\ a = Unauthorized /\ b = Unauthorized /\ c = Unauthorized
                               /\ d = Unauthorized /\ e = Unauthorized
  BY <1>1, FirstOfFive
<1>8. Granted(way) => Insecure \/ Auth!RuleChallenge(q) \/ Vouched(q, way)
  BY <1>2, <1>3, <1>7, ReasonsRefuse
<1>9. Auth!WellFormed(q) /\ ~Granted(way) => ~UploadRule(q)
  BY <1>3, <1>4, <1>5, <1>6, <1>7, ReasonsRefuse DEF UploadRule
<1> QED
  BY <1>8, <1>9 DEF way

\* With a list of prefixes fewer archives are allowed.
LEMMA ArchiveWays ==
    ASSUME AuthAssumption, world \in Worlds, NEW q, Asks(q), q.method \in Auth!Uploads
    PROVE  LET way == Auth!UpdateFromArchive(q)
           IN  /\ Granted(way) => Insecure \/ Auth!RuleChallenge(q) \/ Vouched(q, way)
               /\ Auth!WellFormed(q) /\ ~Limited /\ ~Granted(way) => ~UploadRule(q)
<1> DEFINE found == Auth!ChallengeOrForge(q)
           way == Auth!UpdateFromArchive(q)
<1>1. /\ Granted(found) => Insecure \/ Auth!RuleChallenge(q) \/ Vouched(q, found)
      /\ Auth!WellFormed(q) /\ ~Granted(found) => ~UploadRule(q)
  BY ChallengeOrForgeWays
<1>2. Granted(Auth!DevelopmentMode) <=> Insecure
  BY OwnersWays, DomainWays DEF Asks
<1>3. way = IF Insecure THEN Auth!DevelopmentMode
            ELSE IF Granted(found) /\ Limited
                    /\ (found.repos = AnyURL \/ ~(found.repos \subseteq Prefixed))
                 THEN Unauthorized ELSE found
  BY DEF Auth!UpdateFromArchive, Granted
<1> HIDE DEF found, way
<1>4. Granted(way) => Insecure \/ Auth!RuleChallenge(q) \/ Vouched(q, way)
  BY <1>1, <1>3, ReasonsRefuse
<1>5. Auth!WellFormed(q) /\ ~Limited /\ ~Granted(way) => ~UploadRule(q)
  BY <1>1, <1>2, <1>3
<1> QED
  BY <1>4, <1>5 DEF way

\* The records of Codeberg Pages grant what they name, if they are looked at.
LEMMA CodebergWay ==
    ASSUME AuthAssumption, NEW q
    PROVE  LET way == Auth!CodebergPagesV2(q)
           IN  IF CodebergCompat /\ world.codeberg # None
               THEN Granted(way) /\ way = Auth!Grant({world.codeberg.repo}, world.codeberg.branch)
               ELSE way = Unauthorized
BY DEF Auth!CodebergPagesV2, Auth!Grant, AuthAssumption, Granted

\* The contents may be listed by the owner, or by anyone where sites are of a forge.
LEMMA MetadataWays ==
    ASSUME AuthAssumption, NEW q, Asks(q), q.method = "metadata"
    PROVE  LET way == Auth!MetadataRetrieval(q)
               rule == Insecure \/ Auth!RuleChallenge(q) \/ Auth!RuleMetadata(q) \/ Auth!RuleCodeberg(q)
           IN  /\ Granted(way) => rule
               /\ Auth!WellFormed(q) /\ ~Granted(way) => ~rule
<1> DEFINE Way(pattern) == Auth!WildcardMatchHost(q, pattern)
           b == Auth!DevelopmentMode
           c == Auth!DNSChallenge(q)
           w == Auth!Wildcards(Way)
           p == Auth!CodebergPagesV2(q)
           forge == Auth!FirstOf(<<w, p>>)
           d == IF q.basicAuth THEN Unauthorized ELSE forge
           way == Auth!MetadataRetrieval(q)
<1>1. way = Auth!FirstOf(<<b, c, d>>)
  BY DEF Auth!MetadataRetrieval
<1>2. /\ Granted(b) => Insecure
      /\ Granted(c) => Auth!RuleChallenge(q)
      /\ ~Granted(b) => ~Insecure /\ b = Unauthorized
      /\ ~Granted(c) => ~Auth!RuleChallenge(q)
      /\ ~Granted(c) /\ Auth!WellFormed(q) => c = Unauthorized
  BY DomainWays, OwnersWays DEF Asks, Auth!WellFormed
<1>3. Granted(w) <=> \E i \in DOMAIN Patterns : Granted(Auth!WildcardMatchHost(q, Patterns[i]))
  BY WildcardsByHost
<1>4. w = Unauthorized \/ Granted(w)
  <2> DEFINE outcomes == [i \in DOMAIN Patterns |-> Way(Patterns[i])]
  <2>1. w = Auth!FirstOf(outcomes)
    BY DEF Auth!Wildcards
  <2>2. DOMAIN outcomes \subseteq Nat
    BY DEF AuthAssumption
  <2>3. \A i \in DOMAIN outcomes : outcomes[i] = Unauthorized \/ Granted(outcomes[i])
    BY DEF Auth!WildcardMatchHost, AuthAssumption, Auth!Grant, Granted
  <2> HIDE DEF outcomes, w
  <2> QED
    BY <2>1, <2>2, <2>3, FirstGrants
<1>5. ASSUME NEW i \in DOMAIN Patterns
      PROVE  Granted(Auth!WildcardMatchHost(q, Patterns[i])) <=>
                \/ Auth!MatchesPrimary(q, Patterns[i])
                \/ Auth!MatchesPreview(q, Patterns[i])
  BY ReasonsRefuse DEF Auth!WildcardMatchHost, AuthAssumption, Auth!Grant, Granted
<1>6. IF CodebergCompat /\ world.codeberg # None THEN Granted(p) ELSE p = Unauthorized
  BY CodebergWay
<1> HIDE DEF b, c, w, p
<1>7. /\ forge \in {Unauthorized, w, p}
      /\ forge = Unauthorized => w = Unauthorized /\ p = Unauthorized
  BY FirstOfTwo
<1> HIDE DEF forge
<1>8. /\ Granted(forge) => Granted(w) \/ Granted(p)
      /\ ~Granted(forge) => forge = Unauthorized /\ ~Granted(w) /\ ~Granted(p)
  BY <1>4, <1>6, <1>7, ReasonsRefuse
<1>9. /\ Granted(d) => ~q.basicAuth /\ (Granted(w) \/ Granted(p))
      /\ ~Granted(d) => d = Unauthorized /\ (q.basicAuth \/ (~Granted(w) /\ ~Granted(p)))
  BY <1>8, ReasonsRefuse
<1>10. Granted(w) => \E i \in DOMAIN Patterns : q.host.rest \in {Patterns[i].domain, Patterns[i].preview}
  BY <1>3, <1>5 DEF Auth!MatchesPrimary, Auth!MatchesPreview
<1>11. ~Granted(w) /\ q.host.rest # None => 
          ~\E i \in DOMAIN Patterns : q.host.rest \in {Patterns[i].domain, Patterns[i].preview}
  BY <1>3, <1>5 DEF Auth!MatchesPrimary, Auth!MatchesPreview
<1> HIDE DEF d, way
<1>12. /\ way \in {Unauthorized, b, c, d}
       /\ way = Unauthorized => b = Unauthorized /\ c = Unauthorized /\ d = Unauthorized
  BY <1>1, FirstOfThree
<1>13. (Granted(d) => Auth!RuleMetadata(q) \/ Auth!RuleCodeberg(q))
  BY <1>6, <1>9, <1>10, ReasonsRefuse DEF Auth!RuleMetadata, Auth!RuleCodeberg
<1>14. ~Granted(d) /\ Auth!WellFormed(q) => ~Auth!RuleMetadata(q) /\ ~Auth!RuleCodeberg(q)
  BY <1>6, <1>9, <1>11 DEF Auth!RuleMetadata, Auth!RuleCodeberg, Auth!WellFormed, Auth!BadName
<1>15. Granted(way) => Insecure \/ Auth!RuleChallenge(q) \/ Auth!RuleMetadata(q) \/ Auth!RuleCodeberg(q)
  BY <1>2, <1>12, <1>13, ReasonsRefuse
<1>16. Auth!WellFormed(q) /\ ~Granted(way) =>
         ~(Insecure \/ Auth!RuleChallenge(q) \/ Auth!RuleMetadata(q) \/ Auth!RuleCodeberg(q))
  BY <1>2, <1>9, <1>12, <1>14, ReasonsRefuse
<1> QED
  BY <1>15, <1>16 DEF way

\* What is granted to an update from a repository stands for a rule, if it is what the
\* request asks for.
Fits(q, way) ==
    \/ Insecure \/ Auth!RuleChallenge(q)
    \/ way.repos # AnyURL /\ (q.repo \in way.repos /\ q.branch = way.branch => Auth!SomeRule(q))

\* Each way to update from a repository grants what its rule names.
LEMMA RepositoryWays ==
    ASSUME AuthAssumption, world \in Worlds, NEW q, Asks(q), q.method \in {"form", "post"},
           Granted(Auth!UpdateFromRepository(q))
    PROVE  Fits(q, Auth!UpdateFromRepository(q))
<1> DEFINE Way(pattern) == Auth!WildcardMatchSite(q, pattern)
           a == Auth!CheckForbiddenDomain(q)
           b == Auth!DevelopmentMode
           c == Auth!DNSChallenge(q)
           d == Auth!DNSAllowlist(q, world.allowlist)
           w == Auth!Wildcards(Way)
           p == Auth!CodebergPagesV2(q)
           forge == Auth!FirstOf(<<w, p>>)
           e == IF q.method = "post" THEN forge ELSE Unauthorized
           way == Auth!UpdateFromRepository(q)
<1>1. way = Auth!FirstOf(<<a, b, c, d, e>>)
  BY DEF Auth!UpdateFromRepository
<1>2. ~Granted(a) /\ (Granted(b) => Insecure) /\ (Granted(c) => Auth!RuleChallenge(q))
  BY DomainWays DEF Asks
<1>3. \A repos, branch : Auth!Grant(repos, branch).repos = repos /\ Auth!Grant(repos, branch).branch = branch
  BY DEF Auth!Grant
<1>4. Granted(d) => Fits(q, d)
  <2>1. Granted(d) => q.project = Index /\ d = Auth!Grant(world.allowlist \cap Repositories, Pages)
    BY DomainWays DEF Asks
  <2>2. AnyURL # world.allowlist \cap Repositories
    BY DEF AuthAssumption
  <2> HIDE DEF d
  <2> QED
    BY <1>3, <2>1, <2>2 DEF Fits, Auth!SomeRule, Auth!RuleAllowlist
<1>5. Granted(w) /\ q.method = "post" => Fits(q, w)
  <2> SUFFICES ASSUME Granted(w), q.method = "post" PROVE Fits(q, w)
    OBVIOUS
  <2>1. PICK i \in DOMAIN Patterns :
          LET t == Auth!Template(Patterns[i], q.host.label, q.project.full)
          IN  q.host.rest = Patterns[i].domain /\ w = Auth!Grant({t.repo}, t.branch)
    BY WildcardsBySite, ReasonsRefuse
  <2> DEFINE t == Auth!Template(Patterns[i], q.host.label, q.project.full)
  <2>2. t = [repo |-> t.repo, branch |-> t.branch]
    BY DEF Auth!Template
  <2>3. AnyURL # {t.repo}
    BY DEF AuthAssumption
  <2>4. w = Auth!Grant({t.repo}, t.branch)
    BY <2>1
  <2>5. ASSUME q.repo = t.repo, q.branch = t.branch PROVE Auth!RuleWildcard(q)
    BY <2>1, <2>2, <2>5 DEF Auth!RuleWildcard
  <2> HIDE DEF t, w
  <2>6. w.repos = {t.repo} /\ w.branch = t.branch
    BY <1>3, <2>4
  <2> QED
    BY <2>3, <2>5, <2>6 DEF Fits, Auth!SomeRule
<1>6. Granted(p) /\ q.method = "post" => Fits(q, p)
  <2> SUFFICES ASSUME Granted(p), q.method = "post" PROVE Fits(q, p)
    OBVIOUS
  <2>1. /\ CodebergCompat /\ world.codeberg # None
        /\ p = Auth!Grant({world.codeberg.repo}, world.codeberg.branch)
    BY CodebergWay, ReasonsRefuse
  <2>2. /\ world.codeberg = [repo |-> world.codeberg.repo, branch |-> world.codeberg.branch]
        /\ AnyURL # {world.codeberg.repo}
    BY <2>1 DEF AuthAssumption
  <2>3. p.repos = {world.codeberg.repo} /\ p.branch = world.codeberg.branch
    BY <1>3, <2>1
  <2>4. ASSUME q.repo = world.codeberg.repo, q.branch = world.codeberg.branch
        PROVE  Auth!RuleCodeberg(q)
    BY <2>1, <2>2, <2>4 DEF Auth!RuleCodeberg
  <2> HIDE DEF p
  <2> QED
    BY <2>2, <2>3, <2>4 DEF Fits, Auth!SomeRule
<1> HIDE DEF a, b, c, d, w, p
<1>7. forge \in {Unauthorized, w, p}
  BY FirstOfTwo
<1> HIDE DEF forge
<1>8. Granted(e) => Fits(q, e)
  BY <1>5, <1>6, <1>7, ReasonsRefuse
<1> HIDE DEF e, way
<1>9. way \in {Unauthorized, a, b, c, d, e}
  BY <1>1, FirstOfFive
<1> QED
  BY <1>2, <1>4, <1>8, <1>9, ReasonsRefuse DEF way, Fits

\* What is decided of a request changes only with the request, DNS and the forge.
LEMMA OutcomeStays ==
    ASSUME UNCHANGED <<request, world>>
    PROVE  Auth!Outcome(request)' = Auth!Outcome(request)
<1>1. Auth!DNSChallenge(request)' = Auth!DNSChallenge(request)
  BY DEF Auth!DNSChallenge
<1>2. Auth!DNSAllowlist(request, world.allowlist)' = Auth!DNSAllowlist(request, world.allowlist)
  BY DEF Auth!DNSAllowlist
<1>3. Auth!CodebergPagesV2(request)' = Auth!CodebergPagesV2(request)
  BY DEF Auth!CodebergPagesV2
<1>4. ASSUME NEW repo, NEW number
      PROVE  /\ Auth!GogsUser(repo)' = Auth!GogsUser(repo)
             /\ Auth!ForgejoActionRun(repo, number)' = Auth!ForgejoActionRun(repo, number)
  BY DEF Auth!GogsUser, Auth!ForgejoActionRun
<1>5. ASSUME NEW i \in DOMAIN Patterns
      PROVE  /\ Auth!Primary(request, Patterns[i])' = Auth!Primary(request, Patterns[i])
             /\ Auth!Preview(request, Patterns[i])' = Auth!Preview(request, Patterns[i])
  <2>1. Auth!Primary(request, Patterns[i])' = Auth!Primary(request, Patterns[i])
    BY DEF Auth!Primary, Auth!MatchesPrimary, Auth!GogsUser
  <2>2. Auth!Preview(request, Patterns[i])' = Auth!Preview(request, Patterns[i])
    BY DEF Auth!Preview, Auth!MatchesPreview, Auth!ForgejoActionRun
  <2> QED
    BY <2>1, <2>2
<1>6. Auth!ForgeWildcard(request)' = Auth!ForgeWildcard(request)
  BY <1>5 DEF Auth!ForgeWildcard, Auth!Wildcards
<1>7. Auth!ForgeDNSAllowlist(request)' = Auth!ForgeDNSAllowlist(request)
  BY <1>4 DEF Auth!ForgeDNSAllowlist, Auth!DNSAllowlist
<1>8. Auth!CheckForbiddenDomain(request)' = Auth!CheckForbiddenDomain(request)
  BY DEF Auth!CheckForbiddenDomain
<1>9. Auth!ChallengeOrForge(request)' = Auth!ChallengeOrForge(request)
  BY <1>1, <1>6, <1>7, <1>8 DEF Auth!ChallengeOrForge
<1>10. Auth!UpdateFromArchive(request)' = Auth!UpdateFromArchive(request)
  BY <1>9 DEF Auth!UpdateFromArchive
<1>11. Auth!MetadataRetrieval(request)' = Auth!MetadataRetrieval(request)
  BY <1>1, <1>3 DEF Auth!MetadataRetrieval, Auth!Wildcards, Auth!WildcardMatchHost,
        Auth!MatchesPrimary, Auth!MatchesPreview
<1>12. Auth!UpdateFromRepository(request)' = Auth!UpdateFromRepository(request)
  BY <1>1, <1>2, <1>3, <1>8 DEF Auth!UpdateFromRepository, Auth!Wildcards, Auth!WildcardMatchSite,
        Auth!MatchesPrimary, Auth!MatchesPreview
<1>13. QED
  BY <1>9, <1>10, <1>11, <1>12 DEF Auth!Outcome, Auth!Deletion, Auth!BadName

Entered ==
    /\ Asks(request) /\ request.method \in Methods /\ world \in Worlds

Pushed == request.method \in {"form", "post"}

\* Nothing is decided, or what the rules grant is what the verdict rests on.
AuthInv ==
    /\ Entered
    /\ \/ grant = None /\ verdict = "pending"
       \/ /\ grant = Auth!Outcome(request)
          /\ \/ ~Granted(grant) /\ verdict = grant
             \/ Granted(grant) /\ Pushed /\ verdict \in {"pending", Unauthorized, BadRequest}
             \/ /\ Granted(grant) /\ verdict = "allowed"
                /\ Pushed => /\ Auth!RepositoryAllowed(request.repo)
                             /\ Auth!BranchAllowed(request.branch)

\* Nothing is decided at first.
LEMMA AuthInitInvariant == Auth!Init => AuthInv
BY DEF Auth!Init, AuthInv, Entered, Asks, Auth!PossibleRequests

\* The authorization rests on the rules, and the verdict on the authorization.
LEMMA AuthStepInvariant ==
    ASSUME AuthAssumption, AuthInv, [Auth!Next]_Auth!vars
    PROVE  AuthInv'
<1>1. CASE Auth!Authorize
  <2>1. /\ grant' = Auth!Outcome(request) /\ UNCHANGED <<request, world>>
        /\ verdict' = IF ~Granted(grant') THEN grant'
                      ELSE IF Pushed THEN "pending" ELSE "allowed"
    BY <1>1 DEF Auth!Authorize, Granted, Pushed
  <2>2. Auth!Outcome(request)' = Auth!Outcome(request)
    BY <2>1, OutcomeStays
  <2>3. Entered' /\ (Pushed' <=> Pushed)
    BY <2>1 DEF AuthInv, Entered, Asks, Pushed
  <2>4. Granted(grant)' <=> Granted(grant')
    BY DEF Granted, Auth!Granted, Auth!Reasons
  <2> QED
    BY <2>1, <2>2, <2>3, <2>4 DEF AuthInv
<1>2. CASE Auth!AuthorizeRepository
  <2>1. /\ verdict = "pending" /\ grant # None
        /\ \/ /\ verdict' = "allowed"
              /\ Auth!RepositoryAllowed(request.repo) /\ Auth!BranchAllowed(request.branch)
           \/ verdict' \in {Unauthorized, BadRequest}
        /\ UNCHANGED <<request, world, grant>>
    BY <1>2 DEF Auth!AuthorizeRepository
  <2>2. Auth!Outcome(request)' = Auth!Outcome(request)
    BY <2>1, OutcomeStays
  <2>3. Entered' /\ (Pushed' <=> Pushed)
    BY <2>1 DEF AuthInv, Entered, Asks, Pushed
  <2>4. Granted(grant)' <=> Granted(grant)
    BY <2>1 DEF Granted, Auth!Granted, Auth!Reasons
  <2>5. /\ Auth!RepositoryAllowed(request.repo)' <=> Auth!RepositoryAllowed(request.repo)
        /\ Auth!BranchAllowed(request.branch)' <=> Auth!BranchAllowed(request.branch)
    BY <2>1 DEF Auth!RepositoryAllowed, Auth!BranchAllowed, Auth!Cloneable
  <2>6. grant = Auth!Outcome(request) /\ Granted(grant) /\ Pushed
    BY <2>1 DEF AuthInv, AuthAssumption, Granted
  <2> QED
    BY <2>1, <2>2, <2>3, <2>4, <2>5, <2>6 DEF AuthInv
<1>3. CASE UNCHANGED Auth!vars
  <2>1. UNCHANGED <<request, world, grant, verdict>>
    BY <1>3 DEF Auth!vars
  <2>2. Auth!Outcome(request)' = Auth!Outcome(request)
    BY <2>1, OutcomeStays
  <2> QED
    BY <2>1, <2>2 DEF AuthInv, Entered, Asks, Pushed, Granted, Auth!Granted, Auth!Reasons,
        Auth!RepositoryAllowed, Auth!BranchAllowed, Auth!Cloneable
<1> QED
  BY <1>1, <1>2, <1>3 DEF Auth!Next

\* What is allowed is granted by a way that some rule stands for.
LEMMA AllowedHasRule == ASSUME AuthAssumption, AuthInv PROVE Auth!AllowedByRule
<1> SUFFICES ASSUME verdict = "allowed" PROVE Auth!SomeRule(request)
  BY DEF Auth!AllowedByRule
<1>1. /\ Granted(grant) /\ grant = Auth!Outcome(request) /\ Entered
      /\ Pushed => Auth!RepositoryAllowed(request.repo) /\ Auth!BranchAllowed(request.branch)
  BY ReasonsRefuse DEF AuthInv, AuthAssumption, Granted
<1>2. Asks(request) /\ world \in Worlds /\ ~Auth!BadName(request)
  BY <1>1, ReasonsRefuse DEF Entered, Auth!Outcome
<1>3. CASE request.method = "metadata"
  BY <1>1, <1>2, <1>3, MetadataWays DEF Auth!Outcome, Auth!SomeRule
<1>4. CASE Pushed
  <2>1. Auth!Outcome(request) = Auth!UpdateFromRepository(request)
    BY <1>2, <1>4 DEF Pushed, Auth!Outcome
  <2>2. Fits(request, grant)
    BY <1>1, <1>2, <1>4, <2>1, RepositoryWays DEF Pushed
  <2> QED
    BY <1>1, <1>4, <2>2 DEF Fits, Auth!SomeRule, Auth!RepositoryAllowed, Auth!BranchAllowed
<1>5. CASE request.method \in Auth!Uploads
  <2>1. Auth!Outcome(request) \in {Auth!UpdateFromArchive(request), Auth!ChallengeOrForge(request)}
    BY <1>2, <1>5 DEF Auth!Uploads, Auth!Outcome, Auth!Deletion
  <2>2. Insecure \/ Auth!RuleChallenge(request) \/ Vouched(request, grant)
    BY <1>1, <1>2, <1>5, <2>1, ArchiveWays, ChallengeOrForgeWays
  <2> QED
    BY <2>2 DEF Vouched, Auth!SomeRule
<1> QED
  BY <1>1, <1>3, <1>4, <1>5 DEF Entered, AuthAssumption, Pushed, Auth!Uploads

\* An upload, or a look at the contents, that is refused has no rule.
LEMMA RefusedHasNoRule == ASSUME AuthAssumption, AuthInv PROVE Auth!UploadRulesSuffice
<1> SUFFICES ASSUME verdict \in Auth!Reasons, ~Pushed, Auth!WellFormed(request),
                    Limited => request.method \in {"delete", "metadata"}
             PROVE  ~Auth!SomeRule(request)
  BY DEF Auth!UploadRulesSuffice, Pushed
<1>1. ~Granted(grant) /\ grant = Auth!Outcome(request) /\ Entered
  BY DEF AuthInv, AuthAssumption, Granted, Auth!Granted
<1>2. /\ Asks(request) /\ world \in Worlds /\ ~Auth!BadName(request)
      /\ ~Auth!RuleAllowlist(request) /\ ~Auth!RuleWildcard(request)
  BY <1>1 DEF Entered, Auth!WellFormed, Pushed, Auth!RuleAllowlist, Auth!RuleWildcard
<1>3. CASE request.method = "metadata"
  <2>1. grant = Auth!MetadataRetrieval(request)
    BY <1>1, <1>2, <1>3 DEF Auth!Outcome
  <2>2. ~(\/ Insecure \/ Auth!RuleChallenge(request) \/ Auth!RuleMetadata(request)
          \/ Auth!RuleCodeberg(request))
    BY <1>1, <1>2, <1>3, <2>1, MetadataWays
  <2> QED
    BY <1>2, <1>3, <2>2 DEF Auth!SomeRule, Auth!RuleForge, Auth!RulePreview,
        Auth!RuleForgeAllowlist, Auth!Uploads
<1>4. CASE request.method \in Auth!Uploads
  <2>1. \/ grant = Auth!UpdateFromArchive(request) /\ ~Limited
        \/ grant = Auth!ChallengeOrForge(request)
    BY <1>1, <1>2, <1>4 DEF Auth!Uploads, Auth!Outcome, Auth!Deletion
  <2>2. ~UploadRule(request)
    BY <1>1, <1>2, <1>4, <2>1, ArchiveWays, ChallengeOrForgeWays
  <2>3. ~Auth!RuleMetadata(request) /\ ~Auth!RuleCodeberg(request)
    BY <1>4 DEF Auth!Uploads, Auth!RuleMetadata, Auth!RuleCodeberg
  <2> QED
    BY <1>2, <2>2, <2>3 DEF Auth!SomeRule, UploadRule
<1> QED
  BY <1>1, <1>3, <1>4 DEF Entered, AuthAssumption, Pushed, Auth!Uploads

\* Of an upload that is allowed neither in development mode nor by the domain's secret.
LEMMA ForgeLimits ==
    ASSUME AuthAssumption, AuthInv
    PROVE  Auth!PreviewsAreTemporary /\ Auth!ArchivesHaveOrigin
<1>1. ASSUME verdict = "allowed", request.method \in {"archive", "patch"},
             ~(Insecure \/ Auth!RuleChallenge(request))
      PROVE  Vouched(request, grant)
  <2>1. /\ Granted(grant) /\ grant = Auth!Outcome(request) /\ Entered
    BY <1>1, ReasonsRefuse DEF AuthInv, AuthAssumption, Granted
  <2>2. Asks(request) /\ world \in Worlds /\ ~Auth!BadName(request)
    BY <2>1, ReasonsRefuse DEF Entered, Auth!Outcome
  <2>3. grant = Auth!UpdateFromArchive(request) /\ request.method \in Auth!Uploads
    BY <1>1, <2>1, <2>2 DEF Auth!Uploads, Auth!Outcome
  <2> QED
    BY <1>1, <2>1, <2>2, <2>3, ArchiveWays
<1>2. Auth!PreviewsAreTemporary
  BY <1>1 DEF Auth!PreviewsAreTemporary, Vouched
<1>3. ASSUME Vouched(request, grant)
      PROVE  Auth!Origin # None /\ (Auth!CanPush(Auth!Origin) \/ world.run.repo = Auth!Origin)
  <2>1. PICK repo : /\ repo # None /\ grant.repos = {repo} /\ grant.user # Nobody
                    /\ Auth!CanPush(repo) \/ world.run.repo = repo
    BY <1>3 DEF Vouched
  <2>2. Auth!Cardinality(grant.repos) = 1
    <3>1. Auth!Cardinality(grant.repos) = Cardinality(grant.repos)
      BY DEF Auth!Cardinality, Cardinality, Auth!IsFiniteSet, IsFiniteSet
    <3> QED
      BY <2>1, <3>1, FS_Singleton
  <2>3. Auth!Origin = IF grant.user # Nobody /\ Auth!Cardinality(grant.repos) = 1
                      THEN CHOOSE r \in grant.repos : TRUE ELSE None
    BY DEF Auth!Origin
  <2>4. Auth!Origin = repo
    BY <2>1, <2>2, <2>3
  <2> QED
    BY <2>1, <2>4
<1>4. Auth!ArchivesHaveOrigin
  BY <1>1, <1>3 DEF Auth!ArchivesHaveOrigin
<1> QED
  BY <1>2, <1>4

\* The first that is not merely unauthorized decides, whatever comes after it.
LEMMA ForbiddenFirst ==
    ASSUME NEW a, NEW b, NEW c, NEW d, NEW e, a # Unauthorized
    PROVE  Auth!FirstOf(<<a, b, c, d, e>>) = a
<1> DEFINE outcomes == <<a, b, c, d, e>>
           decided == {i \in DOMAIN outcomes : outcomes[i] # Unauthorized}
<1>1. DOMAIN outcomes = {1, 2, 3, 4, 5} /\ outcomes[1] = a
  OBVIOUS
<1>2. Auth!FirstOf(outcomes) = IF decided = {} THEN Unauthorized ELSE outcomes[Auth!Min(decided)]
  BY DEF Auth!FirstOf
<1> HIDE DEF outcomes
<1>3. decided \in SUBSET Nat /\ 1 \in decided /\ \A i \in decided : i >= 1
  BY <1>1
<1> HIDE DEF decided
<1>4. Auth!Min(decided) = 1
  <2>1. Auth!Min(decided) \in decided /\ \A i \in decided : Auth!Min(decided) <= i
    BY <1>3, MinExists
  <2>2. Auth!Min(decided) \in Nat /\ Auth!Min(decided) <= 1 /\ Auth!Min(decided) >= 1
    BY <1>3, <2>1
  <2> QED
    BY <2>2
<1> QED
  BY <1>1, <1>2, <1>3, <1>4 DEF outcomes

\* A forbidden domain is refused before anything else is looked at.
LEMMA ForbiddenRefused ==
    ASSUME AuthAssumption, AuthInv, ~Insecure
    PROVE  Auth!ForbiddenIsForbidden
<1> SUFFICES ASSUME verdict = "allowed", request.host \in Forbidden, request.method # "metadata"
             PROVE  FALSE
  BY DEF Auth!ForbiddenIsForbidden
<1>1. Granted(grant) /\ grant = Auth!Outcome(request) /\ Entered
  BY ReasonsRefuse DEF AuthInv, AuthAssumption, Granted
<1>2. ~Auth!BadName(request)
  BY <1>1, ReasonsRefuse DEF Auth!Outcome
<1>3. Auth!CheckForbiddenDomain(request) = ForbiddenDomain
  BY ForbiddenWay
<1>4. CASE ForbiddenDomain # Unauthorized
  <2>1. /\ Auth!UpdateFromRepository(request) = ForbiddenDomain
        /\ Auth!ChallengeOrForge(request) = ForbiddenDomain
    BY <1>3, <1>4, ForbiddenFirst DEF Auth!UpdateFromRepository, Auth!ChallengeOrForge
  <2>2. Auth!UpdateFromArchive(request) = ForbiddenDomain
    BY <2>1, ReasonsRefuse DEF Auth!UpdateFromArchive, Granted
  <2> QED
    BY <1>1, <1>2, <2>1, <2>2, ReasonsRefuse
       DEF Auth!Outcome, Auth!Deletion, Entered, AuthAssumption
<1> QED
  BY <1>4 DEF AuthAssumption

\* The verdict rests on the rules throughout.
LEMMA AuthInvariance == ASSUME AuthAssumption PROVE Auth!Spec => []AuthInv
BY AuthInitInvariant, AuthStepInvariant, PTL DEF Auth!Spec

\* AuthorizeUpdateFromRepository, AuthorizeUpdateFromArchive, AuthorizeDeletion and
\* AuthorizeMetadataRetrieval (auth.go), for any sections, DNS records and forge: whatever is
\* allowed is allowed by one of the nine rules of Authorization, of which RuleCodeberg is in
\* no document and RuleChallenge is for any branch.  The other way round, a deletion, or
\* where repositories are not limited an archive or a patch, that one of them applies to is
\* not refused, nor is a look at the contents, if the request is well formed and its domain
\* is not forbidden.
THEOREM RulesDecideTheorem == ASSUME AuthAssumption PROVE Auth!Spec => []RulesDecide
<1>1. AuthInv => RulesDecide
  BY AllowedHasRule, RefusedHasNoRule DEF RulesDecide, Auth!RulesDecide
<1> QED
  BY <1>1, AuthInvariance, PTL

\* authorizeForgeWildcard and authorizeForgeDNSAllowlist (auth.go): what only a run for a
\* pull request allows must expire, and the manifest of what a forge has vouched for names
\* one repository, which the token may push to or whose pull request it is.
THEOREM GrantsAreLimitedTheorem == ASSUME AuthAssumption PROVE Auth!Spec => []GrantsAreLimited
<1>1. AuthInv => GrantsAreLimited
  BY ForgeLimits DEF GrantsAreLimited, Auth!GrantsAreLimited
<1> QED
  BY <1>1, AuthInvariance, PTL

\* CheckForbiddenDomain (auth.go): nothing is uploaded to or deleted from a forbidden domain,
\* whoever asks, unless the server is in development mode.
THEOREM ForbiddenStaysForbidden ==
    ASSUME AuthAssumption, ~Insecure PROVE Auth!Spec => []Auth!ForbiddenIsForbidden
<1>1. AuthInv => Auth!ForbiddenIsForbidden
  BY ForbiddenRefused
<1> QED
  BY <1>1, AuthInvariance, PTL
=============================================================================
