---------------------------- MODULE SiteContents ----------------------------
(***************************************************************************)
(* What one site consists of after a sequence of updates from archives,    *)
(* partial archives and repositories: extraction with references to files  *)
(* the site already has, the special files _redirects and _headers, and    *)
(* the archive that the server offers (extract.go, patch.go, fetch.go,     *)
(* manifest.go, collect.go, update.go).                                    *)
(*                                                                         *)
(* A path is a sequence of names, <<>> for the root.  Data are payloads;   *)
(* the hash of an entry is the payload, marked with the hash algorithm.    *)
(***************************************************************************)
EXTENDS ManifestEntries, Naturals, Sequences, SequencesExt, FiniteSets, Functions

CONSTANTS
    TypeOf,         \* the content type that a file name suggests
    Compressible,   \* payloads that zstd makes smaller
    Absolute,       \* targets of links that start with a slash
    Large,          \* payloads that are stored as blobs, not inline
    WithAuth,       \* _headers payloads that have Basic-Auth lines
    Unauthed,       \* the same _headers without those lines
    Archives,       \* archives that are uploaded: sequences of members
    Patches,        \* archives that are sent with PATCH
    Trees,          \* trees of commits that are pushed
    MaxUpdates      \* bound: updates of the site

\* A member that the operation has no use for is of the kind "other", whatever it is: in
\* an upload a whiteout, in a patch a hard link, or what is no directory in the root's place.
UploadKinds == {"file", "link", "ref", "hardlink", "directory", "other"}
PatchKinds == {"file", "link", "ref", "directory", "whiteout", "other"}

IsArchive(archive, kinds) ==
    /\ Len(archive) \in Nat /\ DOMAIN archive = 1..Len(archive)
    /\ \A i \in DOMAIN archive : archive[i].kind \in kinds /\ archive[i].path \in Seq(STRING)

ASSUME ContentsAssumption ==
    /\ \A archive \in Archives : IsArchive(archive, UploadKinds)
    /\ \A patch \in Patches :
        /\ IsArchive(patch, PatchKinds)
        /\ \A i \in DOMAIN patch : patch[i].path = <<>> => patch[i].kind \in {"directory", "other"}
    /\ \A tree \in Trees :
        /\ IsFiniteSet(DOMAIN tree) /\ DOMAIN tree \subseteq Seq(STRING) \ {<<>>}
        /\ \A p \in DOMAIN tree : tree[p].mode \in {"file", "symlink", "directory", "submodule"}
    /\ Absent \notin WithAuth

VARIABLES
    live,       \* the deployed manifest, Absent if there is none
    cached,     \* the manifest object that the storage backend keeps in memory
    last,       \* the last update: its input, the manifest before, its outcome
    updates     \* how many there have been

contentsVars == <<live, cached, last, updates>>

RedirectsFile == <<"_redirects">>
HeadersFile == <<"_headers">>
Special == {RedirectsFile, HeadersFile}

------------------------------- (* manifests *) -----------------------------

NewManifestEntry(type, data) ==
    [type |-> type, data |-> data, hash |-> Absent, ctype |-> Absent, packed |-> FALSE]
DirectoryEntry == NewManifestEntry("directory", Absent)
Symlink(target) == NewManifestEntry("symlink", target)
AddedFile(data) == [NewManifestEntry("inline", data) EXCEPT !.hash = <<"sha256", data>>]

NewManifest ==
    [contents |-> [p \in {<<>>} |-> DirectoryEntry], redirects |-> Absent, headers |-> Absent,
     auth |-> <<>>, problems |-> {}]

IsManifestEmpty(m) == DOMAIN m.contents = {<<>>}

\* What CompareManifest compares: the types and data of the entries.
CompareManifest(m1, m2) ==
    /\ DOMAIN m1.contents = DOMAIN m2.contents
    /\ \A p \in DOMAIN m1.contents : /\ m1.contents[p].type = m2.contents[p].type
                                    /\ m1.contents[p].data = m2.contents[p].data

Put(contents, p, e) ==
    [q \in DOMAIN contents \cup {p} |-> IF q = p THEN e ELSE contents[q]]
WithDirectories(contents, paths) ==
    [p \in DOMAIN contents \cup paths |-> IF p \in DOMAIN contents THEN contents[p] ELSE DirectoryEntry]
Ancestors(p) == {SubSeq(p, 1, n) : n \in 0..(Len(p) - 1)}
Below(p, q) == IsPrefix(p, q)
Prune(contents, p) == Restrict(contents, {q \in DOMAIN contents : ~Below(p, q)})

\* Seeded fault: directories that have no member of their own are left out.
EnsureNoDirectories(contents) == contents

EnsureLeadingDirectories(contents) ==
    WithDirectories(contents, UNION {Ancestors(p) : p \in DOMAIN contents})

\* IndexManifestByGitHash: of entries with equal hashes any may be indexed,
\* as the contents are a map.
Hashed(m) == IF m = Absent THEN {}
             ELSE {p \in DOMAIN m.contents : m.contents[p].hash # Absent}
Indexes(m) ==
    LET hashes == {m.contents[p].hash : p \in Hashed(m)}
    IN  {index \in [hashes -> Hashed(m)] : \A h \in hashes : m.contents[index[h]].hash = h}

-------------------------------- (* archives *) -----------------------------

\* A full upload starts from nothing.
StartEmpty(m, old) == m.contents

\* One member of an archive.  Of a reference that resolves, the path in the
\* old manifest is kept: the new manifest has the same entry object.
Extract(state, member, old, index) ==
    LET p == member.path
        Add(e) == [state EXCEPT !.contents = Put(@, p, e)]
        Found(e) == [state EXCEPT !.contents = Put(@, p, e), !.hard = Put(@, p, e)]
        hash == <<"sha256", member.data>>
    IN  IF p = <<>> THEN state
        ELSE CASE member.kind = "file" -> Found(AddedFile(member.data))
               [] member.kind = "link" ->
                     IF member.data \in Absolute
                     THEN [state EXCEPT !.problems = @ \cup {p}, !.hard = Restrict(@, DOMAIN @ \ {p})]
                     ELSE Found(Symlink(member.data))
               [] member.kind = "ref" ->
                     IF hash \in DOMAIN index
                     THEN [Found(old.contents[index[hash]]) EXCEPT !.alias = Put(@, p, index[hash])]
                     ELSE [state EXCEPT !.missing = @ \cup {member.data}]
               [] member.kind = "hardlink" ->
                     IF member.data \in DOMAIN state.hard THEN Add(state.hard[member.data])
                     ELSE [state EXCEPT !.problems = @ \cup {p}]
               [] member.kind = "directory" -> Add(DirectoryEntry)
               [] OTHER -> [state EXCEPT !.problems = @ \cup {p}]

\* ExtractTar and ExtractZip, whose archives have no hard links.  That ExtractZip would put a
\* member in the root's own place is left out.
Extracting(archive, old, index) ==
    LET after[i \in 0..Len(archive)] ==
            IF i = 0 THEN [contents |-> StartEmpty(NewManifest, old), missing |-> {},
                           problems |-> {}, hard |-> <<>>, alias |-> <<>>]
            ELSE Extract(after[i - 1], archive[i], old, index)
    IN  after
ExtractTar(archive, old, index) ==
    [Extracting(archive, old, index)[Len(archive)] EXCEPT !.contents = EnsureLeadingDirectories(@)]

--------------------------------- (* patches *) -----------------------------

\* Can the manifest be made into a tree?  ApplyTarPatch panics if not.
TreeShaped(contents) ==
    \A p \in DOMAIN contents : \A q \in Ancestors(p) :
        q \in DOMAIN contents /\ contents[q].type = "directory"

\* Seeded fault: a directory of the archive is merged with what is there.
PlaceMerged(contents, p, e) == Put(IF e.type = "directory" THEN contents ELSE Prune(contents, p), p, e)

\* An entry replaces what is at its path and below.
Place(contents, p, e) == Put(Prune(contents, p), p, e)

\* One member of a patch; failed once a parent is wanting.
PatchMember(state, member, create, index, old) ==
    LET p == member.path
        absent == Ancestors(p) \ DOMAIN state.contents
        base == WithDirectories(state.contents, absent)
        hash == <<"sha256", member.data>>
    IN  IF state.failed THEN state
        ELSE IF p = <<>>
        THEN IF member.kind = "directory" THEN [state EXCEPT !.contents = NewManifest.contents]
             ELSE [state EXCEPT !.problems = @ \cup {p}]
        ELSE IF (absent # {} /\ ~create) \/ \E q \in Ancestors(p) \ absent :
                                                state.contents[q].type # "directory"
        THEN [state EXCEPT !.failed = TRUE]
        ELSE CASE member.kind = "file" ->
                    [state EXCEPT !.contents = Place(base, p, NewManifestEntry("inline", member.data))]
               [] member.kind = "link" -> [state EXCEPT !.contents = Place(base, p, Symlink(member.data))]
               [] member.kind = "ref" ->
                    IF hash \in DOMAIN index
                    THEN [state EXCEPT !.contents = Place(base, p, old.contents[index[hash]])]
                    ELSE [state EXCEPT !.missing = @ \cup {member.data}]
               [] member.kind = "directory" -> [state EXCEPT !.contents = Place(base, p, DirectoryEntry)]
               [] member.kind = "whiteout" -> [state EXCEPT !.contents = Prune(base, p)]
               [] OTHER -> [state EXCEPT !.contents = base, !.problems = @ \cup {p}]

Patching(m, patch, create, index) ==
    LET after[i \in 0..Len(patch)] ==
            IF i = 0 THEN [contents |-> m.contents, missing |-> {}, problems |-> m.problems,
                           failed |-> FALSE]
            ELSE PatchMember(after[i - 1], patch[i], create, index, m)
    IN  after
ApplyTarPatch(m, patch, create, index) == Patching(m, patch, create, index)[Len(patch)]

------------------------------- (* repositories *) --------------------------

Blobs(tree) == {tree[p].data : p \in {q \in DOMAIN tree : tree[q].mode \in {"file", "symlink"}}}
Users(tree, d) == {p \in DOMAIN tree : tree[p].mode \in {"file", "symlink"} /\ tree[p].data = d}

\* The entry object of a blob of the tree, which all of its users share: one
\* of the old manifest's if that has the hash, or else new, of the type of the
\* user that the walk comes to first.
BlobEntries(tree, old, d) ==
    LET recycled == {old.contents[p] : p \in {q \in Hashed(old) : old.contents[q].hash = <<"git", d>>}}
        mode(p) == IF tree[p].mode = "symlink" THEN "symlink" ELSE "inline"
    IN  IF recycled # {} THEN recycled
        ELSE {[NewManifestEntry(mode(p), d) EXCEPT !.hash = <<"git", d>>] : p \in Users(tree, d)}

BlobChoices(tree, old) ==
    {entries \in [Blobs(tree) -> UNION {BlobEntries(tree, old, d) : d \in Blobs(tree)}] :
        \A d \in Blobs(tree) : entries[d] \in BlobEntries(tree, old, d)}
BlobUsers(tree) ==
    {pair \in {{p, q} : p, q \in DOMAIN tree} : \E d \in Blobs(tree) : pair \subseteq Users(tree, d)}

\* FetchRepository: submodules are reported and left out.
FetchRepository(tree, entries) ==
    LET known == {p \in DOMAIN tree : tree[p].mode # "submodule"}
        contents == [p \in known \cup {<<>>} |->
                        IF p \notin known \/ tree[p].mode = "directory" THEN DirectoryEntry
                        ELSE entries[tree[p].data]]
    IN  [NewManifest EXCEPT !.contents = contents, !.problems = DOMAIN tree \ known]

------------------------------- (* preparation *) ---------------------------

\* GetEntryContents: the blob of an external file may fail to be read, which prevents no
\* update, and counts as no rules (manifest.go:343).
External(m) == {p \in DOMAIN m.contents : m.contents[p].type = "external"}
Payload(e) == IF IsEntryRegularFile(e) THEN e.data ELSE Absent
Text(m, p, unread) == IF p \in unread THEN Absent ELSE Payload(m.contents[p])

\* ProcessRedirectsFile: the file becomes rules; without it they stay.
ProcessRedirectsFile(m, unread) ==
    IF RedirectsFile \notin DOMAIN m.contents THEN m
    ELSE [m EXCEPT !.contents = Restrict(@, DOMAIN @ \ {RedirectsFile}),
                   !.redirects = Text(m, RedirectsFile, unread)]

\* ProcessHeadersFile: likewise; Basic-Auth rules are added to those there are.
ProcessHeadersFile(m, unread) ==
    LET text == Text(m, HeadersFile, unread)
    IN  IF HeadersFile \notin DOMAIN m.contents THEN m
        ELSE [m EXCEPT !.contents = Restrict(@, DOMAIN @ \ {HeadersFile}),
                       !.headers = text,
                       !.auth = IF text \in WithAuth THEN Append(@, text) ELSE @]

\* DetectContentType looks at inline files that are not compressed yet; an
\* entry that several names share has the type that one of them suggests.
DetectContentType(e, name) ==
    IF e.type = "inline" /\ ~e.packed THEN [e EXCEPT !.ctype = TypeOf[Last(name)]] ELSE e

CompressFile(e) == IF e.type = "inline" /\ e.data \in Compressible THEN [e EXCEPT !.packed = TRUE] ELSE e

\* StoreManifest's copy refers to large files by the name of their blob.
StoreFile(e) == IF e.type = "inline" /\ e.data \in Large THEN [e EXCEPT !.type = "external"] ELSE e

\* What is stored of a manifest, when the type of each entry is taken from the
\* name that "typist" gives for it.
Stored(m, typist, unread) ==
    LET ruled == ProcessHeadersFile(ProcessRedirectsFile(m, unread), unread)
    IN  [ruled EXCEPT !.contents = [p \in DOMAIN @ |->
            StoreFile(CompressFile(DetectContentType(@[p], typist[p])))]]

\* The names that share an entry may each be the last to set its type.
Typists(m, shared) ==
    LET paths == DOMAIN m.contents \ Special
        Group(p) == {q \in paths : q = p \/ {p, q} \in shared}
    IN  {typist \in [paths -> paths] :
            \A p \in paths : typist[p] \in Group(p) /\ \A q \in Group(p) : typist[q] = typist[p]}

\* CollectHeadersFile: what is left of a _headers file without its Basic-Auth.
Plain(headers) == IF headers \in WithAuth THEN Unauthed[headers] ELSE headers

Collected(m) == DOMAIN m.contents \ {<<>>}

\* The archive that the server offers.  Its members have different paths, and
\* the rules are written out as the special files, without Basic-Auth.
CollectTar(m) ==
    LET kind(e) == CASE e.type = "directory" -> "directory"
                     [] e.type = "symlink" -> "link"
                     [] IsEntryRegularFile(e) -> "file"
        Member(p) == [kind |-> kind(m.contents[p]), path |-> p, data |-> m.contents[p].data]
        rules(p, data) == IF data = Absent THEN {} ELSE {[kind |-> "file", path |-> p, data |-> data]}
    IN  SetToSeq({Member(p) : p \in Collected(m)}
                 \cup rules(RedirectsFile, m.redirects)
                 \cup rules(HeadersFile, Plain(m.headers)))

---------------------------------- (* updates *) ----------------------------

ContentsInit ==
    /\ live = Absent /\ cached = Absent
    /\ last = [op |-> "none"]
    /\ updates = 0

Ended(request, outcome, unread) ==
    [op |-> request.op, input |-> request.input, create |-> request.create,
     before |-> live, outcome |-> outcome, unread |-> unread]

Reject(request, why) ==
    /\ last' = Ended(request, why, {})
    /\ UNCHANGED <<live, cached>>

\* Update with what an input was made into.  Preparing it changes the entries
\* that it shares with the manifest object in memory, which is replaced only
\* if the update succeeds.
Update(request, new, shared, alias) ==
    \/ /\ IsManifestEmpty(new)
       /\ live' = Absent /\ cached' = Absent
       /\ last' = Ended(request, IF live = Absent THEN "no-change" ELSE "deleted", {})
    \/ /\ ~IsManifestEmpty(new)
       /\ \E typist \in Typists(new, shared), unread \in SUBSET (Special \cap External(new)) :
            LET stored == Stored(new, typist, unread)
                outcome == IF live = Absent THEN "created"
                           ELSE IF CompareManifest(live, stored) THEN "no-change" ELSE "replaced"
                Prepared(q, p) == CompressFile(DetectContentType(cached.contents[q], typist[p]))
                kept == DOMAIN alias \cap DOMAIN typist
            IN  \/ /\ live' = stored /\ cached' = stored
                   /\ last' = Ended(request, outcome, unread)
                \/ /\ UNCHANGED live
                   /\ cached' = IF cached = Absent THEN Absent
                                ELSE [cached EXCEPT !.contents = [q \in DOMAIN @ |->
                                        IF \E p \in kept : alias[p] = q
                                        THEN Prepared(q, CHOOSE p \in kept : alias[p] = q) ELSE @[q]]]
                   /\ last' = Ended(request, "error", unread)

HardLinks(archive) ==
    {{archive[i].path, archive[i].data} : i \in {j \in DOMAIN archive : archive[j].kind = "hardlink"}}

\* References to one file of the old manifest share its entry.
Twins(alias) ==
    {pair \in {{p, q} : p, q \in DOMAIN alias} : \A p, q \in pair : alias[p] = alias[q]}

Upload(request, archive) ==
    \E index \in Indexes(live) :
        LET extracted == ExtractTar(archive, live, index)
        IN  IF extracted.missing # {} THEN Reject(request, "unresolved")
            ELSE Update(request, [NewManifest EXCEPT !.contents = extracted.contents,
                                                     !.problems = extracted.problems],
                        Twins(extracted.alias) \cup HardLinks(archive), extracted.alias)

\* UpdateFromArchive
PutArchive ==
    \E archive \in Archives : Upload([op |-> "put", input |-> archive, create |-> FALSE], archive)

\* A full upload of what the server has offered for download.
Reupload ==
    /\ live # Absent
    /\ Upload([op |-> "reupload", input |-> CollectTar(live), create |-> FALSE], CollectTar(live))

\* Which entry of the manifest each entry of a patched one is: what a patch leaves, it
\* leaves where it was, and a reference may put it at another path, too.
Recycled(m, patch, index) ==
    LET Take(from, member) ==
            LET hash == <<"sha256", member.data>>
                named == member.path # <<>> \/ member.kind = "directory"
            IN  CASE member.kind = "other" \/ ~named -> from
                  [] named /\ member.kind = "ref" /\ hash \in DOMAIN index ->
                         Put(Prune(from, member.path), member.path, index[hash])
                  [] OTHER -> Prune(from, member.path)
    IN  FoldLeft(Take, [p \in DOMAIN m.contents |-> p], patch)

\* PartialUpdateFromArchive: a clone of the manifest is patched, so that no
\* entry is shared with the one in memory.
PatchSite ==
    /\ live # Absent
    /\ \E patch \in Patches, create \in BOOLEAN, index \in Indexes(live) :
        LET request == [op |-> "patch", input |-> patch, create |-> create]
            patched == ApplyTarPatch(live, patch, create, index)
        IN  IF ~TreeShaped(live.contents) THEN Reject(request, "panic")
            ELSE IF patched.failed THEN Reject(request, "malformed")
            ELSE IF patched.missing # {} THEN Reject(request, "unresolved")
            ELSE Update(request, [live EXCEPT !.contents = patched.contents,
                                              !.problems = patched.problems],
                        Twins(Recycled(live, patch, index)), <<>>)

\* UpdateFromRepository, which copies what it takes from the old manifest.
Push ==
    \E tree \in Trees : \E entries \in BlobChoices(tree, live) :
        Update([op |-> "push", input |-> tree, create |-> FALSE], FetchRepository(tree, entries),
               BlobUsers(tree), <<>>)

ContentsNext ==
    /\ updates < MaxUpdates
    /\ updates' = updates + 1
    /\ PutArchive \/ Reupload \/ PatchSite \/ Push

ContentsSpec == ContentsInit /\ [][ContentsNext]_contentsVars

------------------------------ (* properties *) -----------------------------

Succeeded ==
    last.op # "none" /\ live # Absent /\ last.outcome \in {"created", "replaced", "no-change"}
Members == {i \in DOMAIN last.input : last.input[i].path # <<>>}
MemberFor(p) == {i \in Members : last.input[i].path = p /\ last.input[i].kind # "other"}
LastOf(S) == CHOOSE i \in S : \A j \in S : j <= i

\* What a member of an archive asks for at its path.
Asked(member) ==
    CASE member.kind \in {"file", "ref"} -> [type |-> "file", data |-> member.data]
      [] member.kind = "link" -> [type |-> "symlink", data |-> member.data]
      [] OTHER -> [type |-> member.kind, data |-> Absent]
Holds(e) == [type |-> IF IsEntryRegularFile(e) THEN "file" ELSE e.type, data |-> e.data]

\* A site that was uploaded in full has just what the archive has, by name,
\* kind and contents, whatever was there before and whether a file was sent or
\* referred to by its hash (README.md:123, extract.go:79-150).
UploadReplacesAll ==
    Succeeded /\ last.op = "put" =>
        LET asked == {p \in {last.input[i].path : i \in Members} : MemberFor(p) # {}}
            linked == {p \in asked : last.input[LastOf(MemberFor(p))].kind \in {"link", "hardlink"}}
        IN  /\ DOMAIN live.contents \subseteq
                    asked \cup {<<>>} \cup UNION {Ancestors(p) : p \in asked}
            /\ \A p \in asked \ (Special \cup linked) :
                    Holds(live.contents[p]) = Asked(last.input[LastOf(MemberFor(p))])
            /\ RedirectsFile \notin asked => live.redirects = Absent
            /\ HeadersFile \notin asked => live.headers = Absent /\ live.auth = <<>>

\* A patch merges its archive with the site as the README has it (105-110):
\* at each path the last member for it or above it decides, and what no member
\* is for stays (patch.go:21-29).
PatchMerges ==
    Succeeded /\ last.op = "patch" =>
        LET Over(p) == {i \in DOMAIN last.input : /\ Below(last.input[i].path, p)
                                                 /\ last.input[i].kind # "other"}
            Created(p) == last.create /\ \E i \in Members :
                            /\ p \in Ancestors(last.input[i].path)
                            /\ \A j \in Over(p) : j < i
            Expected(p) ==
                LET i == LastOf(Over(p))
                    member == last.input[i]
                IN  IF Over(p) # {} /\ member.path = p /\ member.kind # "whiteout" THEN Asked(member)
                    ELSE IF Over(p) = {} /\ p \in DOMAIN last.before.contents
                    THEN Holds(last.before.contents[p])
                    ELSE IF Created(p) THEN Holds(DirectoryEntry)
                    ELSE Absent
            paths == DOMAIN last.before.contents \cup DOMAIN live.contents
                        \cup {last.input[i].path : i \in Members}
        IN  \A p \in paths \ (Special \cup {<<>>}) :
                (IF p \in DOMAIN live.contents THEN Holds(live.contents[p]) ELSE Absent) = Expected(p)

\* The rules in force are those of the last special file that was sent, by
\* whichever method, unless what follows it in a patch empties the site; a patch
\* without one leaves them (manifest.go:342-357).  A file that is sent by reference to a blob
\* that fails to be read makes no rules (README, "Disagreements").
RedirectsFollowFile ==
    Succeeded /\ last.op \in {"put", "patch"} /\ MemberFor(RedirectsFile) # {} =>
        LET i == LastOf(MemberFor(RedirectsFile))
            emptied == last.op = "patch" /\ \E j \in DOMAIN last.input :
                            j > i /\ last.input[j].path = <<>> /\ last.input[j].kind # "other"
        IN  last.input[i].kind \in {"file", "ref"} /\ ~emptied /\ RedirectsFile \notin last.unread
                => live.redirects = last.input[i].data

\* No update makes a site that cannot be patched: patch.go:55-64 takes a file
\* or nothing in the place of a directory for a malformed manifest.
Patchable == live # Absent => TreeShaped(live.contents)

\* "A file or symlink entry replaces any existing file" (README.md:108): after
\* a patch with a _headers file, only its Basic-Auth rules are in force.
AuthFollowsFile ==
    Succeeded /\ last.op = "patch" /\ MemberFor(HeadersFile) # {} =>
        \A i \in DOMAIN live.auth : live.auth[i] = last.input[LastOf(MemberFor(HeadersFile))].data

\* A whiteout "causes any existing file or directory with the same name to be
\* deleted" (README.md:106), of those that the server's archive has.
WhiteoutDeletes ==
    Succeeded /\ last.op = "patch" =>
        \A i \in Members : (last.input[i].kind = "whiteout" /\ MemberFor(last.input[i].path) = {i}) =>
            \A j \in DOMAIN CollectTar(live) : CollectTar(live)[j].path # last.input[i].path

\* CollectTar is the "Inverse of `ExtractTar`" (collect.go:14): uploading what
\* was downloaded changes nothing.  Of such an upload no blob has to be read.
CollectIsInverse ==
    Succeeded /\ last.op = "reupload" /\ last.unread = {} =>
        /\ CompareManifest(last.before, live)
        /\ live.redirects = last.before.redirects
        /\ live.headers = Plain(last.before.headers)

\* The archive has the _headers file (README.md:98): uploading what was
\* downloaded keeps its Basic-Auth rules.
ArchiveHasHeaders == Succeeded /\ last.op = "reupload" => live.auth = last.before.auth

\* Content types are found "using the same algorithm as `http.ServeContent`"
\* (manifest.go:277), which goes by the name first.
TypeFollowsName ==
    live # Absent => \A p \in DOMAIN live.contents :
        IsEntryRegularFile(live.contents[p]) => live.contents[p].ctype = TypeOf[Last(p)]

\* A repository is "shallowly cloned" (README.md:100): files and links of the
\* commit are files and links of the site.
FetchedAsCommitted ==
    Succeeded /\ last.op = "push" =>
        \A p \in DOMAIN live.contents \ {<<>>} :
            (live.contents[p].type = "symlink") = (last.input[p].mode = "symlink")

\* What an upload or a patch leaves is what it asked for, special files included
\* (README.md:105-123, extract.go:79, patch.go:21, manifest.go:342).
UpdatedAsAsked == UploadReplacesAll /\ PatchMerges /\ RedirectsFollowFile

\* Inputs as archivers and git make them: only directories have something below them, and
\* these are not called _redirects or _headers; nor is a link patched in or pushed that an
\* upload would leave out for its target (manifest.go:129).
OrderlyArchive(archive) ==
    \A j \in DOMAIN archive : archive[j].kind # "other" =>
        /\ Ancestors(archive[j].path) \cap Special = {}
        /\ \A i \in DOMAIN archive :
            archive[i].path \in Ancestors(archive[j].path) => archive[i].kind \in {"directory", "other"}
OrderlyPatch(patch) ==
    \A i \in DOMAIN patch : /\ Ancestors(patch[i].path) \cap Special = {}
                            /\ patch[i].kind = "link" => patch[i].data \notin Absolute
OrderlyTree(tree) ==
    \A p \in DOMAIN tree :
        /\ Ancestors(p) \cap Special = {}
        /\ \A q \in Ancestors(p) \ {<<>>} : q \in DOMAIN tree /\ tree[q].mode = "directory"
        /\ tree[p].mode = "symlink" => tree[p].data \notin Absolute
OrderlyInputs ==
    /\ \A archive \in Archives : OrderlyArchive(archive)
    /\ \A patch \in Patches : OrderlyPatch(patch)
    /\ \A tree \in Trees : OrderlyTree(tree)

\* After any updates with such inputs a site can be patched again (patch.go:55), and be
\* archived and uploaded again (collect.go:14).
UpdatedAgain == OrderlyInputs => Patchable /\ CollectIsInverse

\* Manifests in memory "should never be mutated" (update.go:232-233).
CacheUntouched == cached = live
=============================================================================
