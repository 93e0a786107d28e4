-------------------------------- MODULE Scan --------------------------------
(***************************************************************************)
(* The repository scanner (bran/crates/bran-core/src/scan/mod.rs) and a    *)
(* caller that keeps the last snapshot and passes it, with the paths it    *)
(* saw change, to the next incremental scan.                               *)
(*                                                                         *)
(* A scan is not atomic: it reads `.okfignore', lists directories and      *)
(* reads files one after the other while somebody else edits the tree.     *)
(* One entry of the walk, or one changed path, is one step; a file takes   *)
(* three: its path is looked up, its bytes are read, and its path is       *)
(* checked once more.  A text has "\\" and "NUL" as tokens of their own.   *)
(***************************************************************************)
EXTENDS SourceMetadata, Ignore

CONSTANTS
    Digest(_, _),  \* ContentIdentity of one of the inputs: not injective
    Paths,         \* the paths of the tree, those that lead through a link included
    Starts,        \* what a run begins with, as [tree, ignoreFile, config]; a tree
                   \* has a node for each path
    Edits,         \* the edits of the others, as [path, node]
    IgnoreFiles,   \* what .okfignore may hold
    Configs,       \* the configurations of a scanner
    Extra,         \* sets of paths a caller reports on top of what changed
    Elsewhere,     \* the source of the files that a link out of the root leads to
    MAX_SCAN_DEPTH,
    MaxPathLength, \* of a changed path: 4096 bytes, here tokens
    MaxLinks,      \* bound: links the system follows on one way (40)
    MaxChanges,    \* bound: edits of the tree, the rules or the configuration
    MaxScans       \* bound: scans begun

NoSource == [id |-> 0, size |-> 0]   \* of what is no file
Node(kind, source) == [kind |-> kind, source |-> source, to |-> <<>>]
None == Node("none", NoSource)
LinkTo(to) == [Node("link", NoSource) EXCEPT !.to = to]
Outside == <<"..">>   \* where a link leads that leaves the root
IsFile(node) == node.kind \in {"file", "locked"}   \* locked: cannot be read

\* The paths are those below a root, which .okfignore (a variable of its own) is not
\* among; sizes and limits are unsigned.
ASSUME ScanAssumption ==
    /\ \A p \in Paths : p \in Seq(STRING) /\ p # <<>> /\ Above(p) \subseteq Paths
    /\ {<<".okfignore">>, Outside} \cap Paths = {}
    /\ Elsewhere.size \in Nat
    /\ \A s \in Starts, p \in Paths : s.tree[p].source.size \in Nat
    /\ \A e \in Edits : e.path \in Paths /\ e.node.source.size \in Nat
    /\ \A c \in Configs \cup {s.config : s \in Starts} :
          c.max_total_bytes \in Nat /\ c.max_files \in Nat

NoInputs == [ignore |-> "none"]
Empty == [p \in {} |-> 0]
\* Of the inputs a snapshot keeps nothing but their digests.  The model keeps, for the
\* properties, those of the scan that returned it (exact) and all that its entries
\* come from (made).
NoSnapshot == [entries |-> Empty, observed_bytes |-> Empty, diagnostics |-> {},
               inputs |-> NoInputs, file_count |-> 0, total_bytes |-> 0,
               exact |-> NoInputs, made |-> {}]
NoReport == [op |-> "none", failure |-> "none"]
NoFile == [step |-> "none", path |-> <<>>, to |-> <<>>, source |-> NoSource]
Idle == [op |-> "idle", stage |-> "idle", evidence |-> {}, touched |-> {}, rules |-> {},
         part |-> NoSnapshot, todo |-> {}, left |-> {}, file |-> NoFile,
         files |-> 0, bytes |-> 0, paths |-> 0]

VARIABLES
    tree, ignoreFile,   \* the repository
    config,             \* of the caller's RepositoryScanner
    known, touched,     \* the caller's snapshot; what changed since it was begun
    job,                \* the scan under way
    report,             \* what the last one returned
    changes, scans

vars == <<tree, ignoreFile, config, known, touched, job, report, changes, scans>>
repository == <<tree, ignoreFile, config, changes>>

-----------------------------------------------------------------------------
(* The repository.                                                         *)

Under(d) == {p \in Paths : d \in Above(p)}

Linked(t, p) == \E d \in Above(p) : t[d].kind = "link"

\* The links on the way to a path in the tree t, or at its end if that is followed.
Links(t, p, final) ==
    {d \in (Above(p) \cup {q \in {p} : final}) \cap Paths : t[d].kind = "link"}

\* The first of them is followed.
Hop(t, p, final) ==
    LET links == Links(t, p, final)
        first == CHOOSE d \in links : \A e \in links : Len(d) <= Len(e)
    IN IF links = {} THEN p
       ELSE IF t[first].to = Outside THEN Outside
       ELSE t[first].to \o SubSeq(p, Len(first) + 1, Len(p))

Leads(t, p, final) ==
    LET hops[n \in 0 .. MaxLinks] == IF n = 0 THEN p ELSE Hop(t, hops[n - 1], final)
    IN IF Links(t, p, final) = {} THEN p ELSE hops[MaxLinks]

\* What is where a path leads.  Outside of the root there is a file for every name.
NodeAt(t, p, final) ==
    LET q == Leads(t, p, final)
        above == {t[d].kind : d \in Above(q) \cap Paths}
    IN IF q = Outside THEN Node("outside", Elsewhere)
       ELSE IF above \cap {"file", "locked", "other", "link"} # {} THEN Node("error", NoSource)
       ELSE IF q \in Paths /\ above \subseteq {"dir"} THEN t[q] ELSE None

Lstat(p) == NodeAt(tree, p, FALSE)
Stat(p) == NodeAt(tree, p, TRUE)

Parent(p) == LET above == Above(p) IN
    IF above = {} THEN <<>> ELSE CHOOSE d \in above : \A e \in above : Len(e) <= Len(d)

\* read_dir: the kinds are those the directory lists.
Listing(d) ==
    {[path |-> p, kind |-> Lstat(p).kind] :
        p \in {p \in Paths : Parent(p) = d /\ Lstat(p).kind # "none"}}

-----------------------------------------------------------------------------
(* The snapshot under construction.                                        *)

ContentIdentity(source) == [id |-> source.id, size |-> source.size]

Without(f, p) == [q \in DOMAIN f \ {p} |-> f[q]]
With(f, p, v) == [q \in DOMAIN f \cup {p} |-> IF q = p THEN v ELSE f[q]]

FileOnly(s, p) ==  \* mutant: leaves the bytes of the file in the total
    IF p \notin DOMAIN s.observed_bytes THEN s
    ELSE [s EXCEPT !.observed_bytes = Without(@, p), !.file_count = @ - 1]
remove_observed(s, p) ==
    IF p \notin DOMAIN s.observed_bytes THEN s
    ELSE [s EXCEPT !.observed_bytes = Without(@, p),
                   !.file_count = @ - 1,
                   !.total_bytes = @ - s.observed_bytes[p]]

\* The sum of some sizes, as the number of their bytes.
Total(sizes) == Cardinality(UNION {{p} \X (1 .. sizes[p]) : p \in DOMAIN sizes})

replace_observed(s, p, bytes) ==
    LET r == remove_observed(s, p)
    IN [r EXCEPT !.observed_bytes = With(@, p, bytes),
                 !.file_count = @ + 1,
                 !.total_bytes = @ + bytes]

Diagnosed(s, kind, p) == [s EXCEPT !.diagnostics = @ \cup {[kind |-> kind, path |-> p]}]

defaults_for(package_defaults, p) ==
    LET applicable == {d \in DOMAIN package_defaults : d = <<>> \/ d \in Above(p)}
    IN [k \in UNION {DOMAIN package_defaults[d] : d \in applicable} |->
          LET setting == {d \in applicable : k \in DOMAIN package_defaults[d]}
          IN package_defaults[CHOOSE d \in setting : \A e \in setting : Len(e) <= Len(d)][k]]

Entry(c, p, source) ==
    [identity |-> ContentIdentity(source), source |-> source,
     metadata |-> parse(p, source, defaults_for(c.package_defaults, p), c.max_file_bytes)]

\* A file whose bytes were read: it is an entry unless it is not UTF-8.
Insert(s, p, source) ==
    IF source.utf8 THEN [s EXCEPT !.entries = With(@, p, Entry(config, p, source))]
    ELSE Diagnosed(s, "UnsupportedInput", p)

check_bytes(size, prior) == size <= config.max_file_bytes /\ size + prior <= config.max_total_bytes

\* What is digested of the rules and the configuration.
ExactInputs(file) == [ignore |-> file, config |-> config]
Digested(exact) ==
    [ignore |-> exact.ignore, parser |-> exact.config.max_file_bytes,
     profile |-> exact.config.profile, package_defaults |-> exact.config.package_defaults,
     config |-> <<exact.config.max_files, exact.config.max_file_bytes, exact.config.max_total_bytes>>]
Digests(exact) == [f \in DOMAIN Digested(exact) |-> Digest(f, Digested(exact)[f])]

ProfileOnly(file) ==  \* mutant: the fingerprint forgets the package defaults
    [f \in DOMAIN Digests(ExactInputs(file)) \ {"package_defaults"} |-> Digests(ExactInputs(file))[f]]
inputs(file) == Digests(ExactInputs(file))

-----------------------------------------------------------------------------
(* The caller begins a scan, and a scan ends.                              *)

validate_changed_path(p) ==
    /\ p # <<>> /\ Len(p) <= MaxPathLength
    /\ {p[i] : i \in DOMAIN p} \cap {"\\", "NUL"} = {}
    /\ p[1] # "/" /\ Last(p) # "/" /\ \A i \in Slashes(p) : p[i + 1] # "/"
    /\ Component(p) \cap {<<".">>, <<"..">>} = {}

Fail(failure) ==
    /\ report' = [op |-> job.op, failure |-> failure]
    /\ job' = Idle
    /\ touched' = touched \cup job.touched
    /\ UNCHANGED <<repository, known, scans>>

BeginScan ==
    /\ job = Idle /\ scans < MaxScans
    /\ job' = [Idle EXCEPT !.op = "scan", !.stage = "collect"]
    /\ scans' = scans + 1
    /\ UNCHANGED <<repository, known, touched, report>>

BeginChanged(extra) ==
    /\ job = Idle /\ scans < MaxScans /\ known # NoSnapshot
    /\ job' = [Idle EXCEPT !.op = "changed", !.stage = "inputs", !.evidence = touched \cup extra]
    /\ scans' = scans + 1
    /\ UNCHANGED <<repository, known, touched, report>>

InvalidEvidence ==
    /\ job.stage = "inputs"
    /\ \E p \in job.evidence : ~validate_changed_path(p)
    /\ Fail("InvalidChangedPath")

BadIgnore ==
    /\ job.stage \in {"inputs", "collect"}
    /\ \A p \in job.evidence : validate_changed_path(p)
    /\ IgnoreError(ignoreFile) # "none"
    /\ Fail(IgnoreError(ignoreFile))

\* scan_changed reads the rules, and starts over when the inputs are not those
\* of the snapshot it was given.
CompareInputs ==
    LET stale == inputs(ignoreFile) # known.inputs
    IN /\ job.stage = "inputs"
       /\ \A p \in job.evidence : validate_changed_path(p)
       /\ IgnoreError(ignoreFile) = "none"
       /\ job' = IF stale THEN [job EXCEPT !.stage = "collect"]
                 ELSE [job EXCEPT !.stage = "apply", !.rules = from_okfignore(ignoreFile),
                                  !.left = job.evidence,
                                  !.part = [known EXCEPT !.diagnostics =
                                              {d \in @ : d.path \notin job.evidence},
                                            !.exact = ExactInputs(ignoreFile),
                                            !.made = @ \cup {ExactInputs(ignoreFile)}]]
       /\ UNCHANGED <<repository, known, touched, report, scans>>

Begun(file) == [NoSnapshot EXCEPT !.inputs = inputs(file), !.exact = ExactInputs(file),
                                  !.made = {ExactInputs(file)}]

Collect ==
    /\ job.stage = "collect"
    /\ IgnoreError(ignoreFile) = "none"
    /\ job' = [job EXCEPT !.stage = "walk", !.rules = from_okfignore(ignoreFile),
                          !.part = Begun(ignoreFile),
                          !.todo = {[path |-> <<>>, kind |-> "dir"]}]
    /\ UNCHANGED <<repository, known, touched, report, scans>>

-----------------------------------------------------------------------------
(* collect: one directory or file of the walk.                             *)

\* What a directory lists, the ignored entries excepted.
Kept(d) == {item \in Listing(d) : ~is_ignored_relative(job.rules, item.path)}

\* Of the entries to come, those of the deepest directory come first, by name.
ComesFirst(item) ==
    \A other \in job.todo \ {item} :
        \/ Len(Parent(other.path)) < Len(Parent(item.path))
        \/ Parent(other.path) = Parent(item.path) /\ Rank(item.path) <= Rank(other.path)

PathLimit == config.max_files * 4 + MAX_SCAN_DEPTH

WalkDirectory(item) ==
    LET d == item.path
        now == IF d = <<>> THEN "dir" ELSE Lstat(d).kind
    IN /\ job.stage = "walk" /\ job.file = NoFile /\ item.kind = "dir" /\ ComesFirst(item)
       /\ IF d # <<>> /\ job.paths + 1 > PathLimit THEN Fail("LimitExceeded")
          ELSE IF d # <<>> /\ Cardinality(Above(d)) + 1 > MAX_SCAN_DEPTH THEN Fail("DepthExceeded")
          ELSE IF now = "outside" THEN Fail("RootEscape")
          ELSE /\ job' = [job EXCEPT
                    !.paths = IF d = <<>> THEN 0 ELSE @ + 1,
                    !.todo = (@ \ {item}) \cup (IF now = "dir" THEN Kept(d) ELSE {}),
                    !.part = CASE now = "dir" -> @
                               [] now = "link" -> Diagnosed(@, "Symlink", d)
                               [] OTHER -> Diagnosed(@, "Unreadable", d)]
               /\ UNCHANGED <<repository, known, touched, report, scans>>

\* A file whose canonical path lies in the root; it is measured and not yet read.
Opened(p) == [step |-> "read", path |-> p, to |-> Leads(tree, p, FALSE), source |-> NoSource]

\* What the directory listed as a file may be something else by now.
WalkEntry(item) ==
    LET p == item.path
        now == Lstat(p)
        file == IsFile(item)
        opens == file /\ now.kind \in {"file", "locked", "dir", "other"}
        counted == [job EXCEPT !.todo = @ \ {item}, !.paths = @ + 1,
                               !.files = IF file THEN @ + 1 ELSE @]
    IN /\ job.stage = "walk" /\ job.file = NoFile /\ item.kind # "dir" /\ ComesFirst(item)
       /\ IF \/ job.paths + 1 > PathLimit
             \/ file /\ job.files + 1 > config.max_files
             \/ opens /\ ~check_bytes(now.source.size, job.bytes)
          THEN Fail("LimitExceeded")
          ELSE IF file /\ now.kind = "outside" THEN Fail("RootEscape")
          ELSE /\ job' = IF opens
                         THEN [counted EXCEPT !.part = replace_observed(@, p, now.source.size),
                                              !.file = Opened(p)]
                         ELSE [counted EXCEPT !.part = Diagnosed(@,
                                 IF item.kind = "link" \/ (file /\ now.kind = "link") THEN "Symlink"
                                 ELSE IF file THEN "Unreadable" ELSE "UnsupportedInput", p)]
               /\ UNCHANGED <<repository, known, touched, report, scans>>

-----------------------------------------------------------------------------
(* A file, of the walk or changed, is read by its canonical path; then its *)
(* own path must still be no link.                                         *)

ReadFile ==
    LET file == job.file
        now == Stat(file.to)
        read == replace_observed(job.part, file.path, now.source.size)
        prior == IF job.stage = "walk" THEN job.bytes ELSE read.total_bytes - now.source.size
    IN /\ file.step = "read"
       /\ IF now.kind \notin {"file", "outside"}
          THEN /\ job' = [job EXCEPT !.part = Diagnosed(@, "Unreadable", file.path), !.file = NoFile]
               /\ UNCHANGED <<repository, known, touched, report, scans>>
          ELSE IF ~check_bytes(now.source.size, prior) THEN Fail("LimitExceeded")
          ELSE /\ job' = [job EXCEPT !.part = read,
                                     !.file = [@ EXCEPT !.step = "keep", !.source = now.source]]
               /\ UNCHANGED <<repository, known, touched, report, scans>>

KeepFile ==
    LET file == job.file
    IN /\ file.step = "keep"
       /\ job' = IF Lstat(file.path).kind = "link"
                 THEN [job EXCEPT !.part = Diagnosed(@, "Symlink", file.path), !.file = NoFile]
                 ELSE [job EXCEPT !.part = Insert(@, file.path, file.source), !.file = NoFile,
                                  !.bytes = IF job.stage = "walk" THEN @ + file.source.size ELSE @]
       /\ UNCHANGED <<repository, known, touched, report, scans>>

-----------------------------------------------------------------------------
(* scan_changed with unchanged inputs: one changed path.                   *)

Dropped(p) == remove_observed([job.part EXCEPT !.entries = Without(@, p)], p)

\* What a path becomes that is no directory and leads to no file.
NoFileAt(p, kind) ==
    CASE kind = "none" -> Dropped(p)
      [] kind = "error" -> Diagnosed(Dropped(p), "Unreadable", p)
      [] kind = "link" -> Diagnosed(Dropped(p), "Symlink", p)
      [] OTHER -> Diagnosed(Dropped(p), "UnsupportedInput", p)

ApplyPath(p) ==
    LET now == Lstat(p)
        ignored == p = <<".okfignore">> \/ is_ignored_relative(job.rules, p)
    IN /\ job.stage = "apply" /\ job.file = NoFile /\ \A q \in job.left : Rank(p) <= Rank(q)
       /\ IF ~ignored /\ now.kind = "dir" THEN Fail("InvalidChangedPath")
          ELSE IF ~ignored /\ now.kind = "outside" THEN Fail("RootEscape")
          ELSE /\ job' = IF ignored THEN [job EXCEPT !.left = @ \ {p}, !.part = Dropped(p)]
                         ELSE IF ~IsFile(now)
                         THEN [job EXCEPT !.left = @ \ {p}, !.part = NoFileAt(p, now.kind)]
                         ELSE [job EXCEPT !.left = @ \ {p}, !.file = Opened(p),
                                          !.part = replace_observed(Dropped(p), p, now.source.size)]
               /\ UNCHANGED <<repository, known, touched, report, scans>>

SnapshotTooLarge ==
    /\ job.stage = "apply" /\ job.left = {} /\ job.file = NoFile
    /\ \/ job.part.file_count > config.max_files
       \/ job.part.total_bytes > config.max_total_bytes
    /\ Fail("LimitExceeded")

-----------------------------------------------------------------------------
(* The change a scan reports.                                              *)

\* An optional identity: a set of one, or of none.
IdentityOf(s, p) == {s.entries[q].identity : q \in {p} \cap DOMAIN s.entries}

AffectedNode(prev, new, p) ==
    [path |-> p, previous |-> IdentityOf(prev, p), current |-> IdentityOf(new, p)]

ByIdentity(prev, new, evidence) ==  \* mutant: an equal weak identity is enough
    {p \in DOMAIN prev.entries \cap DOMAIN new.entries :
       prev.inputs = new.inputs /\ prev.entries[p].identity = new.entries[p].identity}
reused(prev, new, evidence) ==
    {p \in DOMAIN prev.entries \cap DOMAIN new.entries :
       /\ prev.inputs = new.inputs /\ p \notin evidence
       /\ prev.entries[p].identity = new.entries[p].identity
       /\ prev.entries[p].source = new.entries[p].source}

Affected(prev, new, evidence) ==
    {AffectedNode(prev, new, p) :
       p \in (DOMAIN prev.entries \cup DOMAIN new.entries) \ reused(prev, new, evidence)}

WeakMismatch(prev, new) ==
    {[kind |-> "WeakIdentityMismatch", path |-> p] :
       p \in {p \in DOMAIN prev.entries \cap DOMAIN new.entries :
                /\ prev.entries[p].identity = new.entries[p].identity
                /\ prev.entries[p].source # new.entries[p].source}}

Finish ==
    LET part == job.part
        counted == IF job.stage = "apply" THEN part
                   ELSE [part EXCEPT !.file_count = Cardinality(DOMAIN part.observed_bytes),
                                     !.total_bytes = Total(part.observed_bytes)]
        within == /\ part.file_count <= config.max_files
                  /\ part.total_bytes <= config.max_total_bytes
    IN /\ job.stage \in {"walk", "apply"} /\ job.todo = {} /\ job.left = {} /\ job.file = NoFile
       /\ job.stage = "apply" => within
       /\ IF job.op = "scan"
          THEN /\ known' = counted
               /\ report' = [op |-> "scan", failure |-> "none"]
          ELSE /\ known' = [counted EXCEPT !.diagnostics = @ \cup WeakMismatch(known, counted)]
               /\ report' = [op |-> "changed", failure |-> "none",
                             reused |-> reused(known, counted, job.evidence),
                             affected |-> Affected(known, counted, job.evidence)]
       /\ touched' = job.touched
       /\ job' = Idle
       /\ UNCHANGED <<repository, scans>>

-----------------------------------------------------------------------------
(* Meanwhile.                                                              *)

\* A node takes the place of another: whatever was below a directory is gone.
Replaced(p, node) ==
    [q \in Paths |-> CASE q = p -> node
                       [] q \in Under(p) /\ node.kind # "dir" -> None
                       [] OTHER -> tree[q]]

\* What a path leads to, and what a walk finds there, which follows no link.
View(t, p) == [lstat |-> NodeAt(t, p, FALSE),
               walk |-> IF Linked(t, p) THEN None ELSE NodeAt(t, p, FALSE)]

\* The caller sees the paths at which a file comes, goes or changes, through links as
\* well, not the directories.
Seen(p, node) ==
    {q \in Paths :
       LET old == View(tree, q)
           new == View(Replaced(p, node), q)
       IN old # new /\ {old.lstat.kind, old.walk.kind, new.lstat.kind, new.walk.kind} \ {"none", "dir"} # {}}

EditTree(p, node) ==
    /\ changes < MaxChanges /\ changes' = changes + 1
    /\ tree[p] # node
    /\ \A d \in Above(p) : tree[d].kind = "dir"
    /\ tree' = Replaced(p, node)
    /\ touched' = touched \cup Seen(p, node)
    /\ job' = IF job = Idle THEN Idle ELSE [job EXCEPT !.touched = @ \cup Seen(p, node)]
    /\ UNCHANGED <<ignoreFile, config, known, report, scans>>

EditIgnore(file) ==
    /\ changes < MaxChanges /\ changes' = changes + 1
    /\ ignoreFile # file
    /\ ignoreFile' = file
    /\ UNCHANGED <<tree, config, known, touched, job, report, scans>>

Configure(c) ==
    /\ changes < MaxChanges /\ changes' = changes + 1
    /\ job = Idle /\ config # c
    /\ config' = c
    /\ UNCHANGED <<tree, ignoreFile, known, touched, job, report, scans>>

Init ==
    /\ \E s \in Starts : tree = s.tree /\ ignoreFile = s.ignoreFile /\ config = s.config
    /\ known = NoSnapshot /\ touched = {} /\ job = Idle /\ report = NoReport
    /\ changes = 0 /\ scans = 0

Scanner ==
    \/ InvalidEvidence \/ BadIgnore \/ CompareInputs \/ Collect
    \/ \E item \in job.todo : WalkDirectory(item) \/ WalkEntry(item)
    \/ \E p \in job.left : ApplyPath(p)
    \/ ReadFile \/ KeepFile
    \/ SnapshotTooLarge \/ Finish

Next ==
    \/ BeginScan
    \/ \E extra \in Extra : BeginChanged(extra)
    \/ Scanner
    \/ \E e \in Edits : EditTree(e.path, e.node)
    \/ \E file \in IgnoreFiles : EditIgnore(file)
    \/ \E c \in Configs : Configure(c)

ScanSpec == Init /\ [][Next]_vars

-----------------------------------------------------------------------------
(* Properties.                                                             *)

\* What a scan that nobody disturbs has for a path: it enters no linked directory.
Expected(p) ==
    LET now == View(tree, p).walk
        skipped == \E q \in {p} \cup Above(p) : is_ignored_relative(from_okfignore(ignoreFile), q)
    IN IF now.kind = "file" /\ now.source.utf8 /\ ~skipped THEN {Entry(config, p, now.source)} ELSE {}

Carried(p) == IF p \in DOMAIN known.entries THEN {known.entries[p]} ELSE {}

\* Two of the inputs differ and have one digest.
Collision(exact) ==
    \E m, n \in exact : \E f \in DOMAIN Digested(m) :
        /\ Digested(m)[f] # Digested(n)[f]
        /\ Digest(f, Digested(m)[f]) = Digest(f, Digested(n)[f])

Comparable ==
    /\ known # NoSnapshot /\ known.inputs = inputs(ignoreFile) /\ IgnoreError(ignoreFile) = "none"
    /\ ~Collision(known.made \cup {ExactInputs(ignoreFile)})

\* However full and incremental scans and edits interleave, the snapshot that is
\* carried on has, for every path below no link that the caller did not see change
\* since the scan began, the source and the metadata that a full scan under the same
\* rules and configuration would find, unless two of the inputs it was made from
\* differ and have one digest; and below a link no entry for what has gone
\* (scan_changed, apply_changed_path, collect, inputs).
CarriedIsCurrent ==
    Comparable => \A p \in Paths \ touched :
        IF Linked(tree, p)
        THEN p \in DOMAIN known.entries => Lstat(p).kind \notin {"none", "dir"}
        ELSE Carried(p) = Expected(p)

\* After an incremental scan with all the evidence, and no edit since it began,
\* the entries are those of a full scan (the assertions of p2_scanner).
IncrementalIsFull ==
    Comparable /\ report.op = "changed" /\ report.failure = "none" /\ touched = {}
        => \A p \in Paths : Carried(p) = Expected(p)

\* The counters a snapshot carries from scan to scan, and that the limits are checked
\* against, are those of the files it observed, its entries are among them, and under
\* the configuration of the scan that returned it the files it observed are within
\* max_files and the bytes it keeps within max_total_bytes (replace_observed,
\* remove_observed, check_bytes).  The total_bytes of a full scan can exceed the limit:
\* it also counts what could not be read.
CountsExact ==
    known # NoSnapshot =>
      LET observed == DOMAIN known.observed_bytes
      IN /\ known.file_count = Cardinality(observed)
         /\ known.total_bytes = Total(known.observed_bytes)
         /\ \A p \in DOMAIN known.entries :
               p \in observed /\ known.observed_bytes[p] = known.entries[p].source.size
         /\ known.file_count <= known.exact.config.max_files
         /\ Total([p \in DOMAIN known.entries |-> known.entries[p].source.size])
              <= known.exact.config.max_total_bytes

\* Every path of the old or the new snapshot is either reported reused, and then its
\* source is what it was, and its metadata too unless two inputs share a digest, or
\* affected, with its old and its new identity: equal weak identities, changed rules
\* and a changed configuration included (scan_changed).
ReportExact ==
    [][Finish /\ job.op = "changed" =>
         \A p \in DOMAIN known.entries \cup DOMAIN known'.entries :
            IF p \in report'.reused
            THEN /\ known'.entries[p].source = known.entries[p].source
                 /\ Collision(known.made \cup known'.made) \/ known'.entries[p] = known.entries[p]
            ELSE AffectedNode(known, known', p) \in report'.affected]_vars
=============================================================================
