------------------------------ MODULE Evidence ------------------------------
(***************************************************************************)
(* Evidence files, the registry that names them, and the quotes that cite  *)
(* them (internal/artifact, internal/evidence and the artifact tools of    *)
(* internal/cli/runtime_workflow_tools.go).                                *)
(*                                                                         *)
(* Two units of one run: a Collector that declares a directory artifact    *)
(* and gathers files, and a Reader that imports the directory, searches    *)
(* it, writes knowledge.json and has Final QC patch it.  Tool calls of one *)
(* session run in parallel, so what a handler reads before a lock or a     *)
(* rename is a step of its own.  A crash loses the registry and the quotes *)
(* (both live in memory) and keeps files and unit checkpoints.  What a     *)
(* crash inside a checkpoint's own steps does is UnitCheckpoint's subject. *)
(***************************************************************************)
EXTENDS EvidenceState, FiniteSets, Functions

AnyFile == Listed \cup Retained
Path == {Dir, Knowledge} \cup AnyFile
Owner(p) == IF p = Knowledge THEN Reader ELSE Collector

naming == <<report, spelling>>
registry == <<entries, paths, children, nextId>>
calls == <<registering, searching, patching>>
vars == <<naming, entries, paths, children, nextId, retained, content, registering, searching, quotes,
          authorized, knowledge, patching, stage, saved, crashes>>

Absent == [body |-> 0, header |-> FALSE]
NoKnowledge == [items |-> <<>>, quotes |-> {}]
Empty == <<>>

----------------------------------------------------------------------------
(* The registry.  Every operator takes and returns the indexes together,   *)
(* as the code changes them under one lock.                                *)
Live == [entries |-> entries, paths |-> paths, children |-> children, nextId |-> nextId]

\* f, and g where f says nothing.
Over(f, g) == [x \in DOMAIN f \cup DOMAIN g |-> IF x \in DOMAIN f THEN f[x] ELSE g[x]]

\* A path's key with its links resolved, and with the path as it is written.
Real(p) == <<"real", p>>
Spelled(p) == <<spelling, p>>

\* canonicalArtifactPath when the files are these: links are resolved only in
\* a path that exists.  (The directory and knowledge.json are looked up by one
\* path only, the declared one, so it does not matter when they appear.)
KeyIn(files, p) == IF p \in AnyFile /\ files[p] = Absent THEN Spelled(p) ELSE Real(p)

\* The registry after an entry for path p has a fresh id under that key.
Mint(r, key, p, purpose) ==
  [r EXCEPT !.entries = Over([i \in {r.nextId} |-> [path |-> p, purposes |-> {purpose}, listed |-> FALSE]], @),
            !.paths = Over([k \in {key} |-> r.nextId], @),
            !.nextId = @ + 1]

\* A key that has an id keeps it, and the entry gains the purpose.
Indexed(r, key, p, purpose) ==
  IF key \in DOMAIN r.paths
  THEN [r EXCEPT !.entries[r.paths[key]].purposes = @ \cup {purpose}]
  ELSE Mint(r, key, p, purpose)

\* Registry.Declare: by the key the path has while these are the files.
Declare(r, files, p) == Indexed(r, KeyIn(files, p), p, "output")

\* Mutant: an id the file has under its path as written is not looked for.
IndexResolved(r, f) == Indexed(r, Real(f), f, "evidence")

\* RegisterEvidence under the lock: the file exists, so its links resolve; an
\* id it has as a path declared before is found by the path as written.
IndexEvidence(r, f) ==
  LET known == Real(f) \notin DOMAIN r.paths /\ Spelled(f) \in DOMAIN r.paths
  IN  Indexed(IF known THEN [r EXCEPT !.paths = Over([k \in {Real(f)} |-> r.paths[Spelled(f)]], @)] ELSE r,
              Real(f), f, "evidence")

Present(f) == content[f] # Absent

\* The files a listing finds without a child key, which is the directory's id
\* with the relative path.
Unlisted(r) == {f \in Listed: Present(f) /\ <<r.paths[Real(Dir)], f>> \notin DOMAIN r.children}

\* Those without an id: their resolved path has none either, and the path as
\* written is not tried.
Unknown(r) == {f \in Unlisted(r): Real(f) \notin DOMAIN r.paths}

\* The ids that listing them takes when next is the first one left.
FreshIds(r, next) == Bijection(Unknown(r), r.nextId .. (next - 1))

\* ListDirectoryFiles of the declared directory: a file without a child key
\* has its path's id, or else the fresh one, and is an output from now on.
ListDirectory(r, fresh, next) ==
  LET ids == Over([k \in {Real(f): f \in DOMAIN fresh} |-> fresh[k[2]]], r.paths)
      known == {r.paths[Real(f)]: f \in Unlisted(r) \ DOMAIN fresh}
  IN  [r EXCEPT
        !.entries = Over([i \in Range(fresh) |->
                           [path |-> AntiFunction(fresh)[i], purposes |-> {"output"}, listed |-> TRUE]],
                         [i \in DOMAIN @ |->
                           IF i \in known
                           THEN [r.entries[i] EXCEPT !.purposes = @ \cup {"output"}, !.listed = TRUE]
                           ELSE r.entries[i]]),
        !.paths = ids,
        !.children = Over([k \in {<<r.paths[Real(Dir)], f>>: f \in Unlisted(r)} |-> ids[Real(k[2])]], @),
        !.nextId = next]

\* SnapshotWorkspace: the entries a unit's workspace owns.
SnapshotWorkspace(r, u) == Restrict(r.entries, {i \in DOMAIN r.entries: Owner(r.entries[i].path) = u})

\* Mutant: the snapshot replaces the whole registry, as Restore does.
KeptNone(r, u) == {}

\* The entries a restore of u leaves alone.
Kept(r, u) == {i \in DOMAIN r.entries: Owner(r.entries[i].path) # u}

\* RestoreWorkspace when the restored files are these: the unit's entries are
\* replaced by the snapshot's, in the order of their ids, and the entries of
\* other units stay.  A restored child key has its directory's path, not its
\* id (parent 0): no listing finds it.
RestoreWorkspace(r, u, snapshot, files) ==
  LET others == Kept(r, u)
      own == DOMAIN r.entries \ others
      back == {snapshot[i].path: i \in DOMAIN snapshot}
      Of(p) == {i \in DOMAIN snapshot: snapshot[i].path = p}
      IdOf(p) == CHOOSE i \in Of(p): \A j \in Of(p): j <= i
      children0 == {<<0, snapshot[i].path>>: i \in {j \in DOMAIN snapshot: snapshot[j].listed}}
  IN  [r EXCEPT
        !.entries = Over(snapshot, Restrict(@, others)),
        !.paths = Over([k \in {KeyIn(files, p): p \in back} |-> IdOf(k[2])],
                       Restrict(@, DOMAIN @ \ {KeyIn(files, r.entries[i].path): i \in own})),
        !.children = Over([k \in children0 |-> IdOf(k[2])],
                          Restrict(@, DOMAIN @ \ {<<0, r.entries[i].path>>: i \in own}))]

Install(r) ==
  /\ entries' = r.entries
  /\ paths' = r.paths
  /\ children' = r.children
  /\ nextId' = r.nextId

Running(u) == stage[u] = "running"

\* The unit's tools may use the id: its own, an imported one, or one listed in
\* a directory of those.
Readable(u, id) == id \in authorized[u] \cap DOMAIN entries

----------------------------------------------------------------------------
(* Units: newResearchBlock builds them, their Apply ends them. *)

\* The unit's files as its checkpoint keeps them and a restore brings back.
Files(u) == IF u = Collector THEN content ELSE knowledge

SaveUnit(u, status, r) ==
  saved' = [saved EXCEPT ![u] = [status |-> status, entries |-> SnapshotWorkspace(r, u), files |-> Files(u)]]

\* The unit's artifacts get their ids: the directory and the file in it, or
\* knowledge.json.
Declared(u) == IF u = Collector THEN {Dir, report} ELSE {Knowledge}
DeclareAll(r, files, u) ==
  IF u = Collector THEN Declare(Declare(r, files, Dir), files, report) ELSE Declare(r, files, Knowledge)

\* A unit that has not started in any process: the snapshot before its first
\* step is committed, then its artifacts are declared.
BeginFresh(u) ==
  /\ saved[u].status = "none"
  /\ SaveUnit(u, "started", Live)
  /\ Install(DeclareAll(Live, content, u))
  /\ stage' = [stage EXCEPT ![u] = "running"]
  /\ UNCHANGED <<content, knowledge>>

\* The unit's files come back as its checkpoint has them, its entries then,
\* and its artifacts are declared anew.
RestoreUnit(u) ==
  LET files == IF u = Collector THEN saved[u].files ELSE content
  IN  /\ content' = files
      /\ knowledge' = IF u = Reader THEN saved[u].files ELSE knowledge
      /\ Install(DeclareAll(RestoreWorkspace(Live, u, saved[u].entries, files), files, u))
      /\ UNCHANGED saved

\* A unit a former process left unfinished goes back to its first snapshot,
\* which is committed again.
BeginAgain(u) ==
  /\ saved[u].status = "started"
  /\ RestoreUnit(u)
  /\ stage' = [stage EXCEPT ![u] = "running"]

\* A unit a former process completed is restored and not run again.
BeginCompleted(u) ==
  /\ saved[u].status = "completed"
  /\ RestoreUnit(u)
  /\ stage' = [stage EXCEPT ![u] = "done"]

\* The Reader depends on the Collector: its block is built when that is done.
\* Its tools may use its own artifact and the directory it imports.
Begin(u) ==
  /\ stage[u] = "idle"
  /\ u = Reader => stage[Collector] = "done"
  /\ BeginFresh(u) \/ BeginAgain(u) \/ BeginCompleted(u)
  /\ nextId' <= MaxIds + 1
  /\ LET keys == {KeyIn(content', p): p \in Declared(u) \cup {Dir}}
     IN  authorized' = [authorized EXCEPT ![u] = {paths'[k]: k \in keys \cap DOMAIN paths'}]
  /\ UNCHANGED <<retained, calls, quotes, crashes>>

\* No call of the unit's sessions runs any more when its Apply commits.
Quiet(u) == IF u = Collector THEN registering = {} /\ searching[u] = {}
                            ELSE patching = {} /\ searching[u] = {}

Complete(u) ==
  /\ Running(u) /\ Quiet(u)
  /\ SaveUnit(u, "completed", Live)
  /\ stage' = [stage EXCEPT ![u] = "done"]
  /\ UNCHANGED <<registry, retained, content, calls, quotes, authorized, knowledge, crashes>>

\* The process ends; the next one starts with an empty registry.  Fresh ids
\* are uuids: no later process mints one of an earlier process.
Crash ==
  /\ crashes < MaxCrashes
  /\ crashes' = crashes + 1
  /\ entries' = Empty /\ paths' = Empty /\ children' = Empty
  /\ retained' = {} /\ quotes' = {}
  /\ registering' = {} /\ searching' = [u \in Unit |-> {}] /\ patching' = {}
  /\ authorized' = [u \in Unit |-> {}]
  /\ stage' = [u \in Unit |-> "idle"]
  /\ UNCHANGED <<nextId, content, knowledge, saved>>

----------------------------------------------------------------------------
(* Collection's files. *)
unitState == <<quotes, knowledge, stage, saved, crashes>>

\* r42_save_artifact's exclusive write, or a tool of the block: a new file.
CreateFile(f) ==
  /\ Running(Collector) /\ f \in Listed /\ ~Present(f)
  /\ \E header \in BOOLEAN: content' = [content EXCEPT ![f] = [body |-> 1, header |-> header]]
  /\ UNCHANGED <<registry, retained, calls, authorized, unitState>>

\* r42_write_markdown and r42_patch_markdown: a file that an authorized id with
\* the output purpose denotes gets another text, without a header; a declared
\* one may not be there yet.
Writable(u, f) ==
  \E id \in DOMAIN entries: Readable(u, id) /\ entries[id].path = f /\ "output" \in entries[id].purposes

WriteMarkdown(f) ==
  /\ Running(Collector) /\ f \in Listed /\ Writable(Collector, f)
  /\ content[f].body < MaxBody
  /\ content' = [content EXCEPT ![f] = [body |-> @.body + 1, header |-> FALSE]]
  /\ UNCHANGED <<registry, retained, calls, authorized, unitState>>

\* RegisterEvidence up to the read of the file.
RegisterRead(f) ==
  /\ Running(Collector) /\ f \in Listed /\ Present(f)
  /\ \A c \in registering: c.file # f
  /\ registering' = registering \cup {[file |-> f, read |-> content[f]]}
  /\ UNCHANGED <<registry, retained, content, searching, patching, authorized, unitState>>

\* The rest: a file read without a header is written back with one, whatever
\* it holds by now; then the indexes change under the lock.  Collection's
\* tools may use every evidence id from then on.
RegisterEnd(c) ==
  LET r == IndexEvidence(Live, c.file)
  IN  /\ Running(Collector) /\ c \in registering
      /\ registering' = registering \ {c}
      /\ r.nextId <= MaxIds + 1 /\ Install(r)
      /\ \/ UNCHANGED content       \* no source supplied, or the header is there
         \/ ~c.read.header /\ content' = [content EXCEPT ![c.file] = [c.read EXCEPT !.header = TRUE]]
      /\ authorized' = [authorized EXCEPT ![Collector] = @ \cup {r.paths[Real(c.file)]}]
      /\ UNCHANGED <<retained, searching, patching, unitState>>

\* retainCollectionToolResults after a successful acquisition call.
RetainToolResult(t) ==
  /\ Running(Collector) /\ t \in Retained \ retained
  /\ retained' = retained \cup {t}
  /\ UNCHANGED <<registry, content, calls, authorized, unitState>>

\* RegisterRetainedEvidence under its lock: a result is a file only once.
RegisterRetained(t) ==
  LET r == IndexEvidence(Live, t)
  IN  /\ Running(Collector) /\ t \in retained
      /\ ~Present(t)
      /\ content' = [content EXCEPT ![t] = [body |-> 1, header |-> TRUE]]
      /\ r.nextId <= MaxIds + 1 /\ Install(r)
      /\ authorized' = [authorized EXCEPT ![Collector] = @ \cup {r.paths[Real(t)]}]
      /\ UNCHANGED <<retained, calls, unitState>>

----------------------------------------------------------------------------
(* Reading and citing. *)
collectorFiles == <<retained, content, registering>>

\* r42_list_artifact_files, and the listing inside r42_search_artifacts: the
\* directory's files get ids and become readable to the unit.
Discover(u) ==
  /\ Running(u) /\ paths[Real(Dir)] \in authorized[u]
  /\ \E next \in nextId .. (MaxIds + 1): \E fresh \in FreshIds(Live, next):
       LET r == ListDirectory(Live, fresh, next)
       IN  /\ Install(r)
           /\ authorized' = [authorized EXCEPT ![u] = @ \cup
                             {r.children[<<paths[Real(Dir)], f>>]: f \in {g \in Listed: Present(g)}}]
  /\ UNCHANGED <<collectorFiles, searching, patching, unitState>>

\* SearchArtifact reads an authorized file; its matches carry the digest of
\* what was read.
SearchRead(u, id) ==
  /\ Running(u) /\ searching[u] = {} /\ Cardinality(quotes) < MaxQuotes
  /\ Readable(u, id)
  /\ entries[id].path \in AnyFile /\ Present(entries[id].path)
  /\ searching' = [searching EXCEPT ![u] = {[artifact |-> id, read |-> content[entries[id].path]]}]
  /\ UNCHANGED <<registry, collectorFiles, patching, authorized, unitState>>

\* QuoteRegistry.store keeps the first record of a range.
Resolve(key) == {q \in quotes: KeyOf(q) = key}
Store(known, q) == IF \E k \in known: KeyOf(k) = KeyOf(q) THEN known ELSE known \cup {q}

\* Mutant: the surrounding lines come from whatever the file holds now.
ExpandUnchecked(known, base) ==
  Store(known, [base EXCEPT !.context = TRUE, !.text = content[entries[base.artifact].path]])

\* Expand reads the file again and refuses another version than the quote's.
Expand(known, base) ==
  LET now == content[entries[base.artifact].path]
  IN  IF now = base.digest
      THEN Store(known, [base EXCEPT !.context = TRUE, !.text = now])
      ELSE known

\* CaptureMatchWithContext stores the match and then expands it.
Capture(u, s) ==
  LET base == [artifact |-> s.artifact, digest |-> s.read, context |-> FALSE, text |-> s.read]
  IN  /\ Running(u) /\ s \in searching[u]
      /\ searching' = [searching EXCEPT ![u] = @ \ {s}]
      /\ quotes' = Expand(Store(quotes, base), base)
      /\ UNCHANGED <<registry, collectorFiles, patching, authorized, knowledge, stage, saved, crashes>>

\* r42_capture_quote and r42_qc_expand_quote on a quote of a readable file.
CaptureQuote(u, q) ==
  /\ Running(u) /\ q \in quotes
  /\ Readable(u, q.artifact)
  /\ Cardinality(quotes) < MaxQuotes
  /\ quotes' = Expand(quotes, q)
  /\ UNCHANGED <<registry, collectorFiles, searching, patching, authorized, knowledge, stage, saved, crashes>>

\* The terminal tool's guards on a citation: the host knows the reference and
\* its artifact is authorized.  The text of a quote the host itself captured
\* is not looked up again: the file may have changed since.
Citable(q) == q \in quotes /\ Readable(Reader, q.artifact)

\* The arguments the tool receives: each reference replaced by its record.
Materialized(cite) ==
  [items |-> [i \in Item |-> {KeyOf(cite[i])}], quotes |-> Range(cite)]

\* External: the Go tool that writes knowledge.json from resolved quotes.
SubmitKnowledge ==
  /\ Running(Reader) /\ knowledge = NoKnowledge
  /\ \E cite \in [Item -> {q \in quotes: Citable(q)}]: knowledge' = Materialized(cite)
  /\ UNCHANGED <<registry, collectorFiles, calls, quotes, authorized, stage, saved, crashes>>

\* r42_qc_patch_knowledge up to its read of the file.  A call is
\* about one item, and calls about different items may overlap.
PatchRead(i) ==
  /\ Running(Reader) /\ i \in DOMAIN knowledge.items
  /\ \A c \in patching: c.item # i
  /\ patching' = patching \cup {[item |-> i, read |-> knowledge]}
  /\ UNCHANGED <<registry, collectorFiles, searching, quotes, authorized, knowledge, stage, saved, crashes>>

\* applyQCKnowledgePatch: the patched items keep the quotes they use, of
\* those the file had and the one the patch brings.
KeptQuotes(stored, items) == {q \in stored: \E i \in DOMAIN items: KeyOf(q) \in items[i]}

Patched(items, stored) == [items |-> items, quotes |-> KeptQuotes(stored, items)]

Cite(read, i, q) ==
  Patched([read.items EXCEPT ![i] = {KeyOf(q)}], Store(read.quotes, q))

Remove(read, i) == Patched(Restrict(read.items, DOMAIN read.items \ {i}), read.quotes)

\* The rest of the call: the patch is applied to what was read and replaces
\* the file by a rename, or is refused.
PatchEnd(c) ==
  /\ Running(Reader) /\ c \in patching
  /\ patching' = patching \ {c}
  /\ \E k \in {Remove(c.read, c.item)} \cup {Cite(c.read, c.item, q): q \in {x \in quotes: x.artifact \in authorized[Reader]}}:
       IF Sound(k) THEN knowledge' = k ELSE UNCHANGED knowledge
  /\ UNCHANGED <<registry, collectorFiles, searching, quotes, authorized, stage, saved, crashes>>

----------------------------------------------------------------------------
Init ==
  /\ report \in Listed \cup {Dir} /\ spelling \in {"real", "linked"}
  /\ entries = Empty /\ paths = Empty /\ children = Empty /\ nextId = 1
  /\ retained = {} /\ content = [f \in AnyFile |-> Absent]
  /\ registering = {} /\ searching = [u \in Unit |-> {}] /\ patching = {}
  /\ quotes = {} /\ authorized = [u \in Unit |-> {}]
  /\ knowledge = NoKnowledge
  /\ stage = [u \in Unit |-> "idle"]
  /\ saved = [u \in Unit |-> [status |-> "none", entries |-> Empty, files |-> Absent]]
  /\ crashes = 0

CollectorStep ==
  \/ \E f \in AnyFile: CreateFile(f) \/ WriteMarkdown(f) \/ RegisterRead(f)
  \/ \E c \in registering: RegisterEnd(c)
  \/ \E t \in Retained: RetainToolResult(t) \/ RegisterRetained(t)

ReaderStep ==
  \/ SubmitKnowledge
  \/ \E i \in Item: PatchRead(i)
  \/ \E c \in patching: PatchEnd(c)

Next ==
  /\ UNCHANGED naming
  /\ \/ \E u \in Unit: Begin(u) \/ Complete(u) \/ Discover(u)
     \/ \E u \in Unit, id \in DOMAIN entries: SearchRead(u, id)
     \/ \E u \in Unit: \E s \in searching[u]: Capture(u, s)
     \/ \E u \in Unit, q \in quotes: CaptureQuote(u, q)
     \/ CollectorStep
     \/ ReaderStep
     \/ Crash

Spec == Init /\ [][Next]_vars

=============================================================================
