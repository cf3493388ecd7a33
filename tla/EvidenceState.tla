------------------------------ MODULE EvidenceState ------------------------------
(***************************************************************************)
(* The parameters and the state of Evidence, and what its readers can rely *)
(* on.                                                                     *)
(***************************************************************************)
EXTENDS Naturals

CONSTANTS
  Listed,      (* files below the Collector's directory artifact              *)
  Retained,    (* retained tool results, files once they are registered       *)
  Item,        (* knowledge items                                             *)
  MaxIds,      (* bound: ids minted over all processes                        *)
  MaxBody,     (* bound: versions of one file                                 *)
  MaxQuotes,   (* bound: quotes of one process (a search may exceed it by 2)  *)
  MaxCrashes   (* bound: restarts                                             *)

Dir == "directory"            \* the Collector's declared directory artifact
Knowledge == "knowledge"      \* the Reader's declared knowledge.json

ASSUME EvidenceAssumption ==
  /\ Listed \cap Retained = {} /\ {Dir, Knowledge} \cap (Listed \cup Retained) = {}
  /\ MaxIds \in Nat /\ MaxBody \in Nat /\ MaxQuotes \in Nat /\ MaxCrashes \in Nat

VARIABLES
  report,       \* the file artifact the Collector declares in Dir, Dir if none
  spelling,     \* "linked" if the run's directory is named through a link, else "real"
  entries,      \* Registry.entries: the live ids and what each denotes
  paths,        \* Registry.paths: the key of a path to its id
  children,     \* Registry.children: <<parent id, file>>, parent 0 when restored
  nextId,       \* the next fresh uuid
  retained,     \* Registry.retained: tool results kept for registration
  content,      \* the files of the Collector's workspace, Absent when missing
  registering,  \* RegisterEvidence calls between the read and the lock
  searching,    \* searches between the file's read and the quote's capture
  quotes,       \* QuoteRegistry.byRef
  authorized,   \* authorizedArtifacts of each unit's tools
  knowledge,    \* knowledge.json
  patching,     \* Final QC patches between the read and the rename
  stage,        \* each unit in this process: "idle", "running", "done"
  saved,        \* each unit's checkpoint
  crashes       \* restarts so far (model bound)

Collector == "collector"
Reader == "reader"
Unit == {Collector, Reader}

\* A quote's identity is its artifact, digest and range.
KeyOf(q) == <<q.artifact, q.digest, q.context>>
\* Every item cites, and what it cites is there.
Sound(k) == \A i \in DOMAIN k.items: k.items[i] # {} /\ k.items[i] \subseteq {KeyOf(q): q \in k.quotes}

----------------------------------------------------------------------------
\* A file has one id: listing, declaring and registering it in any order, and
\* restoring it after a crash, never give it a second one, so that a citation
\* and an authorization of the same file can be compared by id.  The exception
\* is a file that was declared through a link before it was written: if a
\* listing finds it before it is registered, the listing gives it another id,
\* and even then only one of the two ever is evidence.
OneIdPerFile ==
  \A i, j \in DOMAIN entries: entries[i].path = entries[j].path =>
    \/ i = j
    \/ /\ spelling = "linked" /\ entries[i].path = report
       /\ entries[i].listed \/ entries[j].listed
       /\ "evidence" \notin entries[i].purposes \cap entries[j].purposes

\* What a unit recorded about its artifacts outlives the process: once it is
\* done, every id of its checkpoint denotes the file it denoted when the
\* checkpoint was written, whatever other units begin, roll back or list.
CompletedIdsKeep ==
  \A u \in Unit: stage[u] = "done" =>
    \A i \in DOMAIN saved[u].entries:
      i \in DOMAIN entries /\ entries[i].path = saved[u].entries[i].path

\* knowledge.json can be checked by a reader at any time: every item cites, all
\* citations resolve to a quote the file holds, and each quote's text is of
\* the version of the file its digest names, whoever wrote that file between
\* the search and the capture and however patches overlap.
CitationsAreGenuine ==
  /\ Sound(knowledge)
  /\ \A q \in knowledge.quotes: q.text = q.digest
==================================================================================
