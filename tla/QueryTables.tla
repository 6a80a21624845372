---------------------------- MODULE QueryTables -----------------------------
(***************************************************************************)
(* The query tables beside the event rows: spec revisions, the artifact    *)
(* index and its links, and a status row per Run.  They are rebuilt from a *)
(* frozen prefix of the log; a Run's row is also written on its own.       *)
(***************************************************************************)
EXTENDS Naturals, Sequences, SequencesExt

(* An event: its id, type, Run, spec (revision and digest, for run.queued) *)
(* and the content digests its payload and evidence name.                  *)
Event(id, type, run, spec, refs) == [id |-> id, type |-> type, run |-> run, spec |-> spec, refs |-> refs]
NoSpec == [revision |-> 0, digest |-> "none"]

ReferencedDigests(e) == e.refs
Referenced(log) == UNION {ReferencedDigests(log[i]) : i \in DOMAIN log}

(* One digest per revision: a second one is an integrity error.            *)
SpecRevisions(log) ==
    {[revision |-> log[i].spec.revision, digest |-> log[i].spec.digest] : i \in {j \in DOMAIN log : log[j].spec # NoSpec}}
IndexSpecRevision(log) == \A s, t \in SpecRevisions(log) : s.revision = t.revision => s = t

ArtifactLinks(log) == UNION {{[digest |-> d, sequence |-> i] : d \in ReferencedDigests(log[i])} : i \in DOMAIN log}

Runs(log) == {log[i].run : i \in DOMAIN log} \ {"none"}

(* The status of a Run as its events say it: queued, running, ended.       *)
RunStatus(log, run) ==
    LET step(e, s) == IF e.run # run THEN s
                      ELSE CASE e.type = "run.queued" -> "queued" [] e.type = "run.started" -> "running"
                             [] e.type = "run.completed" -> "completed" [] OTHER -> s
    IN FoldLeft(LAMBDA s, e : step(e, s), "unknown", log)

RunRow(log, run, last) == [run |-> run, last |-> last, status |-> RunStatus(log, run)]

EmptyTables == [specs |-> {}, links |-> {}, runs |-> {}]

(* Mutant: the replay goes on to the events appended since the freeze.     *)
RebuiltToHead(log, high) ==
    [specs |-> SpecRevisions(log), links |-> ArtifactLinks(log), runs |-> {RunRow(log, r, high) : r \in Runs(log)}]

(* Events are read in pages up to the frozen high water only.              *)
ReadEvents(log, high) == SubSeq(log, 1, high)

Rebuilt(log, high) ==
    LET prefix == ReadEvents(log, high)
    IN [specs |-> SpecRevisions(prefix), links |-> ArtifactLinks(prefix),
        runs |-> {RunRow(prefix, r, high) : r \in Runs(prefix)}]

UpsertRunProjection(tables, row) == [tables EXCEPT !.runs = {r \in @ : r.run # row.run} \cup {row}]
=============================================================================
