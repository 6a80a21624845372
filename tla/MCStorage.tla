----------------------------- MODULE MCStorage ------------------------------
(* Model-checking instance of Storage: three processes on one workspace,   *)
(* two objects, and at most two disturbances per workload.                 *)
EXTENDS Storage

CONSTANTS p1, p2, p3, d1, d2

Calm == [crash |-> 0, power |-> 0, rot |-> 0, rotted |-> {}, damage |-> 0, damages |-> 0, remove |-> 0, unmarked |-> FALSE]
Damage(n) == [Calm EXCEPT !.damage = n, !.damages = n]

Job(op, tries) ==
    [op |-> op, tries |-> tries, digest |-> d1, refs |-> TRUE, type |-> "fact.recorded", run |-> "none", spec |-> NoSpec,
     effect |-> FALSE, source |-> "regular", mode |-> "create", project |-> Project, layout |-> "relative", reviewed |-> FALSE]

Idle == Job("doctor", 0)
Publisher(d, tries) == [Job("command", tries) EXCEPT !.digest = d]
Effect(d) == [Publisher(d, 2) EXCEPT !.effect = TRUE, !.refs = FALSE]
RunFact(d, type, spec) == [Publisher(d, 1) EXCEPT !.type = type, !.run = "r1", !.spec = spec]
Spec1(d) == [revision |-> 1, digest |-> d]
Opener(mode) == [Job("open", 2) EXCEPT !.mode = mode]
Restorer == {[Job("restore", 2) EXCEPT !.reviewed = r] : r \in BOOLEAN}

Workload(a, b, c, e) ==
    [hasLog |-> TRUE, root |-> "ok", db |-> NoFile, job |-> (p1 :> a @@ p2 :> b @@ p3 :> c), env |-> e]

(* Two publishers, of the same bytes and of different ones.                *)
Publishing ==
    {Workload(Publisher(d1, 2), Publisher(d, 2), Idle, [Calm EXCEPT !.power = 1, !.crash = 1]) : d \in {d1, d2}}
    \cup {Workload([Publisher(d1, 1) EXCEPT !.source = k], Idle, Idle, Calm) : k \in SourceKinds}
    \cup {[Workload(Publisher(d1, 1), Idle, Idle, Calm) EXCEPT !.root = r] : r \in {"missing", "replaced"}}
    \cup {Workload(Publisher(d1, 1), Publisher(d1, 1), Idle, [Calm EXCEPT !.rot = 1])}

(* A backup while commands append, with and without a receipt log.         *)
BackingUp ==
    {Workload(RunFact(d1, "run.queued", Spec1("s")), Effect(d2), Job("backup", 1), Calm),
     Workload(Publisher(d1, 1), Effect(d1), Job("backup", 1), [Calm EXCEPT !.crash = 1]),
     Workload(Publisher(d1, 1), Job("backup", 1), Job("backup", 1), Calm),
     Workload(Publisher(d1, 1), Publisher(d2, 1), Job("backup", 2), [Calm EXCEPT !.rot = 1]),
     [Workload(Publisher(d1, 1), RunFact(d2, "run.queued", NoSpec), Job("backup", 1), Calm) EXCEPT !.hasLog = FALSE]}

Restoring ==
    UNION {{Workload(RunFact(d1, t, NoSpec), Job("backup", 1), r, Damage(1)),
            Workload(Effect(d1), Job("backup", 1), r, [Damage(1) EXCEPT !.crash = 1]),
            [Workload(Publisher(d1, 1), Job("backup", 1), r, Damage(1)) EXCEPT !.hasLog = FALSE],
            Workload(Publisher(d1, 1), Job("backup", 1), [r EXCEPT !.project = "other"], Calm),
            Workload(Publisher(d1, 1), Job("backup", 1), [r EXCEPT !.layout = "absolute"], Calm)} :
        r \in Restorer, t \in {"run.queued", "run.started", "run.completed"}}

Rebuilding ==
    {Workload(RunFact(d1, "run.queued", Spec1("s")), RunFact(d2, "run.completed", spec), Job("rebuild", 2), Calm) :
        spec \in {NoSpec, Spec1("s"), Spec1("t")}}

(* An old store, put back beside the marker of the one it replaces.        *)
MarkedFile == [OldFile EXCEPT !.marker = TRUE]

Opening ==
    {[Workload(Opener("create"), Opener(m), Job("doctor", 1), [Calm EXCEPT !.crash = 1, !.remove = r]) EXCEPT !.db = f] :
        m \in {"create", "existing", "readonly"}, r \in {0, 1},
        f \in {NoFile, OldFile, MarkedFile, ForeignFile, NewerFile, AlteredFile, [NoFile EXCEPT !.dir = FALSE],
               [AlteredFile EXCEPT !.version = SCHEMA_VERSION, !.applied = <<1, 1>>]}}
    \cup {[Workload(Opener("create"), Opener("create"), Job("doctor", 1), [Calm EXCEPT !.power = 1, !.remove = 1]) EXCEPT !.db = f] :
            f \in {NoFile, OldFile, MarkedFile}}
    \cup {[Workload(Opener("create"), Opener("create"), Job("doctor", 1), [Calm EXCEPT !.remove = 2]) EXCEPT !.db = f] :
            f \in {NoFile, OldFile, MarkedFile, ForeignFile}}

MCWorkloads == Publishing \cup BackingUp \cup Restoring \cup Rebuilding \cup Opening
=============================================================================
