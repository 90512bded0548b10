---------------------------- MODULE RestorePlan -----------------------------
(***************************************************************************)
(* What a restore would do: web/src/lib/restore.ts, the rules the console  *)
(* mirrors from the server, and computePreview and stepsFor of             *)
(* web/scripts/mock-restore.mjs, the API the console is developed and      *)
(* tested against.                                                         *)
(*                                                                         *)
(* One application, one recovery point, three hosts: "src" (in place),     *)
(* "edge" (the host with collisions) and "dr" (a clean alternate host). A  *)
(* path is a sequence of segments.  What may change while somebody looks   *)
(* at a preview is the world `w`; a preview is kept as the body it was     *)
(* asked for and the world it was computed in.                             *)
(***************************************************************************)
EXTENDS Naturals, Sequences, FiniteSets

CONSTANTS
    Manifest,    \* the recovery point's components: [name, kind, status, path]
    WorkingDir   \* the path a config component is written to

ASSUME ManifestAssumption ==
    \A i, j \in DOMAIN Manifest : Manifest[i].name = Manifest[j].name => i = j

Nil == "none"
RestoreHosts == {"src", "edge", "dr"}
Worlds == [env : {"production", "test"}, running : BOOLEAN,
           dr : {"active", "disabled"}, rp : {"committed", "deleting"}]

-----------------------------------------------------------------------------
(* Components and path remaps: web/src/lib/restore.ts.                     *)

selectableComponents ==
    {c \in {Manifest[i] : i \in DOMAIN Manifest} : c.kind \notin {"fsmeta", "image"}}

defaultSelection ==
    {c.name : c \in {s \in selectableComponents : s.status = "succeeded"}}

Component(n) == CHOOSE c \in selectableComponents : c.name = n

under(p, prefix) ==
    Len(prefix) <= Len(p) /\ SubSeq(p, 1, Len(prefix)) = prefix

HostPath(c) == IF c.kind = "config" THEN WorkingDir ELSE c.path

remappablePaths(selected) ==
    {HostPath(Component(n)) : n \in {m \in selected :
                                Component(m).kind \in {"bind_mount", "config"}}}

Restored(p) == [p EXCEPT ![Len(p)] = Append(@, "restored")]

suggestRemaps(paths) ==
    {[from |-> p, to |-> Restored(p)] :
        p \in {q \in paths : ~ \E r \in paths : r # q /\ under(q, r)}}

(* A remap row is an absolute path on both sides unless `bad` says what is *)
(* wrong with it: not absolute, or a ".." segment.                         *)
BadRow == [from |-> <<<<"srv">>>>, to |-> <<<<"..">>>>]
validateRemaps(rows) ==
    /\ \A r \in rows : \A i \in DOMAIN r.to : r.to[i] # <<"..">>
    /\ \A r, s \in rows : r.from = s.from => r = s

remap(p, remaps) ==
    IF \E r \in remaps : under(p, r.from)
    THEN LET r == CHOOSE x \in remaps : under(p, x.from)
         IN  r.to \o SubSeq(p, Len(r.from) + 1, Len(p))
    ELSE p

-----------------------------------------------------------------------------
(* The preview: computePreview of mock-restore.mjs.                        *)

resolve(body, w) ==
    IF w.rp # "committed" THEN "conflict"
    ELSE IF ~ validateRemaps(body.remaps) THEN "validation_failed"
    ELSE IF \E n \in body.components : n \notin defaultSelection THEN "validation_failed"
    ELSE "ok"

TargetOf(c, remaps) ==
    IF c.kind \in {"bind_mount", "config"} THEN remap(HostPath(c), remaps) ELSE <<>>

ActionOf(c, host) ==
    CASE c.kind = "config" -> "restore_files"
      [] c.kind = "database" -> "load_dump"
      [] c.kind = "volume" /\ host = "dr" -> "create"
      [] OTHER -> "overwrite"

Collisions(body, w) ==
    (IF body.host # "edge" THEN {} ELSE
       {"container_name", "port"}
         \cup {"volume" : n \in {m \in body.components : Component(m).kind = "volume"}}
         \cup {"bind_path" : n \in {m \in body.components :
                  /\ Component(m).kind = "bind_mount"
                  /\ TargetOf(Component(m), body.remaps) = Component(m).path}})
    \cup (IF body.host = "dr" /\ w.dr # "active" THEN {"dependency"} ELSE {})

Production(body, w) == body.host = "src" /\ (w.env = "production" \/ w.running)

computePreview(body, w) ==
    LET inPlace == body.host = "src"
        collisions == Collisions(body, w)
    IN  [target     |-> body.host,
         mode       |-> IF inPlace THEN "in_place" ELSE "alternate_host",
         production |-> Production(body, w),
         components |-> {[name |-> n, action |-> ActionOf(Component(n), body.host),
                          target |-> TargetOf(Component(n), body.remaps)]
                            : n \in body.components},
         stop       |-> inPlace /\ w.running,
         create     |-> ~ inPlace,
         images     |-> IF inPlace THEN "present" ELSE "pull",
         collisions |-> collisions,
         blocked    |-> collisions # {}]

PreviewOf(entry) == computePreview(entry.body, entry.world)

-----------------------------------------------------------------------------
(* The steps of a run: stepsFor of mock-restore.mjs, and the list the      *)
(* console derives from the recorded preview (stepApplies, restoreSteps).  *)

RESTORE_STEPS == <<"grant-access", "agent-access", "images", "stop-application",
                   "restore-data", "recreate-containers", "start-application",
                   "restore-database", "health-check", "commit">>

stepsFor(p) ==
    SelectSeq(RESTORE_STEPS, LAMBDA s :
        CASE s = "grant-access"        -> p.target # "src"
          [] s = "stop-application"    -> p.stop
          [] s = "recreate-containers" -> p.create
          [] s = "restore-database"    -> \E c \in p.components : c.action = "load_dump"
          [] s = "health-check"        -> p.stop \/ p.create
          [] OTHER                     -> TRUE)

stepApplies(s, run, p) ==
    CASE s = "grant-access"        -> run.target # "src"
      [] s = "stop-application"    -> p.stop
      [] s = "recreate-containers" -> p.create
      [] s = "restore-database"    -> \E c \in p.components : c.action = "load_dump"
      [] s = "health-check"        -> p.stop \/ p.create
      [] OTHER                     -> TRUE

IndexIn(s, seq) == IF \E i \in DOMAIN seq : seq[i] = s
                   THEN CHOOSE i \in DOMAIN seq : seq[i] = s ELSE 0

(* The step indicator of the detail page: the steps with their markers.    *)
restoreSteps(run, d) ==
    LET steps == SelectSeq(RESTORE_STEPS,
                     LAMBDA s : s = d.step \/ stepApplies(s, run, run.preview))
        at == IndexIn(d.step, steps)
        status(i) ==
            CASE d.state = "succeeded" -> "done"
              [] d.state \in {"running", "failed", "rolled_back"} /\ at > 0 ->
                    CASE i < at -> "done"
                      [] i = at -> IF d.state = "running" THEN "current" ELSE "failed"
                      [] OTHER  -> "pending"
              [] OTHER -> "pending"
    IN  [i \in DOMAIN steps |-> [step |-> steps[i], status |-> status(i)]]

isActiveRestore(state) == state \in {"requested", "running"}

=============================================================================
