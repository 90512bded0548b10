----------------------------- MODULE LiveEvents -----------------------------
(***************************************************************************)
(* Live updates of the web console: the event bus of the server, the one   *)
(* EventSource of a tab, the coalesced invalidation of the query cache,    *)
(* the queries behind the mounted views and the progress store.            *)
(*                                                                         *)
(* The data of a view is abstracted to whether it shows the present state  *)
(* of the server stores it is computed from ("fresh") or an older one      *)
(* ("stale"), and so is a response on its way.                             *)
(***************************************************************************)
EXTENDS Naturals, Sequences

CONSTANTS Views,        \* query keys of the views an operator may open
          ChangeTypes,  \* the event types of changes other than jobs
          BufferSize,   \* events a subscriber of the bus may have waiting
          MaxChanges,   \* bound on changes of the server's stores
          MaxFaults     \* bound on refused and broken requests

VARIABLES key,          \* the query key of the view of this tab
          query,        \* its query in the cache
          bus,          \* events of this tab's stream, not yet handled
          conn,         \* the EventSource: none, connecting, accepted, open
          status,       \* what LiveIndicator shows
          retryTimer, hiddenTimer,
          visible,      \* document.visibilityState
          pending,      \* the keys waiting for flush, of those the tab reads
          job,          \* the application's job on the server
          progress,     \* the application's entry in the ProgressStore
          missed,       \* history: "view", "progress": a lost update of it
          changes, faults

liveVars == <<key, query, bus, conn, status, retryTimer, hiddenTimer, visible,
              pending, job, progress, missed, changes, faults>>
net == <<key, conn, status, retryTimer, hiddenTimer, visible>>

NoProgress == [id |-> 0, active |-> FALSE, shown |-> FALSE]

------------------------------------------------------------------------------
(* The server: which stores a view is computed from, what an event reports. *)

DependsOn(k) ==
    CASE k = "agents"         -> {"agents"}
      [] k = "inventory"      -> {"inventory"}
      [] k = "applications"   -> {"inventory", "points", "restores"}
      [] k = "recoveryPoints" -> {"points"}
      [] k = "restores"       -> {"restores"}
      [] k = "jobs"           -> {"points", "restores"}
      [] k = "alerts"         -> {"alerts"}
      [] k = "containers"     -> {"inventory"}
      [] k = "volumes"        -> {"inventory", "points"}
      [] k = "repositories"   -> {"points"}

StoreOf(type) ==
    CASE type = "backup.updated"    -> "points"
      [] type = "restore.updated"   -> "restores"
      [] type = "agent.status"      -> "agents"
      [] type = "alert.created"     -> "alerts"
      [] type = "inventory.updated" -> "inventory"

Event(type, id, state) == [type |-> type, id |-> id, state |-> state]

\* Mutant: a change of the inventory does not invalidate the volumes.
invalidationsFor_NoVolumes(e) ==
    CASE e.type = "job.progress" ->
            IF e.state = "running" THEN {} ELSE {"jobs", "applications"}
      [] e.type = "backup.updated" ->
            {"recoveryPoints", "jobs", "applications", "volumes", "repositories"}
      [] e.type = "restore.updated" -> {"restores", "jobs", "applications"}
      [] e.type = "agent.status" -> {"agents", "inventory"}
      [] e.type = "alert.created" -> {"alerts"}
      [] e.type = "inventory.updated" -> {"inventory", "applications", "containers"}

(***************************************************************************)
(* The console's tables: keys an event invalidates, keys re-read after a   *)
(* (re)connect, keys whose hook has a refetchInterval.                     *)
(***************************************************************************)
invalidationsFor(e) ==
    CASE e.type = "job.progress" ->
            IF e.state = "running" THEN {} ELSE {"jobs", "applications"}
      [] e.type = "backup.updated" ->
            {"recoveryPoints", "jobs", "applications", "volumes", "repositories"}
      [] e.type = "restore.updated" -> {"restores", "jobs", "applications"}
      [] e.type = "agent.status" -> {"agents", "inventory"}
      [] e.type = "alert.created" -> {"alerts"}
      [] e.type = "inventory.updated" ->
            {"inventory", "applications", "containers", "volumes"}

LIVE_QUERY_PREFIXES ==
    {"agents", "inventory", "applications", "recoveryPoints", "restores",
     "jobs", "alerts", "containers", "volumes", "repositories"}

Polled == {"agents", "recoveryPoints", "restores", "jobs", "alerts",
           "containers", "volumes", "repositories"}

ASSUME LiveAssumption ==
    /\ BufferSize \in Nat /\ MaxChanges \in Nat /\ MaxFaults \in Nat
    /\ Views \subseteq LIVE_QUERY_PREFIXES
    /\ ChangeTypes \subseteq {"backup.updated", "restore.updated", "agent.status",
                              "alert.created", "inventory.updated"}

------------------------------------------------------------------------------
(* A query of the cache (TanStack Query), as the console uses it.           *)

NewQuery == [data |-> "none", resp |-> "idle", inval |-> FALSE, mounted |-> FALSE]

Older(x) == IF x = "fresh" THEN "stale" ELSE x

(* The store changed: what was read of it before is old.                    *)
Outdated(q) == [q EXCEPT !.data = Older(@), !.resp = Older(@)]

(* A fetch that finds one running joins it, and only a fetch asked for by an *)
(* invalidation replaces it, and that only when there already is data.      *)
Fetch(q) == IF q.resp = "idle" THEN [q EXCEPT !.resp = "sent"] ELSE q

Invalidated(q) ==
    IF ~q.mounted THEN [q EXCEPT !.inval = TRUE]
    ELSE IF q.data = "none" THEN [Fetch(q) EXCEPT !.inval = TRUE]
    ELSE [q EXCEPT !.inval = TRUE, !.resp = "sent"]

JoinsOldRead(q) == q.mounted /\ q.data = "none" /\ q.resp = "stale"

setQueryData(q) == IF q.data = "none" THEN q ELSE [q EXCEPT !.inval = FALSE]

------------------------------------------------------------------------------
(* Bus.deliver: a subscriber whose buffer is full loses the event.          *)
Subscribed == conn \in {"accepted", "open"}

IsProgress(e) == e.type = "job.progress"

(* Whether the newest progress event is among the events es.                *)
HasProgress(es) == \E i \in DOMAIN es : IsProgress(es[i])

(* Events queued of es, the others are dropped; `missed` keeps whether the  *)
(* newest progress event of the job was lost.                               *)
Publish(es) ==
    LET n == IF ~Subscribed THEN 0
             ELSE IF Len(bus) + Len(es) <= BufferSize THEN Len(es)
             ELSE BufferSize - Len(bus)
        queued  == SubSeq(es, 1, n)
        dropped == SubSeq(es, n + 1, Len(es))
        keys    == UNION {invalidationsFor(dropped[i]) : i \in DOMAIN dropped}
    IN /\ bus' = bus \o queued
       /\ missed' = ((IF HasProgress(queued) THEN missed \ {"progress"} ELSE missed)
                       \cup (IF HasProgress(dropped) THEN {"progress"} ELSE {}))
                       \cup (IF Subscribed /\ key \in keys THEN {"view"} ELSE {})

(* The stream ends: what was queued for it is gone.                         *)
StreamLost ==
    /\ bus' = <<>>
    /\ missed' = IF HasProgress(bus) THEN missed \cup {"progress"} ELSE missed

Changed(store) ==
    query' = IF store \in DependsOn(key) THEN Outdated(query) ELSE query

(* A change of a store other than by a job, and its event.                  *)
ServerChange(type) ==
    /\ changes < MaxChanges
    /\ changes' = changes + 1
    /\ Changed(StoreOf(type))
    /\ Publish(<<Event(type, 0, "")>>)
    /\ UNCHANGED <<net, pending, job, progress, faults>>

(* A backup starts: the pending recovery point, then the accepted command.  *)
JobStart ==
    /\ ~job.running /\ changes < MaxChanges
    /\ changes' = changes + 1
    /\ job' = [id |-> 1 - job.id, running |-> TRUE]
    /\ Changed("points")
    /\ Publish(<<Event("backup.updated", 0, "pending"),
                 Event("job.progress", 1 - job.id, "accepted")>>)
    /\ UNCHANGED <<net, pending, progress, faults>>

JobTick ==
    /\ job.running
    /\ Publish(<<Event("job.progress", job.id, "running")>>)
    /\ UNCHANGED <<query, net, pending, job, progress, changes, faults>>

JobEnd ==
    /\ job.running
    /\ job' = [job EXCEPT !.running = FALSE]
    /\ Changed("points")
    /\ Publish(<<Event("job.progress", job.id, "succeeded"),
                 Event("backup.updated", 0, "committed")>>)
    /\ UNCHANGED <<net, pending, progress, changes, faults>>

------------------------------------------------------------------------------
(* The stream.                                                              *)

connect == conn' = "connecting" /\ status' = "connecting" /\ retryTimer' = FALSE

(* The server subscribes the stream to the bus before it answers.           *)
Accept ==
    /\ conn = "connecting"
    /\ conn' = "accepted" /\ bus' = <<>>
    /\ UNCHANGED <<key, query, status, retryTimer, hiddenTimer, visible, pending, job,
                   progress, missed, changes, faults>>

(* onopen: everything live is re-read, because events may have been missed. *)
OnOpen ==
    /\ conn = "accepted"
    /\ conn' = "open" /\ status' = "live"
    /\ pending' = pending \cup (LIVE_QUERY_PREFIXES \cap {key})
    /\ UNCHANGED <<key, query, bus, retryTimer, hiddenTimer, visible, job, progress,
                   missed, changes, faults>>

(* onerror with readyState CLOSED: refused or ended by the server.          *)
OnErrorClosed ==
    /\ conn \in {"connecting", "accepted", "open"} /\ faults < MaxFaults
    /\ faults' = faults + 1
    /\ conn' = "none" /\ status' = "offline" /\ retryTimer' = TRUE
    /\ StreamLost
    /\ UNCHANGED <<key, query, hiddenTimer, visible, pending, job, progress, changes>>

(* onerror while the browser reconnects by itself.                          *)
OnErrorConnecting ==
    /\ conn \in {"accepted", "open"} /\ faults < MaxFaults
    /\ faults' = faults + 1
    /\ conn' = "connecting" /\ status' = "connecting"
    /\ StreamLost
    /\ UNCHANGED <<key, query, retryTimer, hiddenTimer, visible, pending, job, progress,
                   changes>>

RetryTimerFires ==
    /\ retryTimer /\ conn = "none"
    /\ connect
    /\ UNCHANGED <<key, query, bus, hiddenTimer, visible, pending, job, progress,
                   missed, changes, faults>>

(* onVisibility: hidden arms the pause; visible disarms it, reconnects when  *)
(* there is no stream, and the cache refetches what is invalid or old.      *)
Hide ==
    /\ visible
    /\ visible' = FALSE /\ hiddenTimer' = TRUE
    /\ UNCHANGED <<key, query, bus, conn, status, retryTimer, pending, job, progress,
                   missed, changes, faults>>

Show ==
    /\ ~visible
    /\ visible' = TRUE /\ hiddenTimer' = FALSE
    /\ IF conn = "none" THEN connect ELSE UNCHANGED <<conn, status, retryTimer>>
    /\ \E old \in BOOLEAN :
          query' = IF query.mounted /\ (query.inval \/ old) THEN Fetch(query) ELSE query
    /\ UNCHANGED <<key, bus, pending, job, progress, missed, changes, faults>>

HiddenTimerFires ==
    /\ hiddenTimer
    /\ hiddenTimer' = FALSE /\ retryTimer' = FALSE
    /\ conn' = "none" /\ status' = "paused"
    /\ StreamLost
    /\ UNCHANGED <<key, query, visible, pending, job, progress, changes, faults>>

(* One event of the stream: invalidate, then the progress store or the patch *)
(* of the cached agents.                                                    *)
Handle ==
    /\ conn = "open" /\ bus # <<>>
    /\ LET e == Head(bus) IN
        /\ pending' = pending \cup (invalidationsFor(e) \cap {key})
        /\ progress' = IF IsProgress(e)
                       THEN [id |-> e.id, active |-> e.state \in {"accepted", "running"},
                             shown |-> TRUE]
                       ELSE progress
        /\ query' = IF e.type = "agent.status" /\ key = "agents"
                    THEN setQueryData(query) ELSE query
    /\ bus' = Tail(bus)
    /\ UNCHANGED <<net, job, missed, changes, faults>>

(* prune: a finished entry disappears after its time.                       *)
Prune ==
    /\ progress.shown /\ ~progress.active
    /\ progress' = NoProgress
    /\ UNCHANGED <<query, bus, net, pending, job, missed, changes, faults>>

(* flush: one invalidation per coalesced key.                               *)
Flush ==
    /\ pending # {}
    /\ query' = Invalidated(query)
    /\ missed' = IF JoinsOldRead(query) THEN missed \cup {"view"} ELSE missed
    /\ pending' = {}
    /\ UNCHANGED <<bus, net, job, progress, changes, faults>>

------------------------------------------------------------------------------
(* The queries.                                                             *)

QueryStep(q) ==
    /\ query' = q
    /\ UNCHANGED <<bus, net, pending, job, progress, changes>>

(* A view mounts: it fetches when there is no data, or it is invalid or old. *)
Mount ==
    /\ ~query.mounted
    /\ \E old \in BOOLEAN :
          LET q == [query EXCEPT !.mounted = TRUE]
          IN QueryStep(IF q.data = "none" \/ q.inval \/ old THEN Fetch(q) ELSE q)
    /\ UNCHANGED <<missed, faults>>

(* The last view leaves: its request is aborted.                            *)
Unmount ==
    /\ query.mounted
    /\ QueryStep([query EXCEPT !.mounted = FALSE, !.resp = "idle"])
    /\ UNCHANGED <<missed, faults>>

(* refetchInterval of a mounted view of a visible tab.                      *)
Poll ==
    /\ key \in Polled /\ visible /\ query.mounted /\ query.resp = "idle"
    /\ QueryStep(Fetch(query))
    /\ UNCHANGED <<missed, faults>>

ServerReads ==
    /\ query.resp = "sent"
    /\ QueryStep([query EXCEPT !.resp = "fresh"])
    /\ UNCHANGED <<missed, faults>>

Response ==
    /\ query.resp \in {"fresh", "stale"}
    /\ QueryStep([query EXCEPT !.data = query.resp, !.resp = "idle",
                                    !.inval = FALSE])
    /\ missed' = IF query.resp = "fresh" THEN missed \ {"view"} ELSE missed
    /\ UNCHANGED faults

(* The request and its two retries failed.                                  *)
RequestFails ==
    /\ query.resp # "idle" /\ faults < MaxFaults
    /\ faults' = faults + 1
    /\ QueryStep([query EXCEPT !.resp = "idle", !.inval = TRUE])
    /\ missed' = missed \cup {"view"}

------------------------------------------------------------------------------
LiveInit ==
    /\ key \in Views /\ query = NewQuery
    /\ bus = <<>> /\ conn = "connecting" /\ status = "connecting"
    /\ retryTimer = FALSE /\ hiddenTimer = FALSE /\ visible = TRUE
    /\ pending = {} /\ job = [id |-> 0, running |-> FALSE]
    /\ progress = NoProgress /\ missed = {} /\ changes = 0 /\ faults = 0

LiveNext ==
    \/ \E t \in ChangeTypes : ServerChange(t)
    \/ JobStart \/ JobTick \/ JobEnd
    \/ Accept \/ OnOpen \/ OnErrorClosed \/ OnErrorConnecting \/ RetryTimerFires
    \/ Hide \/ Show \/ HiddenTimerFires
    \/ Handle \/ Prune \/ Flush
    \/ Mount \/ Unmount \/ Poll \/ ServerReads \/ Response \/ RequestFails

(***************************************************************************)
(* Timers, polling and the network make progress; changes, the operator's  *)
(* tab and faults need not.                                                *)
(***************************************************************************)
LiveFairness ==
    /\ WF_liveVars(Accept) /\ WF_liveVars(OnOpen) /\ WF_liveVars(RetryTimerFires)
    /\ WF_liveVars(Handle) /\ WF_liveVars(Flush)
    /\ WF_liveVars(Poll) /\ WF_liveVars(ServerReads) /\ WF_liveVars(Response)

LiveSpec == LiveInit /\ [][LiveNext]_liveVars /\ LiveFairness

------------------------------------------------------------------------------
(* Every variable has its type.                                             *)
LiveTypeOK ==
    /\ key \in Views
    /\ query \in [data : {"none", "fresh", "stale"},
                  resp : {"idle", "sent", "fresh", "stale"},
                  inval : BOOLEAN, mounted : BOOLEAN]
    /\ Len(bus) <= BufferSize
    /\ conn \in {"none", "connecting", "accepted", "open"}
    /\ status \in {"connecting", "live", "offline", "paused"}
    /\ retryTimer \in BOOLEAN /\ hiddenTimer \in BOOLEAN /\ visible \in BOOLEAN
    /\ pending \subseteq {key}
    /\ job \in [id : {0, 1}, running : BOOLEAN]
    /\ progress \in [id : {0, 1}, active : BOOLEAN, shown : BOOLEAN]
    /\ missed \subseteq {"view", "progress"}
    /\ changes \in 0..MaxChanges /\ faults \in 0..MaxFaults

Coming == \E i \in DOMAIN bus : key \in invalidationsFor(bus[i])

(***************************************************************************)
(* What a mounted view shows is never out of date without a repair on its  *)
(* way: a request the server has yet to read, a key waiting for flush, an  *)
(* event on the stream or a (re)connect that will re-read it.  `missed`    *)
(* names the three exceptions the code has: an event the bus dropped, an   *)
(* invalidation that joined a first request already answered from older    *)
(* data, and a request whose retries all failed.                           *)
(***************************************************************************)
StaleIsCovered ==
    query.mounted /\ query.data = "stale" =>
        \/ query.resp \in {"sent", "fresh"}
        \/ pending # {} \/ Coming
        \/ conn # "open"
        \/ "view" \in missed

(***************************************************************************)
(* The stream is never given up: without an EventSource a retry is armed,  *)
(* or the tab is hidden and showing it again connects.                     *)
(***************************************************************************)
StreamComesBack == conn = "none" => retryTimer \/ (~visible /\ status = "paused")

(***************************************************************************)
(* With every progress event handled, the progress on show is active only  *)
(* for the job that runs, unless an event of it was lost on the way.       *)
(***************************************************************************)
ProgressIsOfTheJob ==
    progress.active /\ "progress" \notin missed
        /\ ~HasProgress(bus)
      => job.running /\ progress.id = job.id

(***************************************************************************)
(* A polled view of a tab that stays visible ends up fresh once changes    *)
(* stop, whatever events and requests were lost.                           *)
(***************************************************************************)
PolledViewSettles ==
    <>[](key \in Polled /\ visible /\ query.mounted) => <>[](query.data = "fresh")

(***************************************************************************)
(* A tab that stays visible has its stream open again in the end.          *)
(***************************************************************************)
StreamReopens == <>[]visible => <>[](conn = "open")
=============================================================================
