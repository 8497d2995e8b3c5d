-------------------------------- MODULE Daemon --------------------------------
(***************************************************************************)
(* The build daemon (crates/frostbuild-daemon/src/lib.rs) and its clients  *)
(* (run_build_via_daemon in crates/frostbuild-cli/src/main.rs): one        *)
(* connection at a time, a watcher whose events arrive when they do, and   *)
(* "up to date" answered from a proof kept in memory, from the no-op       *)
(* certificate, or by a child build.                                       *)
(*                                                                         *)
(* The identity of a file is the number of the change that made it.  What  *)
(* a certificate is worth is FastNoop's; here it is the identities, the    *)
(* toolchain and the environment it was taken from.  The graph and its     *)
(* manifests are among the files, profile and platform in the environment. *)
(* A child build changes files and certifies, as anybody may meanwhile.    *)
(***************************************************************************)
EXTENDS Naturals, Sequences, FiniteSets

CONSTANTS
    Clients,
    Watched,        \* files below the workspace
    Outside,        \* files of a certificate that the watcher does not see
    Envs, Tools,
    None,
    MaxRequests, MaxChanges, MaxCertificates, MaxFaults     \* bounds

Paths == Watched \cup Outside

ASSUME DaemonAssumption == Watched \cap Outside = {} /\ Tools # {} /\ Envs # {}
ASSUME NoneAssumption == None \notin Clients
ASSUME BoundsAssumption == MaxRequests \in Nat /\ MaxChanges \in Nat
ASSUME FaultsAssumption == MaxCertificates \in Nat /\ MaxFaults \in Nat

VARIABLES
    ids, tool,          \* the files and the toolchain
    certificate,        \* [serial, env, tool, files]
    queue,              \* events that have not reached the callback
    \* DaemonState:
    dirty, watcher_trusted, event_epoch, next_barrier, barrier_seen, cached_noop,
    \* The thread that serves:
    pc, serving,        \* where it is, and with whose request
    then,               \* what follows the barrier
    ready,              \* what the barrier returned
    barrier_ready, baseline_epoch, validated, scan,     \* of try_full_noop
    response,
    client, asked,      \* where a client is, and the environment it sent
    \* Observers and bounds:
    clean,              \* the workspace was as certified since the request
    overflowed,         \* the watcher has lost events without an error
    requests, changes, certificates, faults

world == <<ids, tool, certificate>>
state == <<dirty, watcher_trusted, event_epoch, next_barrier, barrier_seen, cached_noop>>
local == <<then, ready, barrier_ready, baseline_epoch, validated, scan>>
clients == <<client, asked>>
bounds == <<requests, changes, certificates, faults>>
vars == <<world, queue, state, pc, serving, local, response, clients, clean, overflowed,
          bounds>>

\* serve: what a daemon starts with
FreshState ==
    /\ dirty' = {} /\ watcher_trusted' = TRUE /\ event_epoch' = 0
    /\ next_barrier' = 0 /\ barrier_seen' = 0 /\ cached_noop' = None

FreshLocal ==
    /\ then' = None /\ ready' = FALSE /\ barrier_ready' = FALSE /\ baseline_epoch' = 0
    /\ validated' = None /\ scan' = {}

\* Which tool there is to begin with does not matter: they differ in nothing but
\* that they differ.
Init ==
    /\ ids = [p \in Paths |-> 0] /\ tool = CHOOSE t \in Tools : TRUE
    /\ certificate = None
    /\ queue = <<>>
    /\ dirty = {} /\ watcher_trusted = TRUE /\ event_epoch = 0
    /\ next_barrier = 0 /\ barrier_seen = 0 /\ cached_noop = None
    /\ pc = "down" /\ serving = None
    /\ then = None /\ ready = FALSE /\ barrier_ready = FALSE /\ baseline_epoch = 0
    /\ validated = None /\ scan = {} /\ response = None
    /\ client = [c \in Clients |-> "idle"] /\ asked = [c \in Clients |-> None]
    /\ clean = FALSE /\ overflowed = FALSE
    /\ requests = 0 /\ changes = 0 /\ certificates = 0 /\ faults = 0

-----------------------------------------------------------------------------
(* Events                                                                  *)

Up == pc # "down"
Event(kind) == [kind |-> kind, id |-> 0]
\* Mutant: the marker is named after the barrier to come.
Mut_NextMarker(n) == [kind |-> "marker", id |-> n + 1]
Marker(n) == [kind |-> "marker", id |-> n]
Emit(event) == queue' = IF Up THEN Append(queue, event) ELSE queue

FilesMatch(files) == \A p \in DOMAIN files : ids[p] = files[p]
Certified(cert, e) ==
    cert # None /\ cert.env = e /\ cert.tool = tool /\ FilesMatch(cert.files)

\* Somebody changes a file.
Change(p) ==
    /\ changes < MaxChanges
    /\ changes' = changes + 1
    /\ ids' = [ids EXCEPT ![p] = changes + 1]
    /\ IF p \in Watched THEN Emit(Event("path")) ELSE UNCHANGED queue
    /\ UNCHANGED <<tool, certificate, state, pc, serving, local, response, clients, clean,
                   overflowed, requests, certificates, faults>>

\* A build that finds nothing to do certifies the files of its closure; the
\* certificate is a file of the workspace, too.
Certify(e, paths) ==
    /\ certificates < MaxCertificates
    /\ certificates' = certificates + 1
    /\ certificate' = [serial |-> certificates, env |-> e, tool |-> tool,
                       files |-> [p \in paths |-> ids[p]]]
    /\ clean' = (clean \/ (serving # None /\ asked[serving] = e))
    /\ Emit(Event("path"))
    /\ UNCHANGED <<ids, tool, state, pc, serving, local, response, clients, overflowed,
                   requests, changes, faults>>

ChangeTool(t) ==
    /\ t # tool /\ changes < MaxChanges
    /\ changes' = changes + 1
    /\ tool' = t
    /\ clean' = (clean \/ (/\ serving # None /\ certificate # None
                           /\ certificate.env = asked[serving] /\ certificate.tool = t
                           /\ FilesMatch(certificate.files)))
    /\ UNCHANGED <<ids, certificate, queue, state, pc, serving, local, response, clients,
                   overflowed, requests, certificates, faults>>

Fault == faults < MaxFaults /\ faults' = faults + 1

\* The backend reports an error after what it has reported so far ...
WatcherFails ==
    /\ Up /\ Fault
    /\ Emit(Event("error"))
    /\ UNCHANGED <<world, state, pc, serving, local, response, clients, clean, overflowed,
                   requests, changes, certificates>>

\* ... or its queue overflows: what was in it is replaced by an event that asks
\* for a rescan, of the kind Other.
Overflow ==
    /\ Up /\ queue # <<>> /\ Fault
    /\ queue' = <<Event("rescan")>>
    /\ overflowed' = TRUE
    /\ UNCHANGED <<world, state, pc, serving, local, response, clients, clean, requests,
                   changes, certificates>>

\* The callback.  Events of other kinds are passed over; a path invalidates the
\* proof; a marker is no change.
Deliver ==
    /\ Up /\ queue # <<>>
    /\ queue' = Tail(queue)
    /\ CASE Head(queue).kind = "error" ->
              /\ watcher_trusted' = FALSE
              /\ cached_noop' = None
              /\ event_epoch' = event_epoch + 1
              /\ UNCHANGED <<dirty, next_barrier, barrier_seen>>
         [] Head(queue).kind = "path" ->
              /\ dirty' = dirty \cup {"path"}
              /\ cached_noop' = None
              /\ event_epoch' = event_epoch + 1
              /\ UNCHANGED <<watcher_trusted, next_barrier, barrier_seen>>
         [] Head(queue).kind = "rescan" -> UNCHANGED state
         [] OTHER ->
              /\ barrier_seen' = IF Head(queue).id > barrier_seen THEN Head(queue).id ELSE barrier_seen
              /\ UNCHANGED <<dirty, watcher_trusted, event_epoch, next_barrier, cached_noop>>
    /\ UNCHANGED <<world, pc, serving, local, response, clients, clean, overflowed, bounds>>

-----------------------------------------------------------------------------
(* watcher_barrier: a marker file whose event comes after those of all      *)
(* earlier changes                                                          *)

Barrier(next) == pc' = "mark" /\ then' = next

Distrust == watcher_trusted' = FALSE /\ cached_noop' = None

Mark ==
    /\ pc = "mark"
    /\ \/ /\ ~watcher_trusted
          /\ ready' = FALSE /\ pc' = then
          /\ UNCHANGED <<queue, state, faults>>
       \/ /\ watcher_trusted
          /\ next_barrier' = next_barrier + 1
          /\ \/ /\ Emit(Marker(next_barrier'))
                /\ pc' = "wait" /\ ready' = FALSE
                /\ UNCHANGED <<watcher_trusted, cached_noop, faults>>
             \/ /\ Fault         \* the marker cannot be written
                /\ Distrust
                /\ ready' = FALSE /\ pc' = then
                /\ UNCHANGED queue
          /\ UNCHANGED <<dirty, event_epoch, barrier_seen>>
    /\ UNCHANGED <<world, serving, then, barrier_ready, baseline_epoch, validated, scan,
                   response, clients, clean, overflowed, requests, changes, certificates>>

Seen == barrier_seen >= next_barrier

\* Mutant: there is no deadline.
Mut_Endless ==
    /\ pc = "wait"
    /\ watcher_trusted /\ Seen
    /\ ready' = TRUE /\ pc' = then
    /\ UNCHANGED <<world, queue, state, serving, then, barrier_ready, baseline_epoch, validated,
                   scan, response, clients, clean, overflowed, bounds>>
\* The wait ends when the marker is seen, when the watcher is no longer trusted,
\* or with the deadline; without the marker the watcher is distrusted for good.
Wait ==
    /\ pc = "wait"
    /\ IF watcher_trusted /\ Seen
       THEN ready' = TRUE /\ UNCHANGED <<watcher_trusted, cached_noop>>
       ELSE ready' = FALSE /\ Distrust
    /\ pc' = then
    /\ UNCHANGED <<world, queue, dirty, event_epoch, next_barrier, barrier_seen, serving, then,
                   barrier_ready, baseline_epoch, validated, scan, response, clients, clean,
                   overflowed, bounds>>

-----------------------------------------------------------------------------
(* handle(Run): only a plain build asks for the proof.                     *)

Env == asked[serving]
Quiet == UNCHANGED <<world, queue, serving, clients, clean, overflowed, bounds>>

Accept(c) ==
    /\ pc = "accept" /\ client[c] \in {"sent", "resent"}
    /\ serving' = c
    /\ pc' \in {"cached", "child"}      \* a plain build, or any other
    /\ clean' = Certified(certificate, asked[c])
    /\ FreshLocal
    /\ UNCHANGED <<world, queue, state, response, clients, overflowed, bounds>>

Matching ==
    /\ watcher_trusted /\ dirty = {}
    /\ cached_noop # None /\ cached_noop.env = Env

TryCached ==
    /\ pc = "cached"
    /\ IF Matching
       THEN pc' = "recheck" /\ validated' = cached_noop /\ UNCHANGED then
       ELSE Barrier("base") /\ UNCHANGED validated
    /\ UNCHANGED <<state, ready, barrier_ready, baseline_epoch, scan, response>> /\ Quiet

\* check_watch_proof: the certificate is still the same, and the toolchain.
Recheck ==
    /\ pc = "recheck"
    /\ IF certificate # None /\ certificate.serial = validated.serial /\ tool = validated.tool
       THEN Barrier("quick") /\ UNCHANGED cached_noop
       ELSE Barrier("base") /\ cached_noop' = None
    /\ UNCHANGED <<dirty, watcher_trusted, event_epoch, next_barrier, barrier_seen, ready,
                   barrier_ready, baseline_epoch, validated, scan, response>> /\ Quiet

Reply(r) == pc' = "reply" /\ response' = r

StillClean == watcher_trusted /\ dirty = {} /\ cached_noop # None

Quick ==
    /\ pc = "quick"
    /\ IF ready /\ StillClean
       THEN Reply("noop") /\ UNCHANGED then
       ELSE Barrier("base") /\ UNCHANGED response
    /\ UNCHANGED <<state, ready, barrier_ready, baseline_epoch, validated, scan>> /\ Quiet

Base ==
    /\ pc = "base"
    /\ barrier_ready' = ready
    /\ dirty' = IF ready /\ watcher_trusted THEN {} ELSE dirty
    /\ baseline_epoch' = event_epoch
    /\ pc' = "header"
    /\ UNCHANGED <<watcher_trusted, event_epoch, next_barrier, barrier_seen, cached_noop, then,
                   ready, validated, scan, response>> /\ Quiet

\* check_for_daemon: first the certificate, then file by file (the stamp of the
\* graph's sources, which the code looks at here, is one of the files).
Header ==
    /\ pc = "header"
    /\ IF certificate # None /\ certificate.env = Env /\ certificate.tool = tool
       THEN validated' = certificate /\ scan' = DOMAIN certificate.files /\ pc' = "scan"
       ELSE pc' = "child" /\ UNCHANGED <<validated, scan>>
    /\ UNCHANGED <<state, then, ready, barrier_ready, baseline_epoch, response>> /\ Quiet

Scan(p) ==
    /\ pc = "scan" /\ p \in scan
    /\ IF ids[p] = validated.files[p]
       THEN scan' = scan \ {p} /\ UNCHANGED pc
       ELSE pc' = "child" /\ UNCHANGED scan
    /\ UNCHANGED <<state, then, ready, barrier_ready, baseline_epoch, validated, response>>
    /\ Quiet

Scanned ==
    /\ pc = "scan" /\ scan = {}
    /\ IF barrier_ready
       THEN Barrier("settle") /\ UNCHANGED ready
       ELSE pc' = "settle" /\ ready' = FALSE /\ UNCHANGED then
    /\ UNCHANGED <<state, barrier_ready, baseline_epoch, validated, scan, response>> /\ Quiet

\* Mutant: changes during the scan are not looked for.
Mut_NoEpoch == ready /\ watcher_trusted
Unchanged == ready /\ watcher_trusted /\ event_epoch = baseline_epoch

\* Mutant: every certificate makes a proof.
Mut_AnyProof(cert) == cert
\* A proof needs the watcher to see every file.
WatchProof(cert) == IF DOMAIN cert.files \subseteq Watched THEN cert ELSE None

Settle ==
    /\ pc = "settle"
    /\ dirty' = IF Unchanged THEN {} ELSE dirty
    /\ cached_noop' = IF Unchanged THEN WatchProof(validated) ELSE None
    /\ IF ~barrier_ready \/ Unchanged
       THEN Reply("noop")
       ELSE pc' = "child" /\ UNCHANGED response
    /\ UNCHANGED <<watcher_trusted, event_epoch, next_barrier, barrier_seen, local>> /\ Quiet

\* The toolchain cannot be fingerprinted, the store not be collected, or the
\* child not be spawned.
Broken ==
    /\ pc \in {"recheck", "header", "child"}
    /\ Reply("error")
    /\ UNCHANGED <<state, local>> /\ Quiet

\* What the child does to the files and the certificate, others do as well.
ChildExits(success) ==
    /\ pc = "child"
    /\ IF success
       THEN Barrier("ended") /\ UNCHANGED response
       ELSE Reply("failed") /\ UNCHANGED then
    /\ UNCHANGED <<state, ready, barrier_ready, baseline_epoch, validated, scan>> /\ Quiet

Ended ==
    /\ pc = "ended"
    /\ dirty' = {} /\ cached_noop' = None
    /\ Reply("built")
    /\ UNCHANGED <<watcher_trusted, event_epoch, next_barrier, barrier_seen, local>> /\ Quiet

SendReply ==
    /\ pc = "reply"
    /\ client' = [client EXCEPT ![serving] = "idle"]
    /\ asked' = [asked EXCEPT ![serving] = None]
    /\ pc' = "accept" /\ serving' = None /\ response' = None
    /\ clean' = FALSE
    /\ FreshLocal
    /\ UNCHANGED <<world, queue, state, overflowed, bounds>>

-----------------------------------------------------------------------------
(* Clients, and the life of the daemon                                     *)

\* A request that cannot be made, or whose daemon dies, is made once more, after
\* a daemon was started.
Send(c, e) ==
    /\ client[c] = "idle" /\ requests < MaxRequests
    /\ requests' = requests + 1
    /\ asked' = [asked EXCEPT ![c] = e]
    /\ client' = [client EXCEPT ![c] = IF Up THEN "sent" ELSE "starting"]
    /\ UNCHANGED <<world, queue, state, pc, serving, local, response, clean, overflowed,
                   changes, certificates, faults>>

\* daemon start: one that answers is left alone.
StartDaemon(c) ==
    /\ client[c] = "starting"
    /\ client' = [client EXCEPT ![c] = "again"]
    /\ IF Up THEN UNCHANGED <<pc, state>> ELSE pc' = "accept" /\ FreshState
    /\ UNCHANGED <<world, queue, serving, local, response, asked, clean, overflowed, bounds>>

SendAgain(c) ==
    /\ client[c] = "again"
    /\ IF Up
       THEN client' = [client EXCEPT ![c] = "resent"] /\ UNCHANGED asked
       ELSE /\ client' = [client EXCEPT ![c] = "idle"]
            /\ asked' = [asked EXCEPT ![c] = None]
    /\ UNCHANGED <<world, queue, state, pc, serving, local, response, clean, overflowed, bounds>>

\* The daemon dies: killed, stopped, or because a client hung up before its
\* response was written.
Die ==
    /\ Up /\ Fault
    /\ pc' = "down" /\ serving' = None /\ response' = None
    /\ queue' = <<>>
    /\ client' = [c \in Clients |->
          CASE client[c] = "sent" -> "starting" [] client[c] = "resent" -> "idle"
            [] OTHER -> client[c]]
    /\ asked' = [c \in Clients |-> IF client[c] = "resent" THEN None ELSE asked[c]]
    /\ clean' = FALSE
    /\ FreshState /\ FreshLocal
    /\ UNCHANGED <<world, overflowed, requests, changes, certificates>>

Serve ==
    \/ Mark \/ Wait
    \/ \E c \in Clients : Accept(c)
    \/ TryCached \/ Recheck \/ Quick \/ Base \/ Header \/ Scanned \/ Settle \/ Broken
    \/ \E p \in Paths : Scan(p)
    \/ \E success \in BOOLEAN : ChildExits(success)
    \/ Ended \/ SendReply

Next ==
    \/ Serve \/ Deliver
    \/ \E p \in Paths : Change(p)
    \/ \E e \in Envs, paths \in {Watched, Paths} : Certify(e, paths)
    \/ \E t \in Tools : ChangeTool(t)
    \/ WatcherFails \/ Overflow \/ Die
    \/ \E c \in Clients : StartDaemon(c) \/ SendAgain(c) \/ \E e \in Envs : Send(c, e)

Spec == Init /\ [][Next]_vars

\* The thread goes on (its only wait has a deadline, a child ends), and so do
\* clients.
FairSpec ==
    /\ Spec
    /\ WF_vars(Serve)
    /\ \A c \in Clients : WF_vars(StartDaemon(c)) /\ WF_vars(SendAgain(c))
    /\ \A c \in Clients : SF_vars(Accept(c))

-----------------------------------------------------------------------------

TypeOK ==
    /\ ids \in [Paths -> 0..MaxChanges] /\ tool \in Tools
    /\ watcher_trusted \in BOOLEAN /\ event_epoch \in Nat
    /\ barrier_seen \in 0..next_barrier
    /\ \A i \in DOMAIN queue : queue[i].id <= next_barrier
    /\ pc \in {"down", "accept", "cached", "recheck", "mark", "wait", "quick", "base",
               "header", "scan", "settle", "child", "ended", "reply"}
    /\ serving \in Clients \cup {None}
    /\ (serving = None) = (pc \in {"down", "accept"})
    /\ client \in [Clients -> {"idle", "sent", "starting", "again", "resent"}]
    /\ response \in {None, "noop", "built", "failed", "error"}

\* "up to date" is answered only if, at some moment since the request was taken
\* up, everything was as certified for the client's environment: whatever
\* changes while the proof is rechecked, the certificate is scanned file by
\* file, or events are still on their way.  The exception is a watcher that
\* loses events and says so only by an event of kind Other.
AnswersAreTrue ==
    pc = "reply" /\ response = "noop" /\ ~overflowed => clean

\* A proof in memory describes the workspace unless the event that will remove
\* it is on its way.
ProofIsCurrent ==
    cached_noop # None /\ ~overflowed =>
        \/ FilesMatch(cached_noop.files)
        \/ \E i \in DOMAIN queue : queue[i].kind = "path"

\* The daemon neither answers "up to date" nor keeps a proof of it in vain.
AnswersAndProofsAreTrue == AnswersAreTrue /\ ProofIsCurrent

\* A client is answered or gives up, though daemons die, watchers fail and
\* events are lost.
EveryRequestEnds == \A c \in Clients : client[c] # "idle" ~> client[c] = "idle"
=============================================================================
