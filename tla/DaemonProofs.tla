---------------------------- MODULE DaemonProofs ----------------------------
(***************************************************************************)
(* Proofs about Daemon, for any clients, files, environments and tools.    *)
(*                                                                         *)
(* The argument.  Identities of files only grow, so a certificate that     *)
(* matches now has matched ever since it was written, and one that does    *)
(* not never will again (KnownCertificates).  `clean` therefore covers     *)
(* every moment at which a request could be told "up to date"              *)
(* (CleanCovers).  A scan that finds every file as certified shows that    *)
(* all matched when it began (ScanOK); a proof that survives a barrier     *)
(* matched when the marker was written, because the marker is behind       *)
(* every event of an earlier change (QuickOK).                             *)
(***************************************************************************)
EXTENDS Daemon, TLAPS

Events == [kind : {"path", "error", "rescan", "marker"}, id : Nat]
Continuations == {"quick", "base", "settle", "ended"}

\* Where the thread is while it waits for the barrier of `next`, or just after.
At(next) == pc = next \/ (pc \in {"mark", "wait"} /\ then = next)

\* Types, and what TypeOK leaves out of them.
WorldOK ==
    /\ ids \in [Paths -> 0..MaxChanges] /\ tool \in Tools
    /\ changes \in 0..MaxChanges /\ certificates \in Nat
    /\ \A p \in Paths : ids[p] <= changes

QueueOK ==
    /\ queue \in Seq(Events)
    /\ next_barrier \in Nat /\ barrier_seen \in 0..next_barrier
    /\ \A i \in 1..Len(queue) : queue[i].id <= next_barrier

ThreadOK ==
    /\ watcher_trusted \in BOOLEAN /\ event_epoch \in Nat
    /\ pc \in {"down", "accept", "cached", "recheck", "mark", "wait", "quick", "base",
               "header", "scan", "settle", "child", "ended", "reply"}
    /\ serving \in Clients \cup {None}
    /\ (serving = None) = (pc \in {"down", "accept"})
    /\ pc \in {"mark", "wait"} => then \in Continuations
    /\ response \in {None, "noop", "built", "failed", "error"}
    /\ ready \in BOOLEAN /\ barrier_ready \in BOOLEAN
    /\ clean \in BOOLEAN /\ overflowed \in BOOLEAN

ClientsOK ==
    /\ client \in [Clients -> {"idle", "sent", "starting", "again", "resent"}]
    /\ asked \in [Clients -> Envs \cup {None}]

TypesOK == WorldOK /\ QueueOK /\ ThreadOK /\ ClientsOK

\* A daemon that is not there has no events and no proof.
DownIsFresh == pc = "down" => queue = <<>> /\ cached_noop = None

\* The client that is served waits for its answer.
ServedWaits == serving # None => client[serving] \in {"sent", "resent"}

\* A certificate anybody has is one of the n written so far, and was taken of
\* identities among the m given so far.
IsCertificate(cert, n, m) ==
    /\ cert.serial \in 0..(n - 1)
    /\ DOMAIN cert.files \subseteq Paths
    /\ \A p \in DOMAIN cert.files : cert.files[p] \in 0..m

\* The certificates in memory are certificates, and one with the serial of the
\* file is the file's.
KnownCertificates ==
    /\ certificate # None => IsCertificate(certificate, certificates, changes)
    /\ \A cert \in {cached_noop, validated} : cert # None =>
          /\ IsCertificate(cert, certificates, changes)
          /\ certificate # None /\ cert.serial = certificate.serial
                => cert = certificate

\* A proof is about files that the watcher sees.
ProofIsWatched == cached_noop # None => DOMAIN cached_noop.files \subseteq Watched

\* No moment at which the workspace is as certified is missed.
CleanCovers == serving # None /\ Certified(certificate, Env) => clean

PathQueued == \E i \in 1..Len(queue) : queue[i].kind = "path"

\* An event of an earlier change is before the marker that is waited for.
PathBeforeMarker ==
    /\ barrier_seen < next_barrier
    /\ \E i \in 1..Len(queue) :
          /\ queue[i].kind = "path"
          /\ \A j \in 1..(i - 1) : queue[j].id < next_barrier

\* The way of the proof that was in memory.
QuickOK ==
    /\ pc = "recheck" =>
          /\ validated # None /\ validated.env = Env
          /\ cached_noop \in {None, validated}
    /\ cached_noop # None /\ ~overflowed =>
          /\ pc = "mark" /\ then = "quick" => clean \/ PathQueued
          /\ pc = "wait" /\ then = "quick" => clean \/ PathBeforeMarker
          /\ pc = "quick" /\ ready => clean

\* The way of the certificate.
ScanOK ==
    /\ pc = "header" \/ pc = "scan" \/ At("settle") => baseline_epoch <= event_epoch
    /\ baseline_epoch \in Nat
    /\ pc = "scan" =>
          /\ scan \subseteq DOMAIN validated.files
          /\ clean \/ \E p \in scan : ids[p] # validated.files[p]
    /\ At("settle") => clean /\ scan = {}
    /\ pc = "scan" \/ At("settle") => validated # None
    /\ (pc = "scan" \/ At("settle")) /\ event_epoch = baseline_epoch /\ ~overflowed =>
          \/ \A p \in (DOMAIN validated.files \cap Watched) \ scan :
                ids[p] = validated.files[p]
          \/ PathQueued

IInv ==
    /\ TypesOK
    /\ DownIsFresh
    /\ ServedWaits
    /\ KnownCertificates
    /\ ProofIsWatched
    /\ CleanCovers
    /\ QuickOK
    /\ ScanOK
    /\ AnswersAndProofsAreTrue

-----------------------------------------------------------------------------

\* The parts make up TypeOK.
LEMMA TypesImplyTypeOK == TypesOK => TypeOK
BY DEF TypesOK, WorldOK, QueueOK, ThreadOK, ClientsOK, TypeOK

\* Initially there is no daemon and nobody has asked for anything.
LEMMA InitIInv == ASSUME Init PROVE IInv
<1> USE DEF Init
<1>1. WorldOK
  BY BoundsAssumption, DaemonAssumption DEF WorldOK
<1>2. QueueOK
  BY DEF QueueOK
<1>3. ThreadOK /\ ClientsOK
  BY DEF ThreadOK, ClientsOK
<1>4. DownIsFresh /\ ServedWaits /\ KnownCertificates /\ ProofIsWatched
  BY DEF DownIsFresh, ServedWaits, KnownCertificates, ProofIsWatched
<1>5. CleanCovers /\ QuickOK /\ ScanOK /\ AnswersAndProofsAreTrue
  BY DEF CleanCovers, QuickOK, ScanOK, At, AnswersAndProofsAreTrue, AnswersAreTrue,
         ProofIsCurrent
<1> QED BY <1>1, <1>2, <1>3, <1>4, <1>5 DEF IInv, TypesOK

\* What an event that is emitted does to the queue.
LEMMA EmitFacts ==
    ASSUME queue \in Seq(Events), NEW event \in Events, Emit(event)
    PROVE  /\ queue' \in Seq(Events)
           /\ Up => /\ Len(queue') = Len(queue) + 1
                    /\ queue'[Len(queue')] = event
           /\ ~Up => queue' = queue
           /\ Len(queue) \in Nat /\ Len(queue) <= Len(queue')
           /\ \A i \in 1..Len(queue) : queue'[i] = queue[i]
<1>1. CASE Up
  BY <1>1 DEF Emit
<1>2. CASE ~Up
  BY <1>2 DEF Emit
<1> QED BY <1>1, <1>2

\* What the delivery of the first event does to it.
LEMMA TailFacts ==
    ASSUME queue \in Seq(Events), queue # <<>>, queue' = Tail(queue)
    PROVE  /\ queue' \in Seq(Events)
           /\ Len(queue) \in Nat \ {0} /\ Len(queue') = Len(queue) - 1
           /\ \A i \in 1..Len(queue') : queue'[i] = queue[i + 1]
           /\ Head(queue) = queue[1] /\ queue[1] \in Events
<1>1. Len(queue) \in Nat \ {0}
  OBVIOUS
<1>2. queue' \in Seq(Events)
  OBVIOUS
<1>3. Len(queue') = Len(queue) - 1 /\ \A i \in 1..Len(queue') : queue'[i] = queue[i + 1]
  BY <1>1
<1>4. Head(queue) = queue[1] /\ queue[1] \in Events
  BY <1>1
<1> QED BY <1>1, <1>2, <1>3, <1>4

-----------------------------------------------------------------------------
(* Types.                                                                  *)

\* Only three actions change the world.
LEMMA WorldFrame ==
    ASSUME [Next]_vars
    PROVE  \/ \E p \in Paths : Change(p)
           \/ \E e \in Envs, paths \in {Watched, Paths} : Certify(e, paths)
           \/ \E t \in Tools : ChangeTool(t)
           \/ UNCHANGED <<world, changes, certificates>>
<1>1. CASE Serve
  BY <1>1 DEF Serve, Mark, Wait, Accept, TryCached, Recheck, Quick, Base, Header, Scanned,
              Settle, Broken, Scan, ChildExits, Ended, SendReply, Quiet, bounds
<1>2. CASE Deliver \/ WatcherFails \/ Overflow \/ Die
  BY <1>2 DEF Deliver, WatcherFails, Overflow, Die, bounds
<1>3. ASSUME NEW c \in Clients,
             StartDaemon(c) \/ SendAgain(c) \/ \E e \in Envs : Send(c, e)
      PROVE  UNCHANGED <<world, changes, certificates>>
  BY <1>3 DEF StartDaemon, SendAgain, Send, bounds
<1>4. CASE UNCHANGED vars
  BY <1>4 DEF vars, bounds
<1> QED BY <1>1, <1>2, <1>3, <1>4 DEF Next

\* Files and toolchain.
LEMMA WorldStep == ASSUME WorldOK, [Next]_vars PROVE WorldOK'
<1> USE DEF WorldOK
<1>1. ASSUME NEW p \in Paths, Change(p) PROVE WorldOK'
  BY <1>1, BoundsAssumption DEF Change
<1>2. ASSUME NEW e \in Envs, NEW paths \in {Watched, Paths}, Certify(e, paths)
      PROVE  WorldOK'
  BY <1>2 DEF Certify
<1>3. ASSUME NEW t \in Tools, ChangeTool(t) PROVE WorldOK'
  BY <1>3, BoundsAssumption DEF ChangeTool
<1>4. CASE UNCHANGED <<world, changes, certificates>>
  BY <1>4 DEF world
<1> QED BY <1>1, <1>2, <1>3, <1>4, WorldFrame

\* The steps that leave the events and the barriers alone.
Eventless ==
    \/ Wait \/ \E c \in Clients : Accept(c) \/ SendAgain(c) \/ \E e \in Envs : Send(c, e)
    \/ TryCached \/ Recheck \/ Quick \/ Base \/ Header \/ Scanned \/ Settle \/ Broken
    \/ \E p \in Paths : Scan(p)
    \/ \E success \in BOOLEAN : ChildExits(success)
    \/ Ended \/ SendReply
    \/ \E t \in Tools : ChangeTool(t)

\* They leave them alone indeed.
LEMMA EventlessFrame ==
    ASSUME Eventless \/ UNCHANGED vars
    PROVE  UNCHANGED <<queue, next_barrier, barrier_seen, overflowed>>
<1>1. CASE Wait \/ TryCached \/ Recheck \/ Quick \/ Base \/ Header
  BY <1>1 DEF Wait, TryCached, Recheck, Quick, Base, Header, Quiet, state
<1>2. CASE Scanned \/ Settle \/ Broken \/ Ended \/ SendReply
  BY <1>2 DEF Scanned, Settle, Broken, Ended, SendReply, Quiet, state
<1>3. ASSUME NEW c \in Clients, Accept(c) \/ SendAgain(c) \/ \E e \in Envs : Send(c, e)
      PROVE  UNCHANGED <<queue, next_barrier, barrier_seen, overflowed>>
  BY <1>3 DEF Accept, SendAgain, Send, state
<1>4. ASSUME NEW p \in Paths, Scan(p)
      PROVE  UNCHANGED <<queue, next_barrier, barrier_seen, overflowed>>
  BY <1>4 DEF Scan, Quiet, state
<1>5. ASSUME NEW t \in Tools, ChangeTool(t)
      PROVE  UNCHANGED <<queue, next_barrier, barrier_seen, overflowed>>
  BY <1>5 DEF ChangeTool, state
<1>6. ASSUME NEW success \in BOOLEAN, ChildExits(success)
      PROVE  UNCHANGED <<queue, next_barrier, barrier_seen, overflowed>>
  BY <1>6 DEF ChildExits, Quiet, state
<1>7. CASE UNCHANGED vars
  BY <1>7 DEF vars, state
<1> QED BY <1>1, <1>2, <1>3, <1>4, <1>5, <1>6, <1>7 DEF Eventless

\* Events and barriers.
LEMMA QueueStep ==
    ASSUME QueueOK, DownIsFresh, [Next]_vars
    PROVE  QueueOK'
<1>1. CASE Eventless \/ UNCHANGED vars
  BY <1>1, EventlessFrame DEF QueueOK
<1>2. ASSUME NEW event \in Events, Emit(event), event.id <= next_barrier',
             next_barrier' \in {next_barrier, next_barrier + 1},
             barrier_seen' = barrier_seen
      PROVE  QueueOK'
  <2>1. /\ queue' \in Seq(Events) /\ Len(queue) \in Nat
        /\ queue' = queue \/ (Len(queue') = Len(queue) + 1 /\ queue'[Len(queue')] = event)
        /\ \A i \in 1..Len(queue) : queue'[i] = queue[i]
    BY <1>2, EmitFacts DEF QueueOK
  <2>2. next_barrier \in Nat /\ barrier_seen \in 0..next_barrier
    BY DEF QueueOK
  <2>3. ASSUME NEW i \in 1..Len(queue') PROVE queue'[i].id <= next_barrier'
    <3>1. CASE i \in 1..Len(queue)
      <4>1. queue[i].id <= next_barrier /\ queue[i] \in Events
        BY <3>1 DEF QueueOK
      <4>2. queue[i].id \in Nat
        BY <4>1 DEF Events
      <4> QED BY <3>1, <4>1, <4>2, <2>1, <2>2, <1>2
    <3>2. CASE i \notin 1..Len(queue)
      <4>1. i = Len(queue') /\ queue'[i] = event
        BY <3>2, <2>1
      <4> QED BY <4>1, <1>2
    <3> QED BY <3>1, <3>2
  <2> QED BY <2>1, <2>2, <2>3, <1>2 DEF QueueOK
<1>3. Event("path") \in Events /\ Event("error") \in Events /\ Event("rescan") \in Events
  BY DEF Event, Events
<1>4. Event("path").id = 0 /\ Event("error").id = 0 /\ Event("rescan").id = 0
  BY DEF Event
<1>5. ASSUME NEW p \in Paths, Change(p) PROVE QueueOK'
  <2>1. CASE p \in Watched
    <3>1. Emit(Event("path")) /\ UNCHANGED <<next_barrier, barrier_seen>>
      BY <1>5, <2>1 DEF Change, state
    <3> QED BY <3>1, <1>2, <1>3, <1>4 DEF QueueOK
  <2>2. CASE p \notin Watched
    BY <1>5, <2>2 DEF Change, state, QueueOK
  <2> QED BY <2>1, <2>2
<1>6. ASSUME NEW e \in Envs, NEW paths \in {Watched, Paths}, Certify(e, paths)
      PROVE  QueueOK'
  BY <1>6, <1>2, <1>3, <1>4 DEF Certify, state, QueueOK
<1>7. CASE WatcherFails
  BY <1>7, <1>2, <1>3, <1>4 DEF WatcherFails, state, QueueOK
<1>8. CASE Overflow
  <2>1. queue' = <<Event("rescan")>> /\ UNCHANGED <<next_barrier, barrier_seen>>
    BY <1>8 DEF Overflow, state
  <2> QED BY <2>1, <1>3, <1>4 DEF QueueOK
<1>9. CASE Deliver
  <2>1. /\ queue' \in Seq(Events) /\ Len(queue) \in Nat \ {0}
        /\ Len(queue') = Len(queue) - 1
        /\ \A i \in 1..Len(queue') : queue'[i] = queue[i + 1]
        /\ Head(queue) = queue[1] /\ queue[1] \in Events
    BY <1>9, TailFacts DEF QueueOK, Deliver
  <2>2. next_barrier' = next_barrier
        /\ (barrier_seen' = barrier_seen \/ barrier_seen' = queue[1].id)
    BY <1>9, <2>1 DEF Deliver, state
  <2>3. queue[1].id \in 0..next_barrier
    BY <2>1 DEF QueueOK, Events
  <2>4. \A i \in 1..Len(queue') : queue'[i].id <= next_barrier'
    BY <2>1, <2>2 DEF QueueOK
  <2> QED BY <2>1, <2>2, <2>3, <2>4 DEF QueueOK
<1>10. CASE Mark
  <2>1. CASE ~watcher_trusted
    BY <1>10, <2>1 DEF Mark, state, QueueOK
  <2>2. CASE watcher_trusted
    <3>1. next_barrier' = next_barrier + 1 /\ barrier_seen' = barrier_seen
      BY <1>10, <2>2 DEF Mark
    <3>2. Marker(next_barrier') \in Events /\ Marker(next_barrier').id = next_barrier'
      BY <3>1 DEF Marker, Events, QueueOK
    <3>3. CASE queue' = queue
      <4>1. \A i \in 1..Len(queue) : queue[i] \in Events
        BY DEF QueueOK
      <4>2. \A i \in 1..Len(queue) : queue[i].id \in Nat
        BY <4>1 DEF Events
      <4> QED BY <4>2, <3>1, <3>3 DEF QueueOK
    <3>4. CASE Emit(Marker(next_barrier'))
      <4>1. next_barrier' \in Nat
        BY <3>1 DEF QueueOK
      <4> QED BY <4>1, <3>1, <3>2, <3>4, <1>2
    <3> QED BY <1>10, <2>2, <3>3, <3>4 DEF Mark
  <2> QED BY <2>1, <2>2
<1>11. ASSUME NEW c \in Clients, StartDaemon(c) PROVE QueueOK'
  BY <1>11 DEF StartDaemon, FreshState, state, Up, DownIsFresh, QueueOK
<1>12. CASE Die
  BY <1>12 DEF Die, FreshState, QueueOK
<1> QED BY <1>1, <1>5, <1>6, <1>7, <1>8, <1>9, <1>10, <1>11, <1>12
        DEF Next, Serve, Eventless

\* The thread.
LEMMA ThreadStep == ASSUME ThreadOK, [Next]_vars PROVE ThreadOK'
<1> USE DEF ThreadOK, Quiet, state, local, Reply, Barrier, Continuations
<1>1. CASE TryCached \/ Recheck \/ Quick
  BY <1>1 DEF TryCached, Recheck, Quick
<1>2. CASE Base
  BY <1>2 DEF Base
<1>3. CASE Header
  BY <1>3 DEF Header
<1>4. CASE Scanned
  <2>1. CASE barrier_ready
    BY <1>4, <2>1 DEF Scanned
  <2>2. CASE ~barrier_ready
    <3>1. /\ pc = "scan" /\ pc' = "settle" /\ ready' = FALSE
          /\ UNCHANGED <<watcher_trusted, event_epoch, serving, response, barrier_ready,
                         clean, overflowed>>
      BY <1>4, <2>2 DEF Scanned
    <3>2. serving' \in Clients /\ serving' # None
      BY <3>1
    <3>3. clean' \in BOOLEAN /\ overflowed' \in BOOLEAN /\ barrier_ready' \in BOOLEAN
      BY <3>1
    <3>4. response' \in {None, "noop", "built", "failed", "error"}
          /\ watcher_trusted' \in BOOLEAN /\ event_epoch' \in Nat
      BY <3>1
    <3>5. (serving' = None) = (pc' \in {"down", "accept"})
      BY <3>1, <3>2
    <3> QED BY <3>1, <3>2, <3>3, <3>4, <3>5
  <2> QED BY <2>1, <2>2
<1>5. CASE Settle
  BY <1>5 DEF Settle
<1>6. CASE Broken \/ Ended
  BY <1>6 DEF Broken, Ended
<1>7. ASSUME NEW p \in Paths, Scan(p) PROVE ThreadOK'
  BY <1>7 DEF Scan
<1>8. CASE Wait
  <2>1. pc' = then /\ then \in Continuations /\ serving # None
    BY <1>8 DEF Wait
  <2>2. ready' \in BOOLEAN /\ watcher_trusted' \in BOOLEAN
    BY <1>8 DEF Wait, Distrust
  <2> QED BY <1>8, <2>1, <2>2 DEF Wait
<1>9. ASSUME NEW success \in BOOLEAN, ChildExits(success) PROVE ThreadOK'
  BY <1>9 DEF ChildExits
<1>10. CASE Mark
  <2>1. /\ pc' = "wait" \/ pc' = then
        /\ serving # None /\ then \in Continuations
        /\ UNCHANGED <<serving, then, barrier_ready, response, clean, overflowed>>
    BY <1>10 DEF Mark
  <2>2. ready' \in BOOLEAN /\ watcher_trusted' \in BOOLEAN /\ event_epoch' = event_epoch
    BY <1>10 DEF Mark, Distrust
  <2> QED BY <2>1, <2>2
<1>11. ASSUME NEW c \in Clients, Accept(c) PROVE ThreadOK'
  <2>1. clean' \in BOOLEAN
    BY <1>11 DEF Accept, Certified, FilesMatch
  <2>2. /\ serving' = c /\ c # None /\ pc' \in {"cached", "child"}
        /\ ready' = FALSE /\ barrier_ready' = FALSE
        /\ UNCHANGED <<watcher_trusted, event_epoch, response, overflowed>>
    BY <1>11, NoneAssumption DEF Accept, FreshLocal
  <2>3. (serving' = None) = (pc' \in {"down", "accept"})
    BY <2>2
  <2> QED BY <2>1, <2>2, <2>3
<1>12. CASE SendReply
  BY <1>12 DEF SendReply, FreshLocal
<1>13. CASE Die
  BY <1>13 DEF Die, FreshState, FreshLocal
<1>14. ASSUME NEW c \in Clients, StartDaemon(c) PROVE ThreadOK'
  <2>1. UNCHANGED <<serving, response, then, ready, barrier_ready, clean, overflowed>>
    BY <1>14 DEF StartDaemon
  <2>2. CASE Up
    BY <1>14, <2>1, <2>2 DEF StartDaemon
  <2>3. CASE ~Up
    <3>1. pc = "down" /\ pc' = "accept" /\ watcher_trusted' = TRUE /\ event_epoch' = 0
      BY <1>14, <2>3 DEF StartDaemon, FreshState, Up
    <3> QED BY <2>1, <3>1
  <2> QED BY <2>2, <2>3
<1>15. ASSUME NEW c \in Clients, SendAgain(c) \/ \E e \in Envs : Send(c, e)
       PROVE  ThreadOK'
  BY <1>15 DEF SendAgain, Send
<1>16. CASE Deliver
  <2>1. watcher_trusted' \in BOOLEAN /\ event_epoch' \in Nat
    <3> HIDE DEF ThreadOK
    <3>0. watcher_trusted \in BOOLEAN /\ event_epoch \in Nat
      BY DEF ThreadOK
    <3>1. watcher_trusted' = FALSE \/ watcher_trusted' = watcher_trusted
      BY <1>16 DEF Deliver
    <3>2. event_epoch' = event_epoch + 1 \/ event_epoch' = event_epoch
      BY <1>16 DEF Deliver
    <3>3. watcher_trusted' \in BOOLEAN
      BY <3>0, <3>1
    <3>4. event_epoch' \in Nat
      BY <3>0, <3>2
    <3> QED BY <3>3, <3>4
  <2>2. UNCHANGED <<pc, serving, response, then, ready, barrier_ready, clean, overflowed>>
    BY <1>16 DEF Deliver
  <2> QED BY <2>1, <2>2
<1>17. CASE WatcherFails \/ Overflow \/ \E p \in Paths : Change(p)
  BY <1>17 DEF WatcherFails, Overflow, Change
<1>18. ASSUME NEW e \in Envs, NEW paths \in {Watched, Paths}, Certify(e, paths)
       PROVE  ThreadOK'
  BY <1>18 DEF Certify
<1>19. ASSUME NEW t \in Tools, ChangeTool(t) PROVE ThreadOK'
  BY <1>19 DEF ChangeTool
<1>20. CASE UNCHANGED vars
  BY <1>20 DEF vars
<1> QED BY <1>1, <1>2, <1>3, <1>4, <1>5, <1>6, <1>7, <1>8, <1>9, <1>10, <1>11, <1>12,
           <1>13, <1>14, <1>15, <1>16, <1>17, <1>18, <1>19, <1>20 DEF Next, Serve

\* Clients act by themselves, by being answered, or when the daemon dies.
LEMMA ClientsFrame ==
    ASSUME [Next]_vars
    PROVE  \/ \E c \in Clients : StartDaemon(c) \/ SendAgain(c) \/ \E e \in Envs : Send(c, e)
           \/ SendReply \/ Die \/ \E c \in Clients : Accept(c)
           \/ UNCHANGED <<client, asked, serving>>
<1> USE DEF clients
<1>1. CASE Serve
  BY <1>1 DEF Serve, Mark, Wait, TryCached, Recheck, Quick, Base, Header, Scanned,
              Settle, Broken, Scan, ChildExits, Ended, Quiet
<1>2. CASE Deliver \/ WatcherFails \/ Overflow \/ \E p \in Paths : Change(p)
  BY <1>2 DEF Deliver, WatcherFails, Overflow, Change
<1>3. ASSUME NEW e \in Envs, NEW paths \in {Watched, Paths}, Certify(e, paths)
      PROVE  UNCHANGED <<client, asked, serving>>
  BY <1>3 DEF Certify
<1>4. ASSUME NEW t \in Tools, ChangeTool(t) PROVE UNCHANGED <<client, asked, serving>>
  BY <1>4 DEF ChangeTool
<1>5. CASE UNCHANGED vars
  BY <1>5 DEF vars
<1> QED BY <1>1, <1>2, <1>3, <1>4, <1>5 DEF Next

\* The clients; the one that is served keeps waiting, for what it asked.
LEMMA ClientsStep ==
    ASSUME ThreadOK, ClientsOK, ServedWaits, [Next]_vars
    PROVE  /\ ClientsOK' /\ ServedWaits'
           /\ serving # None /\ serving' # None => serving' = serving /\ Env' = Env
<1> USE DEF ClientsOK, ServedWaits, Env
<1>1. ASSUME NEW c \in Clients, StartDaemon(c)
      PROVE  ClientsOK' /\ ServedWaits' /\ serving' = serving /\ asked' = asked
  BY <1>1 DEF StartDaemon, ThreadOK
<1>2. ASSUME NEW c \in Clients, SendAgain(c) \/ \E e \in Envs : Send(c, e)
      PROVE  /\ ClientsOK' /\ ServedWaits' /\ serving' = serving
             /\ serving # None => Env' = Env
  <2>1. serving' = serving /\ \A d \in Clients \ {c} : client'[d] = client[d] /\ asked'[d] = asked[d]
    BY <1>2 DEF SendAgain, Send
  <2>2. ClientsOK' /\ client[c] \in {"again", "idle"}
    BY <1>2 DEF SendAgain, Send
  <2>3. serving # None => serving \in Clients \ {c}
    BY <2>2 DEF ThreadOK
  <2> QED BY <2>1, <2>2, <2>3
<1>3. CASE SendReply
  BY <1>3 DEF SendReply, ThreadOK
<1>4. CASE Die
  <2>1. serving' = None
    BY <1>4 DEF Die
  <2>2. client' \in [Clients -> {"idle", "sent", "starting", "again", "resent"}]
    BY <1>4 DEF Die
  <2>3. asked' \in [Clients -> Envs \cup {None}]
    BY <1>4 DEF Die
  <2> QED BY <2>1, <2>2, <2>3
<1>5. ASSUME NEW c \in Clients, Accept(c)
      PROVE  ClientsOK' /\ ServedWaits' /\ serving = None
  BY <1>5 DEF Accept, clients, ThreadOK
<1>6. CASE UNCHANGED <<client, asked, serving>>
  BY <1>6
<1> QED BY <1>1, <1>2, <1>3, <1>4, <1>5, <1>6, ClientsFrame

-----------------------------------------------------------------------------
(* Certificates.                                                           *)

\* A proof comes from a settled scan and is dropped by whatever changes it.
LEMMA CachedFrame ==
    ASSUME [Next]_vars
    PROVE  \/ /\ Settle /\ Unchanged /\ cached_noop' = validated
              /\ DOMAIN validated.files \subseteq Watched
           \/ cached_noop' \in {None, cached_noop}
<1> USE DEF state
<1>1. CASE Settle
  BY <1>1 DEF Settle, WatchProof
<1>2. CASE Serve /\ ~Settle
  BY <1>2 DEF Serve, Mark, Wait, Accept, TryCached, Recheck, Quick, Base, Header, Scanned,
              Broken, Scan, ChildExits, Ended, SendReply, Distrust
<1>3. CASE Deliver
  BY <1>3 DEF Deliver
<1>4. CASE WatcherFails \/ Overflow \/ Die
  BY <1>4 DEF WatcherFails, Overflow, Die, FreshState
<1>5. ASSUME NEW p \in Paths, Change(p) PROVE cached_noop' = cached_noop
  BY <1>5 DEF Change
<1>6. ASSUME NEW e \in Envs, NEW paths \in {Watched, Paths}, Certify(e, paths)
      PROVE  cached_noop' = cached_noop
  BY <1>6 DEF Certify
<1>7. ASSUME NEW t \in Tools, ChangeTool(t) PROVE cached_noop' = cached_noop
  BY <1>7 DEF ChangeTool
<1>8. ASSUME NEW c \in Clients,
             StartDaemon(c) \/ SendAgain(c) \/ \E e \in Envs : Send(c, e)
      PROVE  cached_noop' \in {None, cached_noop}
  BY <1>8 DEF StartDaemon, SendAgain, Send, FreshState
<1>9. CASE UNCHANGED vars
  BY <1>9 DEF vars
<1> QED BY <1>1, <1>2, <1>3, <1>4, <1>5, <1>6, <1>7, <1>8, <1>9 DEF Next

\* The certificate a request is about is the one of the proof or of the file.
LEMMA ValidatedFrame ==
    ASSUME [Next]_vars
    PROVE  /\ validated' \in {None, validated, cached_noop, certificate}
           /\ TryCached \/ Header \/ validated' \in {None, validated}
<1> USE DEF local
<1>1. CASE TryCached
  BY <1>1 DEF TryCached
<1>2. CASE Header
  BY <1>2 DEF Header
<1>3. CASE Serve /\ ~TryCached /\ ~Header
  BY <1>3 DEF Serve, Mark, Wait, Accept, Recheck, Quick, Base, Scanned, Settle,
              Broken, Scan, ChildExits, Ended, SendReply, FreshLocal
<1>4. CASE Deliver \/ WatcherFails \/ Overflow \/ Die
  BY <1>4 DEF Deliver, WatcherFails, Overflow, Die, FreshLocal
<1>5. ASSUME NEW p \in Paths, Change(p) PROVE validated' = validated
  BY <1>5 DEF Change
<1>6. ASSUME NEW e \in Envs, NEW paths \in {Watched, Paths}, Certify(e, paths)
      PROVE  validated' = validated
  BY <1>6 DEF Certify
<1>7. ASSUME NEW t \in Tools, ChangeTool(t) PROVE validated' = validated
  BY <1>7 DEF ChangeTool
<1>8. ASSUME NEW c \in Clients,
             StartDaemon(c) \/ SendAgain(c) \/ \E e \in Envs : Send(c, e)
      PROVE  validated' = validated
  BY <1>8 DEF StartDaemon, SendAgain, Send
<1>9. CASE UNCHANGED vars
  BY <1>9 DEF vars
<1> QED BY <1>1, <1>2, <1>3, <1>4, <1>5, <1>6, <1>7, <1>8, <1>9 DEF Next

\* Certificates stay certificates, and serials tell them apart.
LEMMA CertificatesStep ==
    ASSUME WorldOK, KnownCertificates, [Next]_vars
    PROVE  KnownCertificates'
<1>1. /\ certificates \in Nat /\ changes \in Nat
      /\ certificates' \in Nat /\ changes' \in Nat
  BY WorldStep, BoundsAssumption DEF WorldOK
<1>2. certificates' >= certificates /\ changes' >= changes
  BY <1>1, WorldFrame DEF Change, Certify, ChangeTool
<1>3. ASSUME NEW cert, IsCertificate(cert, certificates, changes)
      PROVE  IsCertificate(cert, certificates', changes')
  BY <1>1, <1>2, <1>3 DEF IsCertificate
<1>4. certificate' # None => IsCertificate(certificate', certificates', changes')
  <2>1. CASE certificate' = certificate
    BY <2>1, <1>3 DEF KnownCertificates
  <2>2. ASSUME NEW e \in Envs, NEW paths \in {Watched, Paths}, Certify(e, paths)
        PROVE  IsCertificate(certificate', certificates', changes')
    <3>1. /\ certificate'.serial = certificates
          /\ certificate'.files = [p \in paths |-> ids[p]]
          /\ certificates' = certificates + 1 /\ changes' = changes
      BY <2>2 DEF Certify
    <3>2. paths \subseteq Paths
      BY DEF Paths
    <3>3. \A p \in Paths : ids[p] \in 0..changes
      BY <1>1 DEF WorldOK
    <3> QED BY <3>1, <3>2, <3>3, <1>1 DEF IsCertificate
  <2> QED BY <2>1, <2>2, WorldFrame DEF Change, ChangeTool, world
<1>5. ASSUME NEW cert \in {cached_noop, validated, certificate}, cert # None
      PROVE  /\ IsCertificate(cert, certificates', changes')
             /\ certificate' # None /\ cert.serial = certificate'.serial
                   => cert = certificate'
  <2>1. /\ IsCertificate(cert, certificates, changes)
        /\ certificate # None /\ cert.serial = certificate.serial
              => cert = certificate
    BY <1>5 DEF KnownCertificates
  <2>2. CASE certificate' = certificate
    BY <2>1, <2>2, <1>3
  <2>3. ASSUME NEW e \in Envs, NEW paths \in {Watched, Paths}, Certify(e, paths)
        PROVE  cert.serial # certificate'.serial
    <3>1. certificate'.serial = certificates
      BY <2>3 DEF Certify
    <3> QED BY <3>1, <2>1, <1>1 DEF IsCertificate
  <2> QED BY <2>1, <2>2, <2>3, <1>3, WorldFrame DEF Change, ChangeTool, world
<1>6. /\ cached_noop' \in {None, cached_noop, validated}
      /\ validated' \in {None, validated, cached_noop, certificate}
  BY CachedFrame, ValidatedFrame
<1> QED BY <1>4, <1>5, <1>6 DEF KnownCertificates

\* Without a daemon nothing is queued and nothing is known.
LEMMA DownStep ==
    ASSUME ThreadOK, DownIsFresh, [Next]_vars
    PROVE  DownIsFresh'
<1>1. CASE Die
  BY <1>1 DEF Die, FreshState, DownIsFresh
<1>2. CASE pc' # "down"
  BY <1>2 DEF DownIsFresh
<1>3. CASE pc' = "down" /\ ~Die
  <2>1. pc = "down"
    <3>1. CASE Serve
      BY <1>3, <3>1 DEF Serve, Mark, Wait, Accept, TryCached, Recheck, Quick, Base, Header,
             Scanned, Settle, Broken, Scan, ChildExits, Ended, SendReply, Barrier, Reply,
             ThreadOK, Continuations
    <3>2. CASE Deliver \/ WatcherFails \/ Overflow \/ \E p \in Paths : Change(p)
      BY <1>3, <3>2 DEF Deliver, WatcherFails, Overflow, Change
    <3>3. ASSUME NEW e \in Envs, NEW paths \in {Watched, Paths}, Certify(e, paths)
          PROVE  pc = "down"
      BY <1>3, <3>3 DEF Certify
    <3>4. ASSUME NEW t \in Tools, ChangeTool(t) PROVE pc = "down"
      BY <1>3, <3>4 DEF ChangeTool
    <3>5. ASSUME NEW c \in Clients,
                 StartDaemon(c) \/ SendAgain(c) \/ \E e \in Envs : Send(c, e)
          PROVE  pc = "down"
      BY <1>3, <3>5 DEF StartDaemon, SendAgain, Send
    <3>6. CASE UNCHANGED vars
      BY <1>3, <3>6 DEF vars
    <3> QED BY <1>3, <3>1, <3>2, <3>3, <3>4, <3>5, <3>6 DEF Next
  <2>2. queue = <<>> /\ cached_noop = None /\ ~Up
    BY <2>1 DEF DownIsFresh, Up
  <2>3. queue' = queue
    <3>1. \A event : Emit(event) => queue' = queue
      BY <2>2 DEF Emit
    <3>2. CASE \E p \in Paths : Change(p)
      BY <3>1, <3>2 DEF Change
    <3>3. CASE \E e \in Envs, paths \in {Watched, Paths} : Certify(e, paths)
      BY <3>1, <3>3 DEF Certify
    <3>4. CASE Eventless \/ UNCHANGED vars
      BY <3>4, EventlessFrame
    <3>5. ~Deliver /\ ~WatcherFails /\ ~Overflow /\ ~Mark
      BY <2>1, <2>2 DEF Deliver, WatcherFails, Overflow, Mark
    <3>6. ASSUME NEW c \in Clients, StartDaemon(c) PROVE queue' = queue
      BY <3>6 DEF StartDaemon
    <3> QED BY <1>3, <3>2, <3>3, <3>4, <3>5, <3>6 DEF Next, Serve, Eventless
  <2>4. cached_noop' = None
    BY <2>1, <2>2, CachedFrame DEF Settle
  <2> QED BY <2>2, <2>3, <2>4 DEF DownIsFresh
<1> QED BY <1>1, <1>2, <1>3

\* A proof is only made of a certificate of watched files.
LEMMA WatchedStep == ASSUME ProofIsWatched, [Next]_vars PROVE ProofIsWatched'
BY CachedFrame DEF ProofIsWatched

\* What identities can do: a file that is not as certified never is again, and
\* one that is now was before.
LEMMA MatchesOnce ==
    ASSUME WorldOK, [Next]_vars, NEW cert, IsCertificate(cert, certificates, changes)
    PROVE  /\ \A p \in DOMAIN cert.files : ids'[p] = cert.files[p] => ids[p] = cert.files[p]
           /\ (\A p \in DOMAIN cert.files : ids'[p] = cert.files[p]) => FilesMatch(cert.files)
<1>1. /\ changes \in Nat /\ DOMAIN cert.files \subseteq Paths
      /\ \A p \in DOMAIN cert.files : cert.files[p] \in 0..changes
  BY BoundsAssumption DEF WorldOK, IsCertificate
<1>2. ASSUME NEW p \in DOMAIN cert.files, ids'[p] = cert.files[p]
      PROVE  ids[p] = cert.files[p]
  <2>1. ASSUME NEW q \in Paths, Change(q) PROVE q # p
    <3>1. q = p => ids'[p] = changes + 1
      BY <2>1 DEF Change, WorldOK
    <3> QED BY <3>1, <1>1, <1>2
  <2>2. ASSUME NEW q \in Paths, Change(q) PROVE ids'[p] = ids[p]
    BY <2>1, <2>2, <1>1 DEF Change, WorldOK
  <2>3. ASSUME NEW e \in Envs, NEW paths \in {Watched, Paths}, Certify(e, paths)
        PROVE  ids' = ids
    BY <2>3 DEF Certify
  <2>4. ASSUME NEW t \in Tools, ChangeTool(t) PROVE ids' = ids
    BY <2>4 DEF ChangeTool
  <2> QED BY <1>2, <2>2, <2>3, <2>4, WorldFrame DEF world
<1> QED BY <1>2 DEF FilesMatch

\* The observer misses no moment at which everything is as certified.
LEMMA CleanStep ==
    ASSUME TypesOK, ServedWaits, KnownCertificates, CleanCovers, [Next]_vars
    PROVE  /\ CleanCovers'
           /\ serving # None /\ serving' # None /\ clean => clean'
<1>1. WorldOK /\ ThreadOK /\ ClientsOK
  BY DEF TypesOK
<1>2. serving # None /\ serving' # None => serving' = serving /\ Env' = Env
  BY <1>1, ClientsStep
<1>3. ASSUME NEW c \in Clients, Accept(c)
      PROVE  serving = None /\ clean' = Certified(certificate, Env)'
  <2>1. serving = None
    BY <1>1, <1>3 DEF Accept, ThreadOK
  <2>2. asked' = asked /\ serving' = c /\ UNCHANGED <<ids, tool, certificate>>
    BY <1>3 DEF Accept, clients, world
  <2>3. clean' = Certified(certificate, asked[c])
    BY <1>3 DEF Accept
  <2> QED BY <2>1, <2>2, <2>3 DEF Certified, FilesMatch, Env
<1>4. CASE SendReply \/ Die
  BY <1>4 DEF SendReply, Die, CleanCovers
<1>5. ASSUME NEW p \in Paths, Change(p), serving' # None
      PROVE  (clean => clean') /\ (Certified(certificate, Env)' => clean')
  <2>1. UNCHANGED <<clean, certificate, tool, serving>>
    BY <1>5 DEF Change
  <2>2. Env' = Env
    BY <1>2, <1>5, <2>1
  <2>3. Certified(certificate, Env)' => Certified(certificate, Env)
    BY <2>1, <2>2, <1>1, MatchesOnce DEF Certified, FilesMatch, KnownCertificates
  <2> QED BY <2>1, <2>3, <1>5 DEF CleanCovers
<1>6. ASSUME NEW e \in Envs, NEW paths \in {Watched, Paths}, Certify(e, paths),
             serving' # None
      PROVE  (clean => clean') /\ (Certified(certificate, Env)' => clean')
  <2>1. /\ clean' = (clean \/ (serving # None /\ asked[serving] = e))
        /\ certificate'.env = e /\ serving' = serving /\ Env' = Env
    BY <1>6 DEF Certify, Env, clients
  <2> QED BY <2>1, <1>6 DEF Certified, Env
<1>7. ASSUME NEW t \in Tools, ChangeTool(t), serving' # None
      PROVE  (clean => clean') /\ (Certified(certificate, Env)' => clean')
  <2>1. /\ UNCHANGED <<ids, certificate, serving>> /\ Env' = Env /\ tool' = t
        /\ clean' = (clean \/ (/\ serving # None /\ certificate # None
                               /\ certificate.env = Env /\ certificate.tool = t
                               /\ FilesMatch(certificate.files)))
    BY <1>7 DEF ChangeTool, Env, clients
  <2> QED BY <2>1, <1>7 DEF Certified, FilesMatch
<1>8. CASE UNCHANGED <<world, clean, serving>>
  BY <1>2, <1>8 DEF CleanCovers, Certified, FilesMatch, world
<1>9. \/ \E c \in Clients : Accept(c)
      \/ SendReply \/ Die
      \/ \E p \in Paths : Change(p)
      \/ \E e \in Envs, paths \in {Watched, Paths} : Certify(e, paths)
      \/ \E t \in Tools : ChangeTool(t)
      \/ UNCHANGED <<world, clean, serving>>
  <2>1. CASE Serve
    BY <2>1 DEF Serve, Mark, Wait, TryCached, Recheck, Quick, Base, Header, Scanned,
              Settle, Broken, Scan, ChildExits, Ended, Quiet
  <2>2. CASE Deliver \/ WatcherFails \/ Overflow
    BY <2>2 DEF Deliver, WatcherFails, Overflow
  <2>3. ASSUME NEW c \in Clients,
             StartDaemon(c) \/ SendAgain(c) \/ \E e \in Envs : Send(c, e)
        PROVE  UNCHANGED <<world, clean, serving>>
    BY <2>3 DEF StartDaemon, SendAgain, Send
  <2>4. CASE UNCHANGED vars
    BY <2>4 DEF vars
  <2> QED BY <2>1, <2>2, <2>3, <2>4 DEF Next
<1> QED BY <1>3, <1>4, <1>5, <1>6, <1>7, <1>8, <1>9 DEF CleanCovers

-----------------------------------------------------------------------------
(* Events.                                                                 *)

\* A change of a watched file is queued while there is a daemon.
LEMMA ChangeIsQueued ==
    ASSUME QueueOK, Up, NEW p \in Watched, Change(p)
    PROVE  PathQueued'
<1>1. Emit(Event("path")) /\ Event("path") \in Events /\ Event("path").kind = "path"
  BY DEF Change, Event, Events
<1>2. Len(queue') \in 1..Len(queue') /\ queue'[Len(queue')] = Event("path")
  BY <1>1, EmitFacts DEF QueueOK
<1> QED BY <1>1, <1>2 DEF PathQueued

\* What is queued is only added to, until it is delivered or lost.
LEMMA QueueFrame ==
    ASSUME QueueOK, [Next]_vars, ~Deliver, ~Overflow, ~Die
    PROVE  queue' = queue \/ \E event \in Events : Emit(event)
<1>1. Event("path") \in Events /\ Event("error") \in Events
  BY DEF Event, Events
<1>2. ASSUME NEW p \in Paths, Change(p)
      PROVE  queue' = queue \/ \E event \in Events : Emit(event)
  <2>1. queue' = queue \/ Emit(Event("path"))
    BY <1>2 DEF Change
  <2> QED BY <1>1, <2>1
<1>3. ASSUME NEW e \in Envs, NEW paths \in {Watched, Paths}, Certify(e, paths)
      PROVE  \E event \in Events : Emit(event)
  <2>1. Emit(Event("path"))
    BY <1>3 DEF Certify
  <2> QED BY <1>1, <2>1
<1>4. CASE WatcherFails
  <2>1. Emit(Event("error"))
    BY <1>4 DEF WatcherFails
  <2> QED BY <1>1, <2>1
<1>5. CASE Mark
  <2>1. next_barrier + 1 \in Nat /\ Marker(next_barrier + 1) \in Events
    BY DEF QueueOK, Marker, Events
  <2>2. \/ queue' = queue
        \/ next_barrier' = next_barrier + 1 /\ Emit(Marker(next_barrier'))
    BY <1>5 DEF Mark
  <2>3. queue' = queue \/ Emit(Marker(next_barrier + 1))
    BY <2>2
  <2> QED BY <2>1, <2>3
<1>6. CASE Eventless \/ UNCHANGED vars
  BY <1>6, EventlessFrame
<1>7. CASE \E c \in Clients : StartDaemon(c)
  BY <1>7 DEF StartDaemon
<1> QED BY <1>2, <1>3, <1>4, <1>5, <1>6, <1>7 DEF Next, Serve, Eventless

\* An event that was emitted leaves the events before it where they are.
LEMMA QueueGrows ==
    ASSUME QueueOK, [Next]_vars, ~Deliver, ~Overflow, ~Die
    PROVE  /\ Len(queue) \in Nat /\ Len(queue') \in Nat /\ Len(queue) <= Len(queue')
           /\ \A i \in 1..Len(queue) : queue'[i] = queue[i]
<1>1. CASE queue' = queue
  BY <1>1 DEF QueueOK
<1>2. ASSUME NEW event \in Events, Emit(event)
      PROVE  /\ Len(queue) \in Nat /\ Len(queue') \in Nat /\ Len(queue) <= Len(queue')
             /\ \A i \in 1..Len(queue) : queue'[i] = queue[i]
  BY <1>2, EmitFacts DEF QueueOK
<1> QED BY <1>1, <1>2, QueueFrame

\* The event of a change stays queued until it drops the proof.
LEMMA PathStaysQueued ==
    ASSUME QueueOK, PathQueued, [Next]_vars, ~overflowed', ~Die
    PROVE  PathQueued' \/ (cached_noop' = None /\ event_epoch' = event_epoch + 1)
<1>1. PICK i \in 1..Len(queue) : queue[i].kind = "path"
  BY DEF PathQueued
<1>2. CASE Deliver
  <2>1. /\ Len(queue) \in Nat \ {0} /\ Len(queue') = Len(queue) - 1
        /\ \A j \in 1..Len(queue') : queue'[j] = queue[j + 1]
        /\ Head(queue) = queue[1]
    BY <1>2, TailFacts DEF Deliver, QueueOK
  <2>2. CASE i = 1
    BY <1>1, <1>2, <2>1, <2>2 DEF Deliver
  <2>3. CASE i # 1
    <3>1. i - 1 \in 1..Len(queue') /\ queue'[i - 1] = queue[i]
      BY <2>1, <2>3
    <3> QED BY <3>1, <1>1 DEF PathQueued
  <2> QED BY <2>2, <2>3
<1>3. CASE ~Deliver
  <2>1. ~Overflow
    BY DEF Overflow
  <2>2. /\ Len(queue) \in Nat /\ Len(queue') \in Nat /\ Len(queue) <= Len(queue')
        /\ \A j \in 1..Len(queue) : queue'[j] = queue[j]
    BY <2>1, <1>3, QueueGrows
  <2>3. i \in 1..Len(queue') /\ queue'[i] = queue[i]
    BY <2>2
  <2> QED BY <2>3, <1>1 DEF PathQueued
<1> QED BY <1>2, <1>3

\* Nor does a marker get past it.
LEMMA PathStaysBefore ==
    ASSUME QueueOK, DownIsFresh, PathBeforeMarker, [Next]_vars, ~overflowed', ~Die, ~Mark
    PROVE  PathBeforeMarker' \/ cached_noop' = None
<1>1. PICK i \in 1..Len(queue) :
         /\ queue[i].kind = "path"
         /\ \A j \in 1..(i - 1) : queue[j].id < next_barrier
  BY DEF PathBeforeMarker
<1>2. /\ barrier_seen < next_barrier /\ next_barrier \in Nat /\ barrier_seen \in Nat
      /\ Len(queue) \in Nat
  BY DEF PathBeforeMarker, QueueOK
<1>3. CASE Deliver
  <2>1. /\ Len(queue) \in Nat \ {0} /\ Len(queue') = Len(queue) - 1
        /\ \A j \in 1..Len(queue') : queue'[j] = queue[j + 1]
        /\ Head(queue) = queue[1]
    BY <1>3, TailFacts DEF Deliver, QueueOK
  <2>2. CASE i = 1
    BY <1>1, <1>3, <2>1, <2>2 DEF Deliver
  <2>3. CASE i # 1
    <3>1. i - 1 \in 1..Len(queue') /\ queue'[i - 1] = queue[i]
      BY <2>1, <2>3
    <3>2. ASSUME NEW j \in 1..((i - 1) - 1) PROVE queue'[j].id < next_barrier
      <4>1. queue'[j] = queue[j + 1] /\ j + 1 \in 1..(i - 1)
        BY <2>1, <2>3
      <4> QED BY <4>1, <1>1
    <3>3. queue[1].id < next_barrier
      BY <1>1, <2>3
    <3>4. next_barrier' = next_barrier /\ barrier_seen' < next_barrier
      BY <1>2, <1>3, <2>1, <3>3 DEF Deliver, state
    <3>5. /\ queue'[i - 1].kind = "path"
          /\ \A j \in 1..((i - 1) - 1) : queue'[j].id < next_barrier'
      BY <3>1, <3>2, <3>4, <1>1
    <3> QED BY <3>1, <3>4, <3>5 DEF PathBeforeMarker
  <2> QED BY <2>2, <2>3
<1>4. CASE ~Deliver
  <2>1. ~Overflow
    BY DEF Overflow
  <2>2. /\ Len(queue') \in Nat /\ Len(queue) <= Len(queue')
        /\ \A j \in 1..Len(queue) : queue'[j] = queue[j]
    BY <2>1, <1>4, QueueGrows
  <2>3. Up
    BY <1>2 DEF Up, DownIsFresh
  <2>4. next_barrier' = next_barrier /\ barrier_seen' = barrier_seen
    <3>1. CASE Eventless \/ UNCHANGED vars
      BY <3>1, EventlessFrame
    <3>2. CASE WatcherFails \/ \E p \in Paths : Change(p)
      BY <3>2 DEF WatcherFails, Change, state
    <3>3. ASSUME NEW e \in Envs, NEW paths \in {Watched, Paths}, Certify(e, paths)
          PROVE  next_barrier' = next_barrier /\ barrier_seen' = barrier_seen
      BY <3>3 DEF Certify, state
    <3>4. ASSUME NEW c \in Clients, StartDaemon(c)
          PROVE  next_barrier' = next_barrier /\ barrier_seen' = barrier_seen
      BY <3>4, <2>3 DEF StartDaemon, state
    <3> QED BY <3>1, <3>2, <3>3, <3>4, <2>1, <1>4 DEF Next, Serve, Eventless
  <2>5. i \in 1..Len(queue') /\ \A j \in 1..(i - 1) : queue'[j] = queue[j]
    BY <2>2, <1>2
  <2> QED BY <2>2, <2>4, <2>5, <1>1, <1>2 DEF PathBeforeMarker
<1> QED BY <1>3, <1>4

\* The counter of events only grows while a daemon lives.
LEMMA EpochStep ==
    ASSUME ThreadOK, Up, [Next]_vars, ~Die
    PROVE  event_epoch' \in {event_epoch, event_epoch + 1}
<1> USE DEF state
<1>1. CASE Serve
  BY <1>1 DEF Serve, Mark, Wait, Accept, TryCached, Recheck, Quick, Base, Header, Scanned,
              Settle, Broken, Scan, ChildExits, Ended, SendReply
<1>2. CASE Deliver
  BY <1>2 DEF Deliver
<1>3. CASE WatcherFails \/ Overflow \/ \E p \in Paths : Change(p)
  BY <1>3 DEF WatcherFails, Overflow, Change
<1>4. ASSUME NEW e \in Envs, NEW paths \in {Watched, Paths}, Certify(e, paths)
      PROVE  event_epoch' = event_epoch
  BY <1>4 DEF Certify
<1>5. ASSUME NEW t \in Tools, ChangeTool(t) PROVE event_epoch' = event_epoch
  BY <1>5 DEF ChangeTool
<1>6. ASSUME NEW c \in Clients,
             StartDaemon(c) \/ SendAgain(c) \/ \E e \in Envs : Send(c, e)
      PROVE  event_epoch' = event_epoch
  BY <1>6 DEF StartDaemon, SendAgain, Send
<1>7. CASE UNCHANGED vars
  BY <1>7 DEF vars
<1> QED BY <1>1, <1>2, <1>3, <1>4, <1>5, <1>6, <1>7 DEF Next

\* A change of a watched file, or the event of one, cannot be missed.
LEMMA WatchedIsQueued ==
    ASSUME WorldOK, QueueOK, Up, [Next]_vars
    PROVE  PathQueued' \/ \A p \in Watched : ids'[p] = ids[p]
<1>1. ASSUME NEW p \in Paths, Change(p)
      PROVE  PathQueued' \/ \A q \in Watched : ids'[q] = ids[q]
  <2>1. CASE p \in Watched
    BY <1>1, <2>1, ChangeIsQueued
  <2>2. CASE p \notin Watched
    BY <1>1, <2>2 DEF Change, WorldOK, Paths
  <2> QED BY <2>1, <2>2
<1>2. ASSUME NEW e \in Envs, NEW paths \in {Watched, Paths}, Certify(e, paths)
      PROVE  ids' = ids
  BY <1>2 DEF Certify
<1>3. ASSUME NEW t \in Tools, ChangeTool(t) PROVE ids' = ids
  BY <1>3 DEF ChangeTool
<1> QED BY <1>1, <1>2, <1>3, WorldFrame DEF world

\* That a watcher lost events is not forgotten.
LEMMA OverflowIsKept ==
    ASSUME ThreadOK, [Next]_vars, ~overflowed'
    PROVE  ~overflowed
<1>1. CASE Eventless \/ UNCHANGED vars
  BY <1>1, EventlessFrame
<1>2. CASE Deliver \/ WatcherFails \/ Die \/ Mark \/ \E p \in Paths : Change(p)
  BY <1>2 DEF Deliver, WatcherFails, Die, Mark, Change
<1>3. ASSUME NEW e \in Envs, NEW paths \in {Watched, Paths}, Certify(e, paths)
      PROVE  overflowed' = overflowed
  BY <1>3 DEF Certify
<1>4. ASSUME NEW c \in Clients, StartDaemon(c) PROVE overflowed' = overflowed
  BY <1>4 DEF StartDaemon
<1>5. ~Overflow
  BY DEF Overflow
<1> QED BY <1>1, <1>2, <1>3, <1>4, <1>5 DEF Next, Serve, Eventless

-----------------------------------------------------------------------------
(* The thread and everybody else.                                          *)

\* Nobody moves the thread but itself and who starts it.
LEMMA Others ==
    ASSUME [Next]_vars, ~Serve, ~Die
    PROVE  /\ UNCHANGED <<serving, local, response>>
           /\ pc' = pc \/ (pc = "down" /\ pc' = "accept")
<1>1. CASE Deliver \/ WatcherFails \/ Overflow \/ \E p \in Paths : Change(p)
  BY <1>1 DEF Deliver, WatcherFails, Overflow, Change
<1>2. ASSUME NEW e \in Envs, NEW paths \in {Watched, Paths}, Certify(e, paths)
      PROVE  UNCHANGED <<pc, serving, local, response>>
  BY <1>2 DEF Certify
<1>3. ASSUME NEW t \in Tools, ChangeTool(t)
      PROVE  UNCHANGED <<pc, serving, local, response>>
  BY <1>3 DEF ChangeTool
<1>4. ASSUME NEW c \in Clients, StartDaemon(c)
      PROVE  /\ UNCHANGED <<serving, local, response>>
             /\ pc' = pc \/ (pc = "down" /\ pc' = "accept")
  BY <1>4 DEF StartDaemon, Up
<1>5. ASSUME NEW c \in Clients, SendAgain(c) \/ \E e \in Envs : Send(c, e)
      PROVE  UNCHANGED <<pc, serving, local, response>>
  BY <1>5 DEF SendAgain, Send
<1>6. CASE UNCHANGED vars
  BY <1>6 DEF vars
<1> QED BY <1>1, <1>2, <1>3, <1>4, <1>5, <1>6 DEF Next

\* How the thread comes to where something is claimed of it.
LEMMA Entries ==
    ASSUME ThreadOK, Serve
    PROVE  /\ pc' = "recheck" => TryCached
           /\ pc' = "mark" /\ then' = "quick" => Recheck
           /\ pc' = "mark" /\ then' = "settle" => Scanned
           /\ pc' = "wait" => Mark
           /\ pc' = "quick" => Mark \/ Wait
           /\ pc' = "settle" => Scanned \/ Mark \/ Wait
           /\ pc' = "header" => Base
           /\ pc' = "scan" => Header \/ \E p \in Paths : Scan(p)
           /\ pc' = "reply" /\ response' = "noop" => Quick \/ Settle
<1> USE DEF Barrier, Reply
<1>1. CASE Mark \/ Wait
  <2>1. then \in Continuations /\ (Mark \/ (Wait /\ pc' = then)) /\ (pc' = then \/ pc' = "wait")
    BY <1>1 DEF Mark, Wait, ThreadOK
  <2> QED BY <2>1 DEF Continuations
<1>2. CASE TryCached \/ Recheck \/ Quick \/ Base
  BY <1>2 DEF TryCached, Recheck, Quick, Base
<1>3. CASE Header \/ Scanned \/ Settle \/ Broken \/ Ended
  BY <1>3 DEF Header, Scanned, Settle, Broken, Ended
<1>4. CASE SendReply \/ \E c \in Clients : Accept(c)
  BY <1>4 DEF SendReply, Accept
<1>5. ASSUME NEW p \in Paths, Scan(p)
      PROVE  pc' = "child" \/ (pc' = pc /\ pc = "scan")
  BY <1>5 DEF Scan
<1>6. ASSUME NEW success \in BOOLEAN, ChildExits(success)
      PROVE  \/ pc' = "mark" /\ then' = "ended"
             \/ pc' = "reply" /\ response' = "failed"
  BY <1>6 DEF ChildExits
<1> QED BY <1>1, <1>2, <1>3, <1>4, <1>5, <1>6 DEF Serve

\* While somebody is served, the thread is not down and what was clean stays so.
LEMMA ServedStaysClean ==
    ASSUME TypesOK, ServedWaits, KnownCertificates, CleanCovers, [Next]_vars,
           ~Serve, ~Die, pc' \notin {"down", "accept"}
    PROVE  /\ Up /\ pc' = pc /\ UNCHANGED <<serving, local, response>>
           /\ Env' = Env /\ (clean => clean')
<1>1. ThreadOK /\ ClientsOK
  BY DEF TypesOK
<1>2. pc' = pc /\ UNCHANGED <<serving, local, response>>
  BY Others
<1>3. serving # None /\ serving' # None
  BY <1>1, <1>2 DEF ThreadOK
<1> QED BY <1>1, <1>2, <1>3, CleanStep, ClientsStep DEF Up

-----------------------------------------------------------------------------
(* The way of the proof that was in memory.                                *)

\* A proof that is there after a step that settles nothing was there before.
LEMMA StillCached ==
    ASSUME [Next]_vars, ~Settle, cached_noop' # None
    PROVE  cached_noop' = cached_noop
BY CachedFrame

\* A proof that passes its barrier described the workspace when the marker was written.
LEMMA QuickStep == ASSUME IInv, [Next]_vars PROVE QuickOK'
<1>1. /\ TypesOK /\ DownIsFresh /\ ServedWaits /\ KnownCertificates /\ CleanCovers
      /\ QuickOK /\ ProofIsCurrent
  BY DEF IInv, AnswersAndProofsAreTrue
<1>2. ThreadOK /\ QueueOK /\ WorldOK
  BY <1>1 DEF TypesOK
<1>3. CASE Die
  BY <1>3 DEF Die, QuickOK
<1>4. ASSUME pc' = "recheck", ~Die
      PROVE  validated' # None /\ validated'.env = Env' /\ cached_noop' \in {None, validated'}
  <2>1. CASE Serve
    <3>1. TryCached
      BY <1>2, <1>4, <2>1, Entries
    <3>2. Matching /\ validated' = cached_noop /\ cached_noop' = cached_noop /\ Env' = Env
      BY <1>4, <3>1 DEF TryCached, Quiet, Env, state, clients, Barrier
    <3> QED BY <3>2 DEF Matching
  <2>2. CASE ~Serve
    <3>1. pc = "recheck" /\ validated' = validated /\ Env' = Env
      BY <1>1, <1>4, <2>2, ServedStaysClean DEF local
    <3>2. cached_noop' \in {None, cached_noop}
      BY <2>2, CachedFrame DEF Serve
    <3> QED BY <1>1, <3>1, <3>2 DEF QuickOK
  <2> QED BY <2>1, <2>2
<1>5. ASSUME cached_noop' # None, ~overflowed', ~Die, ~Serve,
             pc' \in {"mark", "wait", "quick"}, then' = "quick" \/ pc' = "quick"
      PROVE  /\ pc' = "mark" => (clean \/ PathQueued)'
             /\ pc' = "wait" => (clean \/ PathBeforeMarker)'
             /\ pc' = "quick" /\ ready' => clean'
  <2>1. pc' = pc /\ (clean => clean') /\ then' = then /\ ready' = ready
    BY <1>1, <1>5, ServedStaysClean DEF local
  <2>2. cached_noop' = cached_noop /\ ~overflowed
    BY <1>2, <1>5, StillCached, OverflowIsKept DEF Serve
  <2>3. PathQueued => PathQueued'
    <3>1. \A n \in Nat : n # n + 1
      OBVIOUS
    <3> QED BY <1>2, <1>5, PathStaysQueued
  <2>4. PathBeforeMarker => PathBeforeMarker'
    BY <1>1, <1>2, <1>5, PathStaysBefore DEF Serve
  <2> QED BY <1>1, <1>5, <2>1, <2>2, <2>3, <2>4 DEF QuickOK
<1>6. ASSUME cached_noop' # None, ~overflowed', pc' = "mark", then' = "quick", Serve
      PROVE  (clean \/ PathQueued)'
  <2>1. Recheck
    BY <1>2, <1>6, Entries
  <2>2. /\ pc = "recheck" /\ cached_noop' = cached_noop
        /\ certificate # None /\ certificate.serial = validated.serial
        /\ tool = validated.tool
        /\ UNCHANGED <<queue, clean, overflowed, serving>>
    BY <1>6, <2>1 DEF Recheck, Quiet, Barrier
  <2>3. /\ validated # None /\ validated = certificate /\ validated.env = Env
        /\ cached_noop = validated
    BY <1>1, <1>6, <2>2 DEF QuickOK, KnownCertificates
  <2>4. FilesMatch(cached_noop.files) \/ PathQueued
    <3>1. DOMAIN queue = 1..Len(queue)
      BY <1>2 DEF QueueOK
    <3> QED BY <1>1, <1>6, <2>2, <3>1 DEF ProofIsCurrent, PathQueued
  <2>5. FilesMatch(cached_noop.files) => clean
    <3>1. serving # None
      BY <1>2, <2>2 DEF ThreadOK
    <3> QED BY <1>1, <2>2, <2>3, <3>1 DEF CleanCovers, Certified
  <2>6. PathQueued => PathQueued'
    BY <2>2 DEF PathQueued
  <2> QED BY <2>2, <2>4, <2>5, <2>6
<1>7. ASSUME cached_noop' # None, ~overflowed', pc' = "wait", then' = "quick", Serve
      PROVE  (clean \/ PathBeforeMarker)'
  <2>1. Mark
    BY <1>2, <1>7, Entries
  <2>2. then = "quick" /\ pc = "mark" /\ clean' = clean /\ overflowed' = overflowed /\ Up
    BY <1>7, <2>1 DEF Mark, Up
  <2>3. next_barrier' = next_barrier + 1 /\ Emit(Marker(next_barrier'))
        /\ barrier_seen' = barrier_seen
    BY <1>7, <2>1, <2>2 DEF Mark
  <2>4. cached_noop' = cached_noop
    BY <1>7, <2>1, <2>2, StillCached DEF Settle
  <2>5. clean \/ PathQueued
    BY <1>1, <1>7, <2>2, <2>4 DEF QuickOK
  <2>6. PathQueued => PathBeforeMarker'
    <3>1. next_barrier \in Nat /\ barrier_seen \in 0..next_barrier
      BY <1>2 DEF QueueOK
    <3>2. Marker(next_barrier') \in Events
      BY <2>3, <3>1 DEF Marker, Events
    <3>3. /\ Len(queue) \in Nat /\ Len(queue) <= Len(queue') /\ Len(queue') \in Nat
          /\ \A i \in 1..Len(queue) : queue'[i] = queue[i]
      BY <1>2, <2>3, <3>2, EmitFacts DEF QueueOK
    <3>4. \A i \in 1..Len(queue) : queue[i].id < next_barrier'
      <4>1. \A i \in 1..Len(queue) : queue[i] \in Events /\ queue[i].id <= next_barrier
        BY <1>2 DEF QueueOK
      <4>2. \A i \in 1..Len(queue) : queue[i].id \in Nat
        BY <4>1 DEF Events
      <4> QED BY <2>3, <3>1, <4>1, <4>2
    <3>5. ASSUME NEW i \in 1..Len(queue), queue[i].kind = "path" PROVE PathBeforeMarker'
      <4>1. i \in 1..Len(queue') /\ queue'[i].kind = "path"
        BY <3>3, <3>5
      <4>2. \A j \in 1..(i - 1) : queue'[j].id < next_barrier'
        BY <3>3, <3>4
      <4>3. barrier_seen' < next_barrier'
        BY <2>3, <3>1
      <4> QED BY <4>1, <4>2, <4>3 DEF PathBeforeMarker
    <3> QED BY <3>5 DEF PathQueued
  <2> QED BY <2>2, <2>5, <2>6
<1>8. ASSUME cached_noop' # None, ~overflowed', pc' = "quick", ready', Serve
      PROVE  clean'
  <2>1. Mark \/ Wait
    BY <1>2, <1>8, Entries
  <2>2. ~Mark
    BY <1>8 DEF Mark
  <2>3. Wait
    BY <2>1, <2>2
  <2>4. /\ pc = "wait" /\ then = "quick" /\ Seen /\ cached_noop' = cached_noop
        /\ clean' = clean /\ overflowed' = overflowed
    BY <1>8, <2>3 DEF Wait
  <2>5. ~PathBeforeMarker
    BY <1>2, <2>4 DEF Seen, PathBeforeMarker, QueueOK
  <2> QED BY <1>1, <1>8, <2>4, <2>5 DEF QuickOK
<1>9. ASSUME ~Die PROVE QuickOK'
  BY <1>4, <1>5, <1>6, <1>7, <1>8, <1>9 DEF QuickOK
<1> QED BY <1>3, <1>9

-----------------------------------------------------------------------------
(* The way of the certificate.                                             *)

\* What ScanOK says of files and events: every file that was compared is as
\* certified, unless the event of its change is queued.
ScannedAreCurrent ==
    \/ \A p \in (DOMAIN validated.files \cap Watched) \ scan : ids[p] = validated.files[p]
    \/ PathQueued

\* Steps of others and of the barrier leave the counter, or count what was queued.
LEMMA ScannedStaysCurrent ==
    ASSUME WorldOK, QueueOK, ThreadOK, Up, [Next]_vars, ~Die, ~overflowed',
           UNCHANGED <<validated, scan>>, event_epoch' = event_epoch, ScannedAreCurrent
    PROVE  ScannedAreCurrent'
<1>1. CASE PathQueued
  <2>1. event_epoch' # event_epoch + 1
    BY DEF ThreadOK
  <2> QED BY <1>1, <2>1, PathStaysQueued DEF ScannedAreCurrent
<1>2. CASE ~PathQueued
  <2>1. \A p \in (DOMAIN validated.files \cap Watched) \ scan : ids[p] = validated.files[p]
    BY <1>2 DEF ScannedAreCurrent
  <2>2. PathQueued' \/ \A p \in Watched : ids'[p] = ids[p]
    BY WatchedIsQueued
  <2> QED BY <2>1, <2>2 DEF ScannedAreCurrent
<1> QED BY <1>1, <1>2

\* ScanOK in the words of ScannedAreCurrent.
LEMMA ScanOKParts ==
    ScanOK <=>
       /\ pc = "header" \/ pc = "scan" \/ At("settle") => baseline_epoch <= event_epoch
       /\ baseline_epoch \in Nat
       /\ pc = "scan" =>
             /\ scan \subseteq DOMAIN validated.files
             /\ clean \/ \E p \in scan : ids[p] # validated.files[p]
       /\ At("settle") => clean /\ scan = {}
       /\ pc = "scan" \/ At("settle") => validated # None
       /\ (pc = "scan" \/ At("settle")) /\ event_epoch = baseline_epoch /\ ~overflowed =>
             ScannedAreCurrent
BY DEF ScanOK, ScannedAreCurrent

\* Steps of others.
LEMMA ScanOthers ==
    ASSUME IInv, [Next]_vars, ~Serve, ~Die, pc' \notin {"down", "accept"}
    PROVE  ScanOK'
<1>1. /\ TypesOK /\ ServedWaits /\ KnownCertificates /\ CleanCovers /\ ScanOK
      /\ ThreadOK /\ QueueOK /\ WorldOK
  BY DEF IInv, TypesOK
<1>2. /\ Up /\ pc' = pc /\ (clean => clean')
      /\ UNCHANGED <<then, baseline_epoch, validated, scan>>
  BY <1>1, ServedStaysClean DEF local
<1>3. At("settle")' = At("settle")
  BY <1>2 DEF At
<1>4. /\ event_epoch \in Nat /\ baseline_epoch \in Nat
      /\ event_epoch' \in {event_epoch, event_epoch + 1}
  BY <1>1, <1>2, EpochStep, ScanOKParts DEF ThreadOK
<1>5. ~overflowed' => ~overflowed
  BY <1>1, OverflowIsKept
<1>6. ASSUME pc = "scan"
      PROVE  (clean \/ \E p \in scan : ids[p] # validated.files[p])'
  <2>1. CASE clean
    BY <1>2, <2>1
  <2>2. ASSUME NEW p \in scan, ids[p] # validated.files[p]
        PROVE  ids'[p] # validated'.files[p]
    <3>1. IsCertificate(validated, certificates, changes) /\ p \in DOMAIN validated.files
      BY <1>1, <1>6, <2>2, ScanOKParts DEF KnownCertificates
    <3> QED BY <1>1, <1>2, <2>2, <3>1, MatchesOnce
  <2> QED BY <1>1, <1>2, <1>6, <2>1, <2>2, ScanOKParts
<1>7. ASSUME pc = "scan" \/ At("settle"), event_epoch' = baseline_epoch', ~overflowed'
      PROVE  ScannedAreCurrent'
  <2>1. baseline_epoch <= event_epoch
    BY <1>1, <1>7, ScanOKParts
  <2>2. event_epoch' = event_epoch /\ event_epoch = baseline_epoch
    BY <1>2, <1>4, <1>7, <2>1
  <2>3. ScannedAreCurrent
    BY <1>1, <1>5, <1>7, <2>2, ScanOKParts
  <2> QED BY <1>1, <1>2, <1>7, <2>2, <2>3, ScannedStaysCurrent
<1>8. pc' = "header" \/ pc' = "scan" \/ At("settle")' => baseline_epoch' <= event_epoch'
  BY <1>1, <1>2, <1>3, <1>4, ScanOKParts
<1>9. pc' = "scan" => (scan \subseteq DOMAIN validated.files)'
  BY <1>1, <1>2, ScanOKParts
<1>10. At("settle")' => clean' /\ scan' = {}
  BY <1>1, <1>2, <1>3, ScanOKParts
<1>11. pc' = "scan" \/ At("settle")' => validated' # None
  BY <1>1, <1>2, <1>3, ScanOKParts
<1>12. baseline_epoch' \in Nat
  BY <1>2, <1>4
<1> QED BY <1>2, <1>3, <1>6, <1>7, <1>8, <1>9, <1>10, <1>11, <1>12
        DEF ScanOK, ScannedAreCurrent

\* Steps of the thread.
LEMMA ScanServe == ASSUME IInv, [Next]_vars, Serve PROVE ScanOK'
<1>1. /\ TypesOK /\ KnownCertificates /\ CleanCovers /\ ScanOK
      /\ ThreadOK /\ QueueOK /\ WorldOK
  BY DEF IInv, TypesOK
<1>2. baseline_epoch \in Nat /\ event_epoch \in Nat
  BY <1>1, ScanOKParts DEF ThreadOK
<1> USE DEF Quiet, Barrier
<1>3. baseline_epoch' \in Nat
  <2>1. baseline_epoch' \in {0, baseline_epoch, event_epoch}
    BY DEF Serve, Mark, Wait, Accept, TryCached, Recheck, Quick, Base, Header, Scanned, Settle,
           Broken, Scan, ChildExits, Ended, SendReply, FreshLocal, local
  <2> QED BY <1>2, <2>1
<1>4. CASE Base
  <2>1. pc' = "header" /\ baseline_epoch' = event_epoch /\ event_epoch' = event_epoch
    BY <1>4 DEF Base
  <2> QED BY <1>2, <1>3, <2>1 DEF ScanOK, At
<1>5. CASE Header
  <2>1. pc = "header" /\ UNCHANGED <<state, baseline_epoch, world, queue, clean, serving, clients>>
    BY <1>5 DEF Header
  <2>2. CASE pc' = "child"
    BY <1>3, <2>2 DEF ScanOK, At
  <2>3. CASE pc' # "child"
    <3>1. /\ certificate # None /\ certificate.env = Env /\ certificate.tool = tool
          /\ validated' = certificate /\ scan' = DOMAIN certificate.files /\ pc' = "scan"
      BY <1>5, <2>3 DEF Header
    <3>2. clean \/ \E p \in DOMAIN certificate.files : ids[p] # certificate.files[p]
      BY <1>1, <2>1, <3>1 DEF CleanCovers, Certified, FilesMatch, ThreadOK
    <3>3. baseline_epoch' <= event_epoch'
      BY <1>1, <2>1, ScanOKParts DEF state
    <3>4. scan' \subseteq DOMAIN validated'.files
          /\ (clean' \/ \E p \in scan' : ids'[p] # validated'.files[p])
      BY <2>1, <3>1, <3>2 DEF world
    <3>5. ScannedAreCurrent'
      BY <3>1 DEF ScannedAreCurrent
    <3> QED BY <1>3, <3>1, <3>3, <3>4, <3>5 DEF ScanOK, ScannedAreCurrent, At
  <2> QED BY <2>2, <2>3
<1>6. ASSUME NEW p \in Paths, Scan(p) PROVE ScanOK'
  <2>1. /\ pc = "scan" /\ p \in scan
        /\ UNCHANGED <<state, baseline_epoch, validated, world, queue, clean, overflowed>>
    BY <1>6 DEF Scan
  <2>2. CASE pc' = "child"
    BY <1>3, <2>2 DEF ScanOK, At
  <2>3. CASE pc' # "child"
    <3>1. ids[p] = validated.files[p] /\ scan' = scan \ {p} /\ pc' = "scan"
      BY <1>6, <2>1, <2>3 DEF Scan
    <3>2. baseline_epoch' <= event_epoch' /\ validated' # None
      BY <1>1, <2>1, ScanOKParts DEF state
    <3>3. scan' \subseteq DOMAIN validated'.files
          /\ (clean' \/ \E q \in scan' : ids'[q] # validated'.files[q])
      BY <1>1, <2>1, <3>1, ScanOKParts DEF world
    <3>4. ASSUME event_epoch' = baseline_epoch', ~overflowed' PROVE ScannedAreCurrent'
      <4>1. ScannedAreCurrent
        BY <1>1, <2>1, <3>4, ScanOKParts DEF state
      <4> QED BY <2>1, <3>1, <4>1 DEF ScannedAreCurrent, PathQueued, world
    <3> QED BY <1>3, <3>1, <3>2, <3>3, <3>4 DEF ScanOK, ScannedAreCurrent, At
  <2> QED BY <2>2, <2>3
\* After the scan nothing moves but the barrier.
<1>7. ASSUME UNCHANGED <<baseline_epoch, validated, scan, clean, overflowed, event_epoch>>,
             pc' \notin {"header", "scan", "down"}, pc # "down", ~Die,
             At("settle")' => (pc = "scan" /\ scan = {}) \/ At("settle")
      PROVE  ScanOK'
  <2>1. At("settle")' => clean' /\ scan' = {} /\ validated' # None
    BY <1>1, <1>7, ScanOKParts
  <2>2. At("settle")' => baseline_epoch' <= event_epoch'
    BY <1>1, <1>7, ScanOKParts
  <2>3. ASSUME At("settle")', event_epoch' = baseline_epoch', ~overflowed'
        PROVE  ScannedAreCurrent'
    <3>1. ScannedAreCurrent
      BY <1>1, <1>7, <2>3, ScanOKParts
    <3> QED BY <1>1, <1>7, <2>3, <3>1, ScannedStaysCurrent DEF Up
  <2> QED BY <1>3, <1>7, <2>1, <2>2, <2>3 DEF ScanOK, ScannedAreCurrent
<1>8. CASE Scanned
  <2>1. /\ UNCHANGED <<baseline_epoch, validated, scan, clean, overflowed, event_epoch>>
        /\ pc = "scan" /\ scan = {} /\ pc' \in {"mark", "settle"}
    BY <1>8 DEF Scanned, state
  <2>2. ~Die
    BY <2>1 DEF Die
  <2> QED BY <1>7, <2>1, <2>2
<1>9. CASE Mark \/ Wait
  <2>1. /\ UNCHANGED <<baseline_epoch, validated, scan, clean, overflowed, event_epoch, then>>
        /\ pc \in {"mark", "wait"} /\ then \in Continuations /\ pc' \in {then, "wait"}
    BY <1>1, <1>9 DEF Mark, Wait, state, ThreadOK
  <2>2. At("settle")' => At("settle")
    BY <2>1 DEF At, Continuations
  <2>3. pc' \notin {"header", "scan", "down"}
    BY <2>1 DEF Continuations
  <2>4. ~Die
    BY <2>3 DEF Die
  <2> QED BY <1>7, <2>1, <2>2, <2>3, <2>4
<1>10. CASE ~Base /\ ~Header /\ ~Scanned /\ ~Mark /\ ~Wait /\ ~\E p \in Paths : Scan(p)
  <2>1. pc' \notin {"header", "scan", "wait", "settle"} /\ ~(pc' = "mark" /\ then' = "settle")
    BY <1>1, <1>10, Entries
  <2>2. ~At("settle")'
    BY <2>1 DEF At
  <2> QED BY <1>3, <2>1, <2>2 DEF ScanOK
<1> QED BY <1>4, <1>5, <1>6, <1>8, <1>9, <1>10

\* A scan that finds everything as certified shows that it was when it began.
LEMMA ScanStep == ASSUME IInv, [Next]_vars PROVE ScanOK'
<1>1. CASE Die
  BY <1>1 DEF Die, FreshLocal, ScanOK, At
<1>2. CASE Serve
  BY <1>2, ScanServe
<1>3. CASE ~Serve /\ ~Die /\ pc' \in {"down", "accept"}
  <2>1. baseline_epoch' \in Nat
    BY <1>3, Others DEF IInv, ScanOK, local
  <2> QED BY <1>3, <2>1 DEF ScanOK, At
<1>4. CASE ~Serve /\ ~Die /\ pc' \notin {"down", "accept"}
  BY <1>4, ScanOthers
<1> QED BY <1>1, <1>2, <1>3, <1>4

-----------------------------------------------------------------------------
(* Answers and proofs.                                                     *)

\* A proof describes the workspace when it is made, and until the event of a
\* change drops it.
LEMMA ProofStep == ASSUME IInv, [Next]_vars PROVE ProofIsCurrent'
<1>1. /\ TypesOK /\ DownIsFresh /\ ProofIsWatched /\ ScanOK /\ ProofIsCurrent
      /\ ThreadOK /\ QueueOK /\ WorldOK
  BY DEF IInv, TypesOK, AnswersAndProofsAreTrue
<1>2. QueueOK'
  BY <1>1, QueueStep
<1>3. DOMAIN queue = 1..Len(queue) /\ DOMAIN queue' = 1..Len(queue')
  BY <1>1, <1>2 DEF QueueOK
<1>4. SUFFICES ASSUME cached_noop' # None, ~overflowed'
               PROVE  FilesMatch(cached_noop.files)' \/ PathQueued'
  BY <1>3 DEF ProofIsCurrent, PathQueued
<1>5. ~overflowed
  BY <1>1, <1>4, OverflowIsKept
<1>6. CASE cached_noop' = cached_noop
  <2>1. ~Die /\ Up
    BY <1>1, <1>4, <1>6 DEF Die, FreshState, DownIsFresh, Up
  <2>2. DOMAIN cached_noop.files \subseteq Watched
    BY <1>1, <1>4, <1>6 DEF ProofIsWatched
  <2>3. FilesMatch(cached_noop.files) \/ PathQueued
    BY <1>1, <1>3, <1>4, <1>5, <1>6 DEF ProofIsCurrent, PathQueued
  <2>4. PathQueued => PathQueued'
    BY <1>1, <1>4, <2>1, PathStaysQueued
  <2>5. PathQueued' \/ \A p \in Watched : ids'[p] = ids[p]
    BY <1>1, <2>1, WatchedIsQueued
  <2>6. (\A p \in Watched : ids'[p] = ids[p]) /\ FilesMatch(cached_noop.files)
           => FilesMatch(cached_noop.files)'
    BY <1>6, <2>2 DEF FilesMatch
  <2> QED BY <2>3, <2>4, <2>5, <2>6
<1>7. CASE /\ Settle /\ Unchanged /\ cached_noop' = validated
           /\ DOMAIN validated.files \subseteq Watched
  <2>1. /\ pc = "settle" /\ event_epoch = baseline_epoch
        /\ UNCHANGED <<ids, queue>>
    BY <1>7 DEF Settle, Unchanged, Quiet, world
  <2>2. At("settle") /\ scan = {} /\ ScannedAreCurrent
    BY <1>1, <1>5, <2>1, ScanOKParts DEF At
  <2>3. PathQueued => PathQueued'
    BY <2>1 DEF PathQueued
  <2>4. CASE \A p \in (DOMAIN validated.files \cap Watched) \ scan : ids[p] = validated.files[p]
    <3>1. \A p \in DOMAIN validated.files : ids[p] = validated.files[p]
      BY <1>7, <2>2, <2>4
    <3> QED BY <1>7, <2>1, <3>1 DEF FilesMatch
  <2> QED BY <2>2, <2>3, <2>4 DEF ScannedAreCurrent
<1> QED BY <1>4, <1>6, <1>7, CachedFrame

\* "Up to date" is answered from a proof that passed its barrier, or after a scan.
LEMMA AnswerStep == ASSUME IInv, [Next]_vars PROVE AnswersAreTrue'
<1>1. /\ TypesOK /\ ServedWaits /\ KnownCertificates /\ CleanCovers /\ QuickOK /\ ScanOK
      /\ ThreadOK /\ AnswersAreTrue
  BY DEF IInv, TypesOK, AnswersAndProofsAreTrue
<1>2. SUFFICES ASSUME pc' = "reply", response' = "noop", ~overflowed'
               PROVE  clean'
  BY DEF AnswersAreTrue
<1>3. ~overflowed
  BY <1>1, <1>2, OverflowIsKept
<1>4. ~Die
  BY <1>2 DEF Die
<1>5. CASE Serve
  <2>1. Quick \/ Settle
    BY <1>1, <1>2, <1>5, Entries
  <2>2. CASE Quick
    <3>1. pc = "quick" /\ ready /\ cached_noop # None /\ clean' = clean
      BY <1>2, <2>2 DEF Quick, StillClean, Barrier, Quiet
    <3> QED BY <1>1, <1>3, <3>1 DEF QuickOK
  <2>3. CASE Settle
    <3>1. pc = "settle" /\ clean' = clean
      BY <2>3 DEF Settle, Quiet
    <3> QED BY <1>1, <3>1, ScanOKParts DEF At
  <2> QED BY <2>1, <2>2, <2>3
<1>6. CASE ~Serve
  <2>1. pc = "reply" /\ response = "noop" /\ (clean => clean')
    BY <1>1, <1>2, <1>4, <1>6, ServedStaysClean
  <2> QED BY <1>1, <1>3, <2>1 DEF AnswersAreTrue
<1> QED BY <1>5, <1>6

-----------------------------------------------------------------------------

\* Every step keeps the invariant.
LEMMA NextIInv == ASSUME IInv, [Next]_vars PROVE IInv'
<1>1. /\ TypesOK /\ DownIsFresh /\ ServedWaits /\ KnownCertificates /\ ProofIsWatched
      /\ CleanCovers /\ WorldOK /\ QueueOK /\ ThreadOK /\ ClientsOK
  BY DEF IInv, TypesOK
<1>2. TypesOK'
  BY <1>1, WorldStep, QueueStep, ThreadStep, ClientsStep DEF TypesOK
<1>3. DownIsFresh' /\ ServedWaits'
  BY <1>1, DownStep, ClientsStep
<1>4. KnownCertificates' /\ ProofIsWatched' /\ CleanCovers'
  BY <1>1, CertificatesStep, WatchedStep, CleanStep
<1>5. AnswersAndProofsAreTrue'
  BY AnswerStep, ProofStep DEF AnswersAndProofsAreTrue
<1> QED BY <1>2, <1>3, <1>4, <1>5, QuickStep, ScanStep DEF IInv

\* The invariant holds of every daemon, for any number of clients, files,
\* requests, changes and faults.
THEOREM DaemonInvariant == Spec => []IInv
BY InitIInv, NextIInv, PTL DEF Spec

\* TypeOK is an invariant.
THEOREM TypeCorrect == Spec => []TypeOK
<1>1. IInv => TypeOK
  BY TypesImplyTypeOK DEF IInv
<1> QED BY <1>1, DaemonInvariant, PTL

\* "Up to date" is true of some moment since the request was taken up, and a
\* proof in memory is true or about to be dropped, unless the watcher lost events
\* without an error.
THEOREM AnswersAndProofsAreTrueHolds == Spec => []AnswersAndProofsAreTrue
<1>1. IInv => AnswersAndProofsAreTrue
  BY DEF IInv
<1> QED BY <1>1, DaemonInvariant, PTL
=============================================================================
