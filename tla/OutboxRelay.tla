----------------------------- MODULE OutboxRelay -----------------------------
(***************************************************************************)
(* The outbox coordinators of the url-service replicas.  Each replica runs *)
(* a poller that claims unpublished rows under a lease, a channel of jobs, *)
(* and workers that publish a row to RabbitMQ and then mark it published.  *)
(* The replicas share the outbox table and the broker.                     *)
(*                                                                         *)
(* Events are numbered by created_at.  A lease is live or not: NULL and a  *)
(* locked_until in the past are the same to every statement.  Faults of    *)
(* the environment are counted, and MaxFaults bounds them.                 *)
(***************************************************************************)
EXTENDS Naturals, Sequences, FiniteSets

CONSTANTS
    NumEvents,    \* rows ever inserted into the outbox
    Replicas,     \* url-service processes
    Workers,      \* goroutines of one worker pool (outboxWorkerCount)
    BatchSize,    \* LIMIT of a poll, and capacity of the channel (outboxBatchSize)
    MaxFaults,    \* crashes, shutdowns, failed statements, early lapses
    MaxDrops      \* AMQP channels that break

ASSUME ParametersOK ==
    /\ NumEvents \in Nat /\ BatchSize \in Nat \ {0}
    /\ MaxFaults \in Nat /\ MaxDrops \in Nat

Events == 1 .. NumEvents

VARIABLES
    outbox,      \* committed rows
    published,   \* rows with published_at set
    leased,      \* rows whose locked_until is in the future
    pc,          \* what the poller of a replica is doing
    batch,       \* claimed rows it has still to put on the channel
    jobs,        \* the channel
    stage,       \* what each worker is doing
    task,        \* the row it is doing it to
    stopping,    \* replicas whose context is done
    connected,   \* replicas whose AMQP channel is open
    handed,      \* how often Publish has returned nil for a row
    stored,      \* rows the broker has put on a queue
    faults, drops

table == <<outbox, published, leased>>
poller == <<pc, batch>>
workers == <<stage, task>>
broker == <<connected, handed, stored, drops>>
vars == <<table, poller, jobs, workers, stopping, broker, faults>>

-----------------------------------------------------------------------------
Init ==
    /\ outbox = {} /\ published = {} /\ leased = {}
    /\ pc = [k \in Replicas |-> "polling"]
    /\ batch = [k \in Replicas |-> {}]
    /\ jobs = [k \in Replicas |-> <<>>]
    /\ stage = [k \in Replicas |-> [w \in Workers |-> "idle"]]
    /\ task = [k \in Replicas |-> [w \in Workers |-> 0]]
    /\ stopping = {} /\ connected = Replicas
    /\ handed = [e \in Events |-> 0] /\ stored = {}
    /\ faults = 0 /\ drops = 0

Running(k) == pc[k] \notin {"returned", "down"}

Fault == faults < MaxFaults /\ faults' = faults + 1

Goto(k, label) == pc' = [pc EXCEPT ![k] = label]

\* The worker w of k leaves its job.
RestForever(k, w) ==
    /\ stage' = [stage EXCEPT ![k][w] = "exited"]
    /\ task' = [task EXCEPT ![k][w] = 0]
Rest(k, w) ==
    /\ stage' = [stage EXCEPT ![k][w] = "idle"]
    /\ task' = [task EXCEPT ![k][w] = 0]

-----------------------------------------------------------------------------
(* The table *)

\* A request commits a row (UrlService has the transactions).
InsertEvent(e) ==
    /\ e \notin outbox
    /\ outbox' = outbox \cup {e}
    /\ UNCHANGED <<published, leased, poller, jobs, workers, stopping,
                   broker, faults>>

ClaimableThoughLeased == outbox \ published
Claimable == outbox \ (published \cup leased)

\* The n oldest members of S.
Oldest(S, n) == {e \in S : Cardinality({d \in S : d < e}) < n}

HeldBy(k, e) ==
    \/ e \in batch[k]
    \/ \E i \in 1 .. Len(jobs[k]) : jobs[k][i] = e
    \/ \E w \in Workers : task[k][w] = e

Held(e) == \E k \in Replicas : HeldBy(k, e)

\* Thirty seconds pass.  It is a fault when somebody still works on the row.
Lapse(e) ==
    /\ e \in leased
    /\ leased' = leased \ {e}
    /\ IF Held(e) THEN Fault ELSE UNCHANGED faults
    /\ UNCHANGED <<outbox, published, poller, jobs, workers, stopping, broker>>

-----------------------------------------------------------------------------
(* The poller *)

\* One statement picks and leases; SKIP LOCKED makes it atomic for the others.
\* RETURNING promises no order, so a batch is a set.
FetchUnpublished(k) ==
    /\ pc[k] = "polling" /\ k \notin stopping
    /\ LET claimed == Oldest(Claimable, BatchSize)
       IN  /\ leased' = leased \cup claimed
           /\ batch' = [batch EXCEPT ![k] = claimed]
    /\ Goto(k, "feeding")
    /\ UNCHANGED <<outbox, published, jobs, workers, stopping, broker, faults>>

\* The statement fails, before or after it took effect.
FetchFails(k) ==
    /\ pc[k] = "polling"
    /\ \/ k \in stopping /\ UNCHANGED <<leased, faults>>
       \/ Fault /\ leased' \in {leased, leased \cup Oldest(Claimable, BatchSize)}
    /\ Goto(k, "waiting")
    /\ UNCHANGED <<outbox, published, batch, jobs, workers, stopping, broker>>

\* jobs <- record, while the channel has room.
Feed(k) ==
    /\ pc[k] = "feeding" /\ Len(jobs[k]) < BatchSize
    /\ \E e \in batch[k] :
          /\ jobs' = [jobs EXCEPT ![k] = Append(@, e)]
          /\ batch' = [batch EXCEPT ![k] = @ \ {e}]
    /\ UNCHANGED <<table, pc, workers, stopping, broker, faults>>

\* The batch is fed, or the context is done and its rest is forgotten.
FedStubborn(k) == batch[k] = {}
Fed(k) == batch[k] = {} \/ k \in stopping

PollReturns(k) ==
    /\ pc[k] = "feeding" /\ Fed(k)
    /\ Goto(k, "waiting")
    /\ batch' = [batch EXCEPT ![k] = {}]
    /\ UNCHANGED <<table, jobs, workers, stopping, broker, faults>>

Tick(k) ==
    /\ pc[k] = "waiting"
    /\ Goto(k, "polling")
    /\ UNCHANGED <<table, batch, jobs, workers, stopping, broker, faults>>

\* close(jobs), then workers.Wait(); the jobs the workers left are garbage.
Close(k) ==
    /\ pc[k] = "waiting" /\ k \in stopping
    /\ Goto(k, "closing")
    /\ UNCHANGED <<table, batch, jobs, workers, stopping, broker, faults>>

RunReturns(k) ==
    /\ pc[k] = "closing"
    /\ \A w \in Workers : stage[k][w] = "exited"
    /\ Goto(k, "returned")
    /\ jobs' = [jobs EXCEPT ![k] = <<>>]
    /\ UNCHANGED <<table, batch, workers, stopping, broker, faults>>

-----------------------------------------------------------------------------
(* A worker *)

\* The select may pick a job though the context is done as well.
Take(k, w) ==
    /\ Running(k) /\ stage[k][w] = "idle" /\ jobs[k] # <<>>
    /\ stage' = [stage EXCEPT ![k][w] = "publish"]
    /\ task' = [task EXCEPT ![k][w] = Head(jobs[k])]
    /\ jobs' = [jobs EXCEPT ![k] = Tail(@)]
    /\ UNCHANGED <<table, poller, stopping, broker, faults>>

WorkerExits(k, w) ==
    /\ Running(k) /\ stage[k][w] = "idle" /\ k \in stopping
    /\ stage' = [stage EXCEPT ![k][w] = "exited"]
    /\ UNCHANGED <<table, poller, jobs, task, stopping, broker, faults>>

\* Publish returns nil once the frames are written.  Nobody waits for a confirm:
\* the broker may drop the message, because no queue is bound yet, or because
\* the connection breaks before the frames arrive.
Publish(k, w) ==
    /\ stage[k][w] = "publish" /\ k \in connected
    /\ handed' = [handed EXCEPT ![task[k][w]] = @ + 1]
    /\ stored' \in {stored, stored \cup {task[k][w]}}
    /\ stage' = [stage EXCEPT ![k][w] = "mark"]
    /\ UNCHANGED <<table, poller, jobs, task, stopping, connected, drops, faults>>

\* The row keeps its lease; another poll takes it when that has lapsed.
MarkAnyway(k, w) ==
    /\ published' = published \cup {task[k][w]}
    /\ leased' = leased \ {task[k][w]}
LeaveLeased(k, w) == UNCHANGED <<published, leased>>

PublishFails(k, w) ==
    /\ stage[k][w] = "publish" /\ k \notin connected
    /\ LeaveLeased(k, w)
    /\ Rest(k, w)
    /\ UNCHANGED <<outbox, poller, jobs, stopping, broker, faults>>

\* A row another copy has marked already matches no WHERE clause.
MarkPublished(k, w) ==
    /\ stage[k][w] = "mark" /\ k \notin stopping
    /\ published' = published \cup {task[k][w]}
    /\ leased' = leased \ ({task[k][w]} \ published)
    /\ Rest(k, w)
    /\ UNCHANGED <<outbox, poller, jobs, stopping, broker, faults>>

\* The UPDATE fails; with the context done it always does.
MarkFails(k, w) ==
    /\ stage[k][w] = "mark"
    /\ IF k \in stopping THEN UNCHANGED faults ELSE Fault
    /\ Rest(k, w)
    /\ UNCHANGED <<table, poller, jobs, stopping, broker>>

-----------------------------------------------------------------------------
(* The process *)

\* SIGTERM: main cancels the context before the server has drained.
Shutdown(k) ==
    /\ Running(k) /\ k \notin stopping /\ Fault
    /\ stopping' = stopping \cup {k}
    /\ UNCHANGED <<table, poller, jobs, workers, broker>>

\* The process ends: it crashes, or main returns, waiting for no coordinator.
Exit(k) ==
    /\ pc[k] # "down"
    /\ IF k \in stopping THEN UNCHANGED faults ELSE Fault
    /\ Goto(k, "down")
    /\ batch' = [batch EXCEPT ![k] = {}]
    /\ jobs' = [jobs EXCEPT ![k] = <<>>]
    /\ stage' = [stage EXCEPT ![k] = [w \in Workers |-> "idle"]]
    /\ task' = [task EXCEPT ![k] = [w \in Workers |-> 0]]
    /\ UNCHANGED <<table, stopping, broker>>

\* A new process connects before it starts its coordinator.
Restart(k) ==
    /\ pc[k] = "down"
    /\ Goto(k, "polling")
    /\ stopping' = stopping \ {k}
    /\ connected' = connected \cup {k}
    /\ UNCHANGED <<table, batch, jobs, workers, handed, stored, drops, faults>>

\* The channel or its connection breaks.  Nothing ever opens another one.
ChannelBreaks(k) ==
    /\ k \in connected /\ drops < MaxDrops
    /\ connected' = connected \ {k}
    /\ drops' = drops + 1
    /\ UNCHANGED <<table, poller, jobs, workers, stopping, handed, stored, faults>>

-----------------------------------------------------------------------------
PollerStep(k) ==
    \/ FetchUnpublished(k) \/ FetchFails(k) \/ Feed(k) \/ PollReturns(k)
    \/ Tick(k) \/ Close(k) \/ RunReturns(k)

WorkerStep(k, w) ==
    \/ Take(k, w) \/ WorkerExits(k, w)
    \/ Publish(k, w) \/ PublishFails(k, w)
    \/ MarkPublished(k, w) \/ MarkFails(k, w)

ProcessStep(k) == Shutdown(k) \/ Exit(k) \/ Restart(k) \/ ChannelBreaks(k)

Next ==
    \/ \E e \in Events : InsertEvent(e) \/ Lapse(e)
    \/ \E k \in Replicas : PollerStep(k) \/ ProcessStep(k)
    \/ \E k \in Replicas, w \in Workers : WorkerStep(k, w)

Spec == Init /\ [][Next]_vars

\* Goroutines that can run do, and a select does not ignore a ready case for
\* ever.  Leases lapse.
GoroutineFairness ==
    /\ \A e \in Events : WF_vars(Lapse(e))
    /\ \A k \in Replicas :
          /\ WF_vars(FetchUnpublished(k)) /\ WF_vars(FetchFails(k))
          /\ WF_vars(Feed(k)) /\ WF_vars(PollReturns(k))
          /\ WF_vars(Tick(k)) /\ SF_vars(Close(k)) /\ WF_vars(RunReturns(k))
          /\ \A w \in Workers : WF_vars(WorkerStep(k, w))

\* A process whose coordinator has returned ends (main does not even wait for
\* that), and the Deployment starts the next one.  Nothing makes a channel break,
\* a replica stop, or a process with a running coordinator end.
ProcessFairness ==
    \A k \in Replicas :
        WF_vars(pc[k] = "returned" /\ Exit(k)) /\ WF_vars(Restart(k))

FairSpec == Spec /\ GoroutineFairness /\ ProcessFairness

-----------------------------------------------------------------------------
(* Properties *)

\* The type of every variable.
TypeOK ==
    /\ outbox \subseteq Events /\ published \subseteq Events /\ leased \subseteq Events
    /\ pc \in [Replicas -> {"polling", "feeding", "waiting", "closing",
                            "returned", "down"}]
    /\ batch \in [Replicas -> SUBSET Events]
    /\ jobs \in [Replicas -> Seq(Events)]
    /\ stage \in [Replicas -> [Workers -> {"idle", "publish", "mark", "exited"}]]
    /\ task \in [Replicas -> [Workers -> 0 .. NumEvents]]
    /\ stopping \subseteq Replicas /\ connected \subseteq Replicas
    /\ handed \in [Events -> Nat] /\ stored \subseteq Events
    /\ faults \in 0 .. MaxFaults /\ drops \in 0 .. MaxDrops

\* A row is marked published only after Publish has returned nil for it in some
\* replica: no crash, lapse or shutdown between claim and mark makes the
\* coordinators forget a row they have not handed over.
PublishedWasHanded == \A e \in published : handed[e] > 0

\* A published row is leased to nobody, though a copy of it may still be queued in
\* another replica: no poll can claim it again.
PublishedIsUnleased == published \cap leased = {}

\* Each duplicate has a fault to blame: leases, SKIP LOCKED and the channel let
\* no row be handed over twice while every statement and process is well.
DuplicatesCostFaults == \A e \in Events : handed[e] <= 1 + faults

\* The replicas together do what EventRelay promises of a single list.
Relay == INSTANCE EventRelay
            WITH accepted <- outbox,
                 handed <- {e \in Events : handed[e] > 0},
                 settled <- published

RelayIsSafe == Relay!Spec

\* Every committed row is handed over and marked in the end, with the faults the
\* run allows, as long as the AMQP channels hold.
RelayIsFair == Relay!FairSpec

\* A coordinator whose context is done returns: no worker, full channel or claimed
\* batch keeps workers.Wait() waiting until main ends the process.
CoordinatorsReturn ==
    \A k \in Replicas : k \in stopping ~> pc[k] \in {"returned", "down"}

-----------------------------------------------------------------------------
(* Why RelayIsSafe holds: an inductive invariant. *)

\* What replicas hold is committed, and what they are about to mark was handed over.
CopiesAreCommitted ==
    \A k \in Replicas :
        /\ batch[k] \subseteq outbox
        /\ jobs[k] \in Seq(outbox)
        /\ \A w \in Workers :
              /\ stage[k][w] \in {"publish", "mark"} => task[k][w] \in outbox
              /\ stage[k][w] = "mark" => handed[task[k][w]] > 0

Inv == TypeOK /\ CopiesAreCommitted /\ PublishedWasHanded /\ PublishedIsUnleased

-----------------------------------------------------------------------------
(* Why DuplicatesCostFaults holds: every copy of a row has been paid for. *)

\* The copies of a row that may still be handed over, by where they are.
Batched(e) == {k \in Replicas : e \in batch[k]}
Places == UNION {{<<k, i>> : i \in 1 .. Len(jobs[k])} : k \in Replicas}
Queued(e) == {p \in Places : jobs[p[1]][p[2]] = e}
Publishing(e) ==
    {p \in Replicas \X Workers : stage[p[1]][p[2]] = "publish" /\ task[p[1]][p[2]] = e}

Pending(e) == Cardinality(Batched(e)) + Cardinality(Queued(e)) + Cardinality(Publishing(e))

\* A poll is going to copy the row once more, without another fault: no live lease
\* is backed by a replica that can still mark the row.
Due(e) ==
    /\ e \notin published
    /\ e \in leased => \A k \in Replicas \ stopping : ~ HeldBy(k, e)

CopiesCostFaults ==
    \A e \in Events : handed[e] + Pending(e) + (IF Due(e) THEN 1 ELSE 0) <= 1 + faults

CopiesAreFinite ==
    \A e \in Events :
        IsFiniteSet(Batched(e)) /\ IsFiniteSet(Queued(e)) /\ IsFiniteSet(Publishing(e))

\* Who is not at work on a row holds none, and a coordinator closes its channel
\* only when its context is done.
IdleHoldNothing ==
    \A k \in Replicas :
        /\ pc[k] # "feeding" => batch[k] = {}
        /\ pc[k] = "down" => jobs[k] = <<>>
        /\ pc[k] = "closing" => k \in stopping
        /\ \A w \in Workers :
              /\ pc[k] = "down" => stage[k][w] = "idle"
              /\ stage[k][w] \in {"idle", "exited"} => task[k][w] = 0

CountInv == Inv /\ IdleHoldNothing /\ CopiesAreFinite /\ CopiesCostFaults

-----------------------------------------------------------------------------
(* Why CoordinatorsReturn holds, but for fairness: the work of a replica runs out. *)

Doing(k, label) == {w \in Workers : stage[k][w] = label}

\* The most steps the workers of k can still make when nothing is put on its channel.
WorkLeft(k) ==
    3 * Len(jobs[k]) + 3 * Cardinality(Doing(k, "publish"))
    + 2 * Cardinality(Doing(k, "mark")) + Cardinality(Doing(k, "idle"))

\* The same with what its poller may still put there, one step for each row.
Owing(k) == WorkLeft(k) + 4 * Cardinality(batch[k])

Stands(k) == UNCHANGED <<pc[k], batch[k], jobs[k], stage[k], task[k]>>

\* The poller goes from one place of its loop to another, but claims no row.
PollsInVain(k) ==
    /\ pc[k] # "closing" /\ pc'[k] \in {"polling", "waiting", "closing"}
    /\ Owing(k)' <= Owing(k)

Drains ==
    \A k \in stopping : Running(k) =>
        \/ Stands(k)
        \/ pc'[k] = pc[k] /\ Owing(k)' < Owing(k)
        \/ PollsInVain(k)
        \/ pc[k] = "closing" /\ pc'[k] = "returned" /\ \A w \in Workers : stage[k][w] = "exited"
        \/ pc'[k] = "down"

\* From the moment its context is done, whatever the workers of a coordinator do,
\* and each row that its poller still feeds, lowers a number that nothing raises:
\* not the poller, whose statements fail from then on, and no other replica.  Once the
\* channel is being closed, the last worker's exit alone lets Run return.
CoordinatorsDrain == [][Drains]_vars

-----------------------------------------------------------------------------
(* What the documents say and the code does not do. *)

\* main_docs.md:3832: "The outbox guarantees at-least-once for events that do
\* commit".  Publish succeeds without a confirm, so a marked row may be lost.
PublishedIsStored == published \subseteq stored

=============================================================================
