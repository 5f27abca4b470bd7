--------------------------- MODULE PlanningStatus ---------------------------
(* PlanningStageStatusTracker of lexongraph-streaming-indexer and its          *)
(* heartbeat: while a pass plans, the planner's events become statuses for the *)
(* observer, and a thread repeats the last one at an interval.  The two share  *)
(* a snapshot under a mutex and a generation counter.  At the end the tracker  *)
(* stops the thread, waits for it and reports every stage once more.           *)
EXTENDS Integers, Sequences, FiniteSets

CONSTANTS
    Plannings,      \* the sequences of events a planner may report
    Beats           \* the heartbeats of a pass, a bound

VARIABLES
    todo,           \* the planner's events to come
    stages,         \* stage_states: the completed units of every stage seen
    work,           \* the tracker's steps to come in the current call
    snapshot,       \* active_snapshot, a status with its generation
    generation,     \* active_snapshot_generation
    stop,           \* the stop message was sent
    beat,           \* the heartbeat thread, with the snapshot it works on
    beats,          \* how many heartbeats it took
    seen            \* the statuses the observer got

vars == <<todo, stages, work, snapshot, generation, stop, beat, beats, seen>>

Stages == {"Single", "Coarse", "Fine", "Custom"}
States == {"Started", "InProgress", "Completed", "Failed"}

\* A planner's event: the count -1 is an event without one.
Events == [stage : Stages, state : States, count : Int, items : Nat]
TrackerAssumption == Plannings \subseteq Seq(Events)

Status(stage, state, count) == [stage |-> stage, state |-> state, count |-> count]
NoStatus == Status("none", "none", 0)
NoSnapshot == [status |-> NoStatus, generation |-> 0]
Waiting == [at |-> "wait", snapshot |-> NoSnapshot]
Step(do, status) == [do |-> do, status |-> status]

\* What the observer gets.
Said(status, final) ==
    [stage |-> status.stage, state |-> status.state, count |-> status.count, final |-> final]

Init ==
    /\ todo \in Plannings
    /\ stages = <<>>
    /\ work = <<>>
    /\ snapshot = NoSnapshot /\ generation = 0
    /\ stop = FALSE
    /\ beat = Waiting /\ beats = 0
    /\ seen = <<>>

\* What an event makes of its stage's count: the event's own, or, for progress
\* without one, the items it is about added.
Counted(event, before) ==
    IF event.count >= 0 THEN event.count
    ELSE IF event.state = "InProgress" THEN before + event.items ELSE before

\* observe: a stage that was not started is reported so first.  Progress is
\* emitted, then made the snapshot; an end clears the snapshot, then is emitted.
Observe ==
    /\ work = <<>> /\ todo # <<>> /\ ~stop
    /\ LET event   == Head(todo)
           known   == event.stage \in DOMAIN stages
           before  == IF known THEN stages[event.stage] ELSE 0
           count   == Counted(event, before)
           status  == Status(event.stage, event.state, count)
           started == IF known \/ event.state = "Started" THEN <<>>
                      ELSE <<Step("emit", Status(event.stage, "Started", 0))>>
       IN  /\ stages' = [s \in DOMAIN stages \cup {event.stage} |-> IF s = event.stage THEN count ELSE stages[s]]
           /\ work' = started \o
                 IF event.state \in {"Started", "InProgress"}
                 THEN <<Step("emit", status), Step("bump", NoStatus), Step("set", status)>>
                 ELSE <<Step("bump", NoStatus), Step("clear", NoStatus), Step("emit", status)>>
    /\ todo' = Tail(todo)
    /\ UNCHANGED <<snapshot, generation, stop, beat, beats, seen>>

\* complete_all, and fail_all at any time: the snapshot is cleared, the thread
\* stopped and joined, then every stage is reported.
CloseAll(state) ==
    /\ work = <<>> /\ ~stop
    /\ state = "Completed" => todo = <<>>
    /\ LET order == CHOOSE s \in [1 .. Cardinality(DOMAIN stages) -> DOMAIN stages] :
                        {s[i] : i \in DOMAIN s} = DOMAIN stages
       IN  work' = <<Step("bump", NoStatus), Step("clear", NoStatus), Step("stop", NoStatus), Step("join", NoStatus)>>
                   \o [i \in DOMAIN order |-> Step("final", Status(order[i], state, stages[order[i]]))]
    /\ todo' = <<>>
    /\ UNCHANGED <<stages, snapshot, generation, stop, beat, beats, seen>>

\* Joined below, for a stop that does not wait for the thread.
JoinedAtOnce == stop

Joined == beat.at = "stopped"

\* One step of the tracker.
Work ==
    /\ work # <<>>
    /\ work' = Tail(work)
    /\ LET step == Head(work) IN
       /\ seen' = IF step.do \in {"emit", "final"} THEN Append(seen, Said(step.status, step.do = "final")) ELSE seen
       /\ generation' = IF step.do = "bump" THEN generation + 1 ELSE generation
       /\ snapshot' = CASE step.do = "set"   -> [status |-> step.status, generation |-> generation]
                        [] step.do = "clear" -> NoSnapshot
                        [] OTHER -> snapshot
       /\ stop' = (stop \/ step.do = "stop")
       /\ step.do = "join" => Joined
    /\ UNCHANGED <<todo, stages, beat, beats>>

\* The thread: a timeout takes the snapshot, if there is one;
Take ==
    /\ beat.at = "wait" /\ ~stop /\ beats < Beats
    /\ snapshot # NoSnapshot
    /\ beat' = [at |-> "taken", snapshot |-> snapshot]
    /\ beats' = beats + 1
    /\ UNCHANGED <<todo, stages, work, snapshot, generation, stop, seen>>

\* it is dropped if it is not the latest any more,
Compare ==
    /\ beat.at = "taken"
    /\ beat' = IF beat.snapshot.generation = generation THEN [beat EXCEPT !.at = "current"] ELSE Waiting
    /\ UNCHANGED <<todo, stages, work, snapshot, generation, stop, beats, seen>>

\* and reported as progress otherwise.
Report ==
    /\ beat.at = "current"
    /\ seen' = Append(seen, Said([beat.snapshot.status EXCEPT !.state = "InProgress"], FALSE))
    /\ beat' = Waiting
    /\ UNCHANGED <<todo, stages, work, snapshot, generation, stop, beats>>

Stopped ==
    /\ beat.at = "wait" /\ stop
    /\ beat' = [Waiting EXCEPT !.at = "stopped"]
    /\ UNCHANGED <<todo, stages, work, snapshot, generation, stop, beats, seen>>

Next ==
    \/ Observe \/ Work
    \/ \E state \in {"Completed", "Failed"} : CloseAll(state)
    \/ Take \/ Compare \/ Report \/ Stopped

Spec == Init /\ [][Next]_vars

-----------------------------------------------------------------------------

\* What an observer may rely on, wherever the heartbeat thread stands: a stage
\* is reported as started first; once the tracker reports how the pass ended, no
\* stage is reported in progress again, and the final count of a stage is the
\* one its last event left.
StatusOrdered ==
    /\ \A i \in DOMAIN seen : \E j \in 1 .. i : seen[j].stage = seen[i].stage /\ seen[j].state = "Started"
    /\ \A i, j \in DOMAIN seen : i < j /\ seen[i].final => seen[j].final
    /\ \A i \in DOMAIN seen : seen[i].final => seen[i].count = stages[seen[i].stage]

\* The claim of design.md: within one execution of a phase the completed count
\* does not go down.
CountsMonotone ==
    \A i, j \in DOMAIN seen : i < j /\ seen[i].stage = seen[j].stage => seen[i].count <= seen[j].count
=============================================================================
