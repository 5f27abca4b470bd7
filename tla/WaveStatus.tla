----------------------------- MODULE WaveStatus -----------------------------
(* The aggregate statuses of a wave of a v3 layer (V3WaveProgress,             *)
(* V3AggregatePhase, V3LayerAggregateStatus): one phase for the partitions     *)
(* that are split and one for those that are materialised.  Terminal           *)
(* partitions end in any order, splits one after the other; a phase counts the *)
(* items of the partitions up to the first that has not ended, and a heartbeat *)
(* thread of its own reports the count.                                        *)
EXTENDS Naturals, Sequences, FiniteSets, FiniteSetsExt

CONSTANTS
    Sizes,          \* the partitions of the wave, by size
    Bound,          \* materializability_bound
    Beats           \* the heartbeats of a phase, a bound

VARIABLES
    completed,      \* per phase, the flag of every partition
    committed,      \* per phase, the counter the heartbeat reads
    ended,          \* the partitions whose job ended, and how
    beat,           \* per phase, the heartbeat thread
    beats,          \* per phase, the heartbeats taken
    closing,        \* the phases still to finish, once the barrier is passed
    outcome,        \* of the wave, with the phases that were finished
    seen            \* the statuses of every phase

vars == <<completed, committed, ended, beat, beats, closing, outcome, seen>>

Partitions == DOMAIN Sizes
IsTerminal(i) == Sizes[i] <= Bound \/ Sizes[i] <= 1

\* The weights of the phases, the sum of which is the number of their items; a
\* phase without any is left out.
Weight(phase, i) == IF (phase = "load") = IsTerminal(i) THEN Sizes[i] ELSE 0
Items(phase, S) == UNION {{i} \X (1 .. Weight(phase, i)) : i \in S}
Weights(phase, S) == Cardinality(Items(phase, S))
Phases == {phase \in {"planning", "load"} : Weights(phase, Partitions) > 0}

WaveAssumption == Sizes \in Seq(Nat) /\ Bound \in Nat

Waiting == [at |-> "wait", count |-> 0]
Status(state, count, aggregate) == [state |-> state, count |-> count, aggregate |-> aggregate]

Init ==
    /\ completed = [phase \in Phases |-> [i \in Partitions |-> Weight(phase, i) = 0]]
    /\ committed = [phase \in Phases |-> 0]
    /\ ended = [i \in Partitions |-> "no"]
    /\ beat = [phase \in Phases |-> Waiting]
    /\ beats = [phase \in Phases |-> 0]
    /\ closing = {}
    /\ outcome = "none"
    /\ seen = [phase \in {"planning", "load"} |->
                 IF phase \in Phases THEN <<Status("Started", 0, TRUE), Status("InProgress", 0, TRUE)>> ELSE <<>>]

\* Prefix below, for a counter of all that ended.
AllEnded(flags) == {i \in Partitions : flags[i]}

\* The partitions before the first that has not ended.
Prefix(flags) == {i \in Partitions : \A j \in 1 .. i : flags[j]}

\* A job ends; under the lock its flag is set and the prefix counted anew.
PhaseOf(i) == IF IsTerminal(i) THEN "load" ELSE "planning"
Ends(i) ==
    /\ ended[i] = "no"
    /\ ~IsTerminal(i) => \A j \in Partitions : IsTerminal(j) \/ j < i => ended[j] # "no"
    /\ ended' = [ended EXCEPT ![i] = "ok"]
    /\ LET flags == [completed[PhaseOf(i)] EXCEPT ![i] = TRUE] IN
       /\ completed' = [completed EXCEPT ![PhaseOf(i)] = flags]
       /\ committed' = [committed EXCEPT ![PhaseOf(i)] = Weights(PhaseOf(i), Prefix(flags))]
    /\ UNCHANGED <<beat, beats, closing, outcome, seen>>

JobFails(i, how) ==
    /\ ended[i] = "no"
    /\ ~IsTerminal(i) => \A j \in Partitions : IsTerminal(j) \/ j < i => ended[j] # "no"
    /\ ended' = [ended EXCEPT ![i] = how]
    /\ UNCHANGED <<completed, committed, beat, beats, closing, outcome, seen>>

\* The heartbeat of a phase: the counter is read, then reported.
Tick(phase) ==
    /\ beat[phase].at = "wait" /\ beats[phase] < Beats
    /\ beat' = [beat EXCEPT ![phase] = [at |-> "tell", count |-> committed[phase]]]
    /\ beats' = [beats EXCEPT ![phase] = @ + 1]
    /\ UNCHANGED <<completed, committed, ended, closing, outcome, seen>>

Tell(phase) ==
    /\ beat[phase].at = "tell"
    /\ beat' = [beat EXCEPT ![phase] = Waiting]
    /\ seen' = [seen EXCEPT ![phase] = Append(@, Status("InProgress", beat[phase].count, TRUE))]
    /\ UNCHANGED <<completed, committed, ended, beats, closing, outcome>>

\* The barrier: all jobs ended.  The first error in partition order is the
\* wave's; a cancellation is also reported by a status of its own, one unit of one.
Barrier ==
    /\ outcome = "none" /\ \A i \in Partitions : ended[i] # "no"
    /\ LET bad   == {i \in Partitions : ended[i] # "ok"}
           error == IF bad = {} THEN "none" ELSE ended[Min(bad)]
       IN  /\ outcome' = IF bad = {} THEN "Completed" ELSE "Failed"
           /\ seen' = IF error = "cancelled"
                      THEN [seen EXCEPT !["planning"] = Append(@, Status("Failed", 1, FALSE))] ELSE seen
    /\ closing' = Phases
    /\ UNCHANGED <<completed, committed, ended, beat, beats>>

\* The heartbeat of the phase is stopped and joined.
Joined(phase) == beat[phase].at = "wait"

\* The phases are finished one after the other, planning first.
Finish(phase) ==
    /\ phase \in closing /\ (phase = "planning" \/ "planning" \notin closing)
    /\ Joined(phase)
    /\ beat' = [beat EXCEPT ![phase].at = IF @ = "wait" THEN "stopped" ELSE @]
    /\ seen' = [seen EXCEPT ![phase] = Append(@, Status(outcome, committed[phase], TRUE))]
    /\ closing' = closing \ {phase}
    /\ UNCHANGED <<completed, committed, ended, beats, outcome>>

Next ==
    \/ \E i \in Partitions : Ends(i) \/ \E how \in {"failed", "cancelled"} : JobFails(i, how)
    \/ \E phase \in Phases : Tick(phase) \/ Tell(phase) \/ Finish(phase)
    \/ Barrier

Spec == Init /\ [][Next]_vars

-----------------------------------------------------------------------------

\* Whatever order the jobs end in: the counts of a phase are those of leading
\* partitions, never go down and reach the total exactly in a completed wave; an
\* unsuccessful one ends with what came before the first failure; the last
\* status is the last.  (The extra status of a cancelled wave is not counted in:
\* it says one unit of one, whatever the phase had reported.)
WaveCounts ==
    \A phase \in Phases :
        LET told  == seen[phase]
            count == {i \in DOMAIN told : told[i].aggregate}
            sums  == {Weights(phase, 1 .. m) : m \in 0 .. Len(Sizes)}
            first == {i \in Partitions : ended[i] # "no" /\ ended[i] # "ok" /\ \A j \in 1 .. i - 1 : ended[j] = "ok"}
        IN  /\ \A i \in count : told[i].count \in sums
            /\ \A i, j \in count : i < j =>
                   told[i].count <= told[j].count /\ told[i].state \notin {"Completed", "Failed"}
            /\ \A i \in count : told[i].state = "Completed" => told[i].count = Weights(phase, Partitions)
            /\ \A i \in count : told[i].state = "Failed" =>
                   \A j \in first : told[i].count >= Weights(phase, 1 .. j - 1)
=============================================================================
