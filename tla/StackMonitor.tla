---------------------------- MODULE StackMonitor ----------------------------
(***************************************************************************)
(* The stack health monitor: StackMonitor in                               *)
(* gateway/src/obs_gateway/stack.py.  A check sends all probes at once;    *)
(* each is answered in its own time, and the answers are processed         *)
(* together, without an await, when the last one is in.                    *)
(***************************************************************************)
EXTENDS FallbackLog, FiniteSets, Functions, SequencesExt

CONSTANTS
    TargetOrder,    \* the keys of settings.stack_targets, in order
    Triggers,       \* settings.fallback_trigger_components
    MaxChanges,     \* bound on the changes of the components' real health
    MaxRestarts     \* bound on the restarts of the gateway

Targets == Range(TargetOrder)

ASSUME MonitorAssumption ==
    /\ TargetOrder \in Seq(Targets) /\ IsInjective(TargetOrder)
    /\ {MaxChanges, MaxRestarts} \subseteq Nat

VARIABLES
    up,         \* would a component answer 2xx in time now?
    monitor,    \* the task: its place in run(), and the answers of the check
    components, \* self.components: component -> last observed health
    gauge,      \* FALLBACK_ACTIVE
    missed,     \* history: a health record could not be written
    changes,    \* changes of real health so far
    restarts    \* restarts so far

monitorVars == <<up, monitor, components, gauge, missed, changes, restarts>>
stackVars == <<fallbackVars, monitorVars>>

NoAnswers == [c \in {} |-> TRUE]

MonitorTypeOK ==
    /\ up \in [Targets -> BOOLEAN]
    /\ monitor.pc \in {"probing", "sleeping"}
    /\ \A seen \in {monitor.answers, components} :
          DOMAIN seen \subseteq Targets /\ \A c \in DOMAIN seen : seen[c] \in BOOLEAN
    /\ gauge \in BOOLEAN /\ missed \in BOOLEAN
    /\ openFiles \subseteq Files
    /\ \A i \in DOMAIN files["health"] :
          files["health"][i] \in [component : Targets, healthy : BOOLEAN, active : BOOLEAN]

\* fallback_active, for the observations seen.
Active(seen) == \E c \in Triggers \cap DOMAIN seen : ~seen[c]

FallbackActive == Active(components)

\* The first observation is recorded only when unhealthy, then every flip.
Flipped(c) ==
    IF c \in DOMAIN components THEN components[c] # monitor.answers[c]
    ELSE ~monitor.answers[c]

\* A sequence of numbers has exactly the elements of a set, in ascending order.
Ascending(s, set) ==
    /\ Range(s) = set
    /\ \A i, j \in DOMAIN s : i < j => s[i] < s[j]

\* The targets that flipped, in their order.
FlippedInOrder ==
    LET flipped == {i \in DOMAIN TargetOrder : Flipped(TargetOrder[i])}
        at == CHOOSE s \in [1 .. Cardinality(flipped) -> flipped] : Ascending(s, flipped)
    IN  [i \in DOMAIN at |-> TargetOrder[at[i]]]

\* Mutant: decides `active` from the observations before the check.
TransitionsEarly ==
    LET flips == FlippedInOrder
    IN  [i \in DOMAIN flips |->
            [component |-> flips[i], healthy |-> monitor.answers[flips[i]],
             active |-> FallbackActive]]

\* The records of _record_transition for one check: they are written after
\* all the observations have been updated.
Transitions ==
    LET flips == FlippedInOrder
    IN  [i \in DOMAIN flips |->
            [component |-> flips[i], healthy |-> monitor.answers[flips[i]],
             active |-> Active(monitor.answers)]]

StackInit ==
    /\ FallbackInit
    /\ up \in [Targets -> BOOLEAN]
    /\ monitor = [pc |-> "probing", answers |-> NoAnswers]
    /\ components = NoAnswers /\ gauge = FALSE /\ missed = FALSE
    /\ changes = 0 /\ restarts = 0

\* The world: a component goes down or comes back.
ComponentChanges(c) ==
    /\ changes < MaxChanges /\ changes' = changes + 1
    /\ up' = [up EXCEPT ![c] = ~@]
    /\ UNCHANGED <<fallbackVars, monitor, components, gauge, missed, restarts>>

\* _probe returns: 2xx, or another status, an exception or a timeout.
ProbeReturns(c) ==
    /\ monitor.pc = "probing" /\ c \notin DOMAIN monitor.answers
    /\ monitor' = [monitor EXCEPT !.answers =
                     [d \in DOMAIN @ \cup {c} |-> IF d = c THEN up[c] ELSE @[d]]]
    /\ UNCHANGED <<fallbackVars, up, components, gauge, missed, changes, restarts>>

\* Mutant: a component seen down stays down.
CheckEndsSticky ==
    /\ monitor.pc = "probing" /\ DOMAIN monitor.answers = Targets
    /\ components' = [c \in Targets |->
                        monitor.answers[c] /\ (c \in DOMAIN components => components[c])]
    /\ WriteHealth(Transitions)
    /\ gauge' = Active(monitor.answers)
    /\ monitor' = [pc |-> "sleeping", answers |-> NoAnswers]
    /\ missed' = (missed \/ (Transitions # <<>> /\ ~Handler("health")))
    /\ UNCHANGED <<up, changes, restarts>>

\* Mutant: only the observations of a healthy stack are stored.
CheckEndsHealthyOnly ==
    /\ monitor.pc = "probing" /\ DOMAIN monitor.answers = Targets
    /\ components' = IF \E c \in Targets : ~monitor.answers[c] THEN components ELSE monitor.answers
    /\ WriteHealth(Transitions)
    /\ gauge' = Active(monitor.answers)
    /\ monitor' = [pc |-> "sleeping", answers |-> NoAnswers]
    /\ missed' = (missed \/ (Transitions # <<>> /\ ~Handler("health")))
    /\ UNCHANGED <<up, changes, restarts>>

\* check_once after the gather.
CheckEnds ==
    /\ monitor.pc = "probing" /\ DOMAIN monitor.answers = Targets
    /\ components' = monitor.answers
    /\ WriteHealth(Transitions)
    /\ gauge' = Active(monitor.answers)
    /\ monitor' = [pc |-> "sleeping", answers |-> NoAnswers]
    /\ missed' = (missed \/ (Transitions # <<>> /\ ~Handler("health")))
    /\ UNCHANGED <<up, changes, restarts>>

\* asyncio.sleep is over: the next check starts.
SleepEnds ==
    /\ monitor.pc = "sleeping"
    /\ monitor' = [monitor EXCEPT !.pc = "probing"]
    /\ UNCHANGED <<fallbackVars, up, components, gauge, missed, changes, restarts>>

\* The gateway stops or crashes, whatever it is doing, and starts again.
MonitorRestarts ==
    /\ restarts < MaxRestarts /\ restarts' = restarts + 1
    /\ monitor' = [pc |-> "probing", answers |-> NoAnswers]
    /\ components' = NoAnswers /\ gauge' = FALSE
    /\ UNCHANGED <<up, missed, changes>>

StackNext ==
    \/ \E c \in Targets : ComponentChanges(c) \/ ProbeReturns(c)
    \/ CheckEnds
    \/ SleepEnds
    \/ MonitorRestarts /\ FallbackEnds
    \/ DirChanges /\ UNCHANGED monitorVars

StackSpec == StackInit /\ [][StackNext]_stackVars

\* Probes time out after health_timeout_seconds, sleeps end, and the event
\* loop runs what is ready.
StackFairness ==
    /\ \A c \in Targets : WF_stackVars(ProbeReturns(c))
    /\ WF_stackVars(CheckEnds) /\ WF_stackVars(SleepEnds)

FairStackSpec == StackSpec /\ StackFairness

-----------------------------------------------------------------------------
\* Of the component's records in stack-health.jsonl, their positions.
RecordsOf(c) == {i \in DOMAIN files["health"] : files["health"][i].component = c}

LastRecord(c) == files["health"][CHOOSE i \in RecordsOf(c) : \A j \in RecordsOf(c) : j <= i]

\* Until a restart, and while every record could be written, whoever reads the
\* health file knows what the gateway knows: per component the records
\* alternate, starting with an outage; the last one is the health last observed;
\* and the last record of all carries the current fallback_active, which the
\* gauge shows too.
HealthLogExplainsState ==
    restarts = 0 /\ ~missed =>
    LET h == files["health"] IN
    /\ \A c \in Targets : \A i \in RecordsOf(c) :
          LET earlier == {j \in RecordsOf(c) : j < i} IN
          h[i].healthy <=> \E j \in earlier : ~h[j].healthy /\ \A k \in earlier : k <= j
    /\ \A c \in DOMAIN components :
          components[c] = (RecordsOf(c) # {} => LastRecord(c).healthy)
    /\ FallbackActive = (h # <<>> /\ h[Len(h)].active)
    /\ gauge = FallbackActive

\* docs/REQUIREMENTS.md, NFR-10: "recovery is automatic and recorded": the last
\* record of a component that was seen to be healthy is not an outage.
RecoveryRecorded ==
    \A c \in DOMAIN components :
        components[c] => (RecordsOf(c) # {} => LastRecord(c).healthy)

\* A lasting outage of a trigger component turns the fallback on for good.
OutageDetected ==
    (\E c \in Triggers \cap Targets : <>[]~up[c]) => <>[]FallbackActive

\* Once all trigger components stay up, the fallback is off for good.
RecoveryDetected ==
    (\A c \in Triggers \cap Targets : <>[]up[c]) => <>[]~FallbackActive
=============================================================================
