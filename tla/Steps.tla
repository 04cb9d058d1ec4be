-------------------------------- MODULE Steps --------------------------------
(***************************************************************************)
(* The steps of a machine in a case (_stateful/steps.py), for a random     *)
(* case and for a case that follows a trace (_prop/engine/traces.py).      *)
(*                                                                         *)
(* A state of the spec is a number, and the check of the history leaves    *)
(* the set of the states that some order of the calls leads to.  Every     *)
(* call of the code of a user is a step of its own that may raise.  The    *)
(* effects of actions commute, so that a replay of threads is sound.       *)
(***************************************************************************)
EXTENDS Integers, Sequences, FiniteSets, FiniteSetsExt, SequencesExt

CONSTANTS
  Machine,      \* the actions of the machine, in order
  Configs,      \* settings: swarm, clients, maxSteps, concurrent, tasks, spec
  Traces,       \* traces that a caller passes
  NoState,      \* the state of a machine without a spec
  NoTrace       \* the trace of a random case

VARIABLES
  config, trace, at,   \* the settings, the entries that the case follows, and the next
  part, position,      \* the part that runs, and the position of the step in it
  place,               \* the place of the case
  kept,                \* the actions that the swarm kept
  possible, states,    \* the states of the orders of the history, and of the last check
  current,             \* the action that takes a step, or 0
  planned,             \* the planned actions of each client of the section
  erred,              \* a client of the section raised
  spans,               \* the spans that are open
  steps, draws,        \* what the case recorded
  told                 \* the entries of the random case, once it passed

stepVars == <<config, trace, at, part, position, place, kept, possible, states, current,
              planned, erred, spans, steps, draws, told>>

Outside == [part |-> "body", position |-> 0]
Place(p, n) == [part |-> p, position |-> n]
Follows == trace # NoTrace

\* Step, and a draw of the input of an action under its name.
Step(a, client, drain) ==
  [kind |-> "step", action |-> a, client |-> client, drain |-> drain, value |-> 0]
DrawOf(a, value) == [kind |-> "draw", action |-> a, client |-> 0, drain |-> FALSE, value |-> value]
NoClient == -1

\* MUTANT: the step of an action comes after the draws of its input.
EntriesOfDrawsFirst ==
  LET Of(n) == SelectSeq(steps, LAMBDA s : s.after = n)
      Plain(s) == [i \in DOMAIN s |-> s[i].step]
  IN  FlattenSeq([n \in 1 .. Len(draws) |-> <<draws[n]>> \o Plain(Of(n - 1))])
      \o Plain(Of(Len(draws)))

\* entries: a step comes before the draws that the case recorded after it.
Entries ==
  LET Of(n) == SelectSeq(steps, LAMBDA s : s.after = n)
      Plain(s) == [i \in DOMAIN s |-> s[i].step]
  IN  FlattenSeq([n \in 1 .. Len(draws) |-> Append(Plain(Of(n - 1)), draws[n])])
      \o Plain(Of(Len(draws)))

Ended == {"passed", "failed", "refused"}
Running == part \notin Ended

-----------------------------------------------------------------------------
(* The trace *)

\* next_step, for a part: "none", the step of the entry, or the entry of another part.
NextEntry == IF Follows /\ at < Len(trace) THEN trace[at + 1] ELSE DrawOf(0, 0)
IsStepOf(p) ==
  LET e == NextEntry
  IN  /\ e.kind = "step"
      /\ CASE p = "sequential" -> e.client = NoClient /\ ~e.drain
           [] p = "concurrent" -> e.client # NoClient /\ ~e.drain
           [] OTHER            -> e.drain

\* actions: the steps that are left name the actions that the swarm keeps.
Named == {trace[i].action : i \in {j \in at + 1 .. Len(trace) : trace[j].kind = "step"}}

-----------------------------------------------------------------------------
(* The six parts *)

Start(c, t) ==
  /\ config = c /\ trace = t /\ at = 0 /\ part = "swarm" /\ position = 1 /\ place = Outside
  /\ kept = {} /\ possible = {0} /\ states = {NoState} /\ current = 0
  /\ planned = [k \in 0 .. c.clients |-> <<>>] /\ erred = FALSE /\ spans = 0
  /\ steps = <<>> /\ draws = <<>> /\ told = <<>>

Init == \E c \in Configs, t \in Traces \cup {NoTrace} : Start(c, t)

\* The first exception ends the run of the steps, and its finally restores the place.
End(how) ==
  /\ part' = how /\ place' = Outside /\ spans' = 0 /\ current' = 0
  /\ UNCHANGED <<config, trace, at, position, kept, possible, states, planned, erred,
                 steps, draws, told>>

\* The choice of the swarm: a case keeps one action at least.
SwarmChoices ==
  LET last == position = Len(Machine) /\ kept = {}
  IN  IF ~config.swarm \/ last THEN {TRUE}
      ELSE IF Follows THEN {position \in Named} ELSE BOOLEAN

Swarm ==
  /\ part = "swarm" /\ position <= Len(Machine)
  /\ \E keep \in SwarmChoices : kept' = IF keep THEN kept \cup {position} ELSE kept
  /\ place' = Place("swarm", position) /\ position' = position + 1
  /\ UNCHANGED <<config, trace, at, part, possible, states, current, planned, erred, spans,
                 steps, draws, told>>

\* The check keeps the states that the history leaves.
Checked == IF config.spec THEN possible ELSE states

Enter(p) == part' = p /\ position' = 0

Setup ==
  /\ part = "swarm" /\ position > Len(Machine)
  /\ states' = Checked /\ Enter("sequential") /\ place' = Place("setup", 0)
  /\ UNCHANGED <<config, trace, at, kept, possible, current, planned, erred, spans, steps,
                 draws, told>>

EnabledIn(a, s) == Machine[a].enabled = {} \/ s \in Machine[a].enabled
Available(actions) == {a \in actions : \A s \in states : EnabledIn(a, s)}

Drains == {a \in DOMAIN Machine : Machine[a].drain}
Listed == IF part = "sequential" THEN Available(kept)
          ELSE IF position < config.maxSteps THEN Available(Drains) ELSE {}

\* The actions that the flag and the index of a step can choose: a case that follows a
\* trace takes its next entry, the targets stop the sequential steps without one, and
\* the drain, which has no flag, then takes its first action.
Offered(p, listed, most) ==
  IF ~Follows THEN IF p # "drain" /\ position >= most THEN {} ELSE listed
  ELSE IF IsStepOf(p) THEN {NextEntry.action} \cap listed
  ELSE IF p = "drain" /\ listed # {} THEN {Min(listed)} ELSE {}

\* An entry that the part cannot take: the action is not listed, or the step is one
\* past the most.
Refuses(p, listed, most) ==
  /\ IsStepOf(p)
  /\ \/ NextEntry.action \notin listed
     \/ p # "drain" /\ position = most
     \/ p = "concurrent" /\ NextEntry.client \notin 0 .. config.clients

Taken == IF IsStepOf(part) THEN at + 1 ELSE at

Record(a, client, drain) ==
  steps' = Append(steps, [after |-> Len(draws), step |-> Step(a, client, drain)])

\* _take, up to the input: the span is open and the case has the step.
Take ==
  /\ part \in {"sequential", "drain"} /\ current = 0
  /\ ~Refuses(part, Listed, config.maxSteps)
  /\ \E a \in Offered(part, Listed, config.maxSteps) :
       /\ current' = a /\ Record(a, NoClient, part = "drain")
  /\ at' = Taken /\ spans' = spans + 1 /\ place' = Place(part, position)
  /\ UNCHANGED <<config, trace, part, position, kept, possible, states, planned, erred,
                 draws, told>>

Refuse ==
  /\ \/ part = "sequential" /\ current = 0 /\ Refuses(part, Listed, config.maxSteps)
     \/ part = "concurrent" /\ current = 0
          /\ IF config.clients = 1 THEN IsStepOf(part)
             ELSE Refuses(part, {a \in kept : Machine[a].enabled = {}}, config.concurrent)
     \/ part = "drain" /\ current = 0 /\ Refuses(part, Listed, config.maxSteps)
  /\ End("refused")

\* The next entry must be a draw under the label of the input, of a value that its
\* generator can produce.
StepInputs == {1, 2}
AtEntry == Follows /\ at < Len(trace)
CanDraw == AtEntry => /\ NextEntry.kind = "draw" /\ NextEntry.action = current
                      /\ NextEntry.value \in StepInputs

\* The input draws a value, that of the entry, or the target without one.
Values == IF ~Follows THEN StepInputs ELSE IF AtEntry THEN {NextEntry.value} ELSE {Min(StepInputs)}

Input ==
  IF Machine[current].draws
    THEN /\ CanDraw
         /\ \E value \in Values : draws' = Append(draws, DrawOf(current, value))
         /\ at' = IF AtEntry THEN at + 1 ELSE at
    ELSE UNCHANGED <<draws, at>>

RefuseDraw ==
  /\ current # 0 /\ Machine[current].draws /\ ~CanDraw
  /\ End("refused")

\* The orders of the history after a call: an unknown call took effect or did not.
Possible(a) ==
  LET after == {s + Machine[a].effect : s \in possible}
  IN  IF Machine[a].known THEN after ELSE possible \cup after

\* The rest of _take: the input, the run, and the check of the history.  A run or an
\* input that raises is Fail.
Run ==
  /\ part \in {"sequential", "drain"} /\ current # 0
  /\ Input
  /\ possible' = Possible(current)
  /\ states' = IF config.spec THEN possible' ELSE states
  /\ current' = 0 /\ spans' = spans - 1 /\ position' = position + 1
  /\ UNCHANGED <<config, trace, part, place, kept, planned, erred, steps, told>>

Stop ==
  /\ part = "sequential" /\ current = 0
  /\ ~IsStepOf("sequential") \/ ~Follows
  /\ Enter("concurrent") /\ place' = Place("sequential", position)
  /\ UNCHANGED <<config, trace, at, kept, possible, states, current, planned, erred, spans,
                 steps, draws, told>>

\* A step of the concurrent section is planned before any of them runs.
Eligible == {a \in kept : Machine[a].enabled = {}}
ClientsOfStep == IF IsStepOf("concurrent") THEN {NextEntry.client}
                 ELSE IF Follows THEN {0} ELSE 0 .. config.clients

Plan ==
  /\ part = "concurrent" /\ config.clients > 1 /\ current = 0
  /\ ~Refuses(part, Eligible, config.concurrent)
  /\ \E a \in Offered(part, Eligible, config.concurrent), k \in ClientsOfStep :
       /\ current' = a /\ Record(a, k, FALSE)
       /\ planned' = [planned EXCEPT ![k] = Append(@, a)]
  /\ at' = Taken /\ spans' = spans + 1 /\ place' = Place(part, position)
  /\ UNCHANGED <<config, trace, part, position, kept, possible, states, erred, draws, told>>

PlanInput ==
  /\ part = "concurrent" /\ current # 0
  /\ Input
  /\ current' = 0 /\ spans' = spans - 1 /\ position' = position + 1
  /\ UNCHANGED <<config, trace, part, place, kept, possible, states, planned, erred, steps, told>>

StopPlanning ==
  /\ part = "concurrent" /\ current = 0
  /\ ~IsStepOf("concurrent") \/ ~Follows
  /\ Enter(IF config.clients = 1 THEN "drain" ELSE "section")
  /\ place' = IF config.clients = 1 THEN place ELSE Place("concurrent", 0)
  /\ UNCHANGED <<config, trace, at, kept, possible, states, current, planned, erred, spans,
                 steps, draws, told>>

\* Client 0 runs its steps first, and the others then run theirs in any order.
RunsNow(k) == planned[k] # <<>> /\ (k = 0 \/ planned[0] = <<>>)

RunPlanned(k) ==
  /\ part = "section" /\ RunsNow(k)
  /\ possible' = Possible(Head(planned[k]))
  /\ planned' = [planned EXCEPT ![k] = Tail(@)]
  /\ UNCHANGED <<config, trace, at, part, position, place, kept, states, current, erred,
                 spans, steps, draws, told>>

\* A client on a thread that raises ends its own steps, and the driver raises its error
\* when every thread has ended; a task that raises ends the section.
RaiseInThread(k) ==
  /\ part = "section" /\ RunsNow(k) /\ k # 0 /\ ~config.tasks /\ told = <<>> /\ ~Follows
  /\ planned' = [planned EXCEPT ![k] = <<>>] /\ erred' = TRUE
  /\ UNCHANGED <<config, trace, at, part, position, place, kept, possible, states, current,
                 spans, steps, draws, told>>

\* MUTANT: the section ends without a check of its history.
EndSectionUnchecked ==
  /\ part = "section" /\ \A k \in DOMAIN planned : planned[k] = <<>>
  /\ ~erred
  /\ Enter("drain")
  /\ UNCHANGED <<config, trace, at, place, kept, possible, states, current, planned, erred,
                 spans, steps, draws, told>>

EndSection ==
  /\ part = "section" /\ \A k \in DOMAIN planned : planned[k] = <<>>
  /\ ~erred
  /\ states' = Checked /\ Enter("drain")
  /\ UNCHANGED <<config, trace, at, place, kept, possible, current, planned, erred, spans,
                 steps, draws, told>>

\* The drain ends when no drain action is enabled or the most steps ran; settle and the
\* invariant run, and the place is restored.
Settle ==
  /\ part = "drain" /\ current = 0 /\ Listed = {}
  /\ ~IsStepOf("drain")
  /\ part' = "passed" /\ place' = Outside
  /\ told' = IF Follows THEN told ELSE Entries
  /\ UNCHANGED <<config, trace, at, position, kept, possible, states, current, planned,
                 erred, spans, steps, draws>>

\* An enabled, an input, a run, a check, an invariant or settle raises.  Only a random
\* case does: the replay of a case that passed makes the same calls.
Fail ==
  /\ Running /\ ~Follows
  /\ part = "section" /\ erred => \A k \in DOMAIN planned : planned[k] = <<>>
  /\ End("failed")

\* The draws option: a new case follows the trace of the case that passed.
Replay ==
  /\ part = "passed" /\ ~Follows
  /\ trace' = told /\ at' = 0 /\ part' = "swarm" /\ position' = 1 /\ kept' = {}
  /\ possible' = {0} /\ states' = {NoState} /\ steps' = <<>> /\ draws' = <<>>
  /\ UNCHANGED <<config, place, current, planned, erred, spans, told>>

Done == ~Running /\ (part = "passed" => Follows) /\ UNCHANGED stepVars

Next == \/ Swarm \/ Setup \/ Take \/ Refuse \/ RefuseDraw \/ Run \/ Stop
        \/ Plan \/ PlanInput \/ StopPlanning
        \/ \E k \in 1 .. config.clients : RaiseInThread(k)
        \/ \E k \in 0 .. config.clients : RunPlanned(k)
        \/ EndSection \/ Settle \/ Fail \/ Replay \/ Done

Spec == Init /\ [][Next]_stepVars

-----------------------------------------------------------------------------
(* Properties *)

\* The trace of a case that passed is complete: a case that follows it is refused at
\* no entry, takes the same steps on the same clients with the same inputs, though its
\* swarm keeps other actions, and leaves no entry behind.
TraceReplaysTheCase ==
  told # <<>> /\ Follows /\ trace = told =>
    /\ part # "refused"
    /\ part = "passed" => Entries = told /\ at = Len(told)

\* Whenever a step is chosen, and when the case settles, the states are those of the
\* calls so far: enabled, input, the invariant and settle never see older ones.
StatesAreCurrent ==
  config.spec /\ current = 0 /\ part \in {"sequential", "concurrent", "drain", "passed"}
    => states = possible

\* However the steps end, the case has its place back and no span is open.
PlaceIsRestored == ~Running => place = Outside /\ spans = 0

\* Code that runs between the parts, or after the steps raised, finds the case as the
\* calls so far left it.
CaseIsKept == StatesAreCurrent /\ PlaceIsRestored
=============================================================================
