------------------------------ MODULE MCHistories ----------------------------
(***************************************************************************)
(* Instances of the modules of histories.  Four record a history: clients  *)
(* and stale calls that use it freely, the clients of concurrently, the    *)
(* log of timed calls, and the steps of a machine: a counter with an       *)
(* action that draws, one whose calls stay unknown, and one that is        *)
(* enabled above zero and drains.  Three check one: for a linearization, on *)
(* threads, and for the anomalies of transactions.                         *)
(***************************************************************************)
EXTENDS Clients, Intervals, Pool, Linearizable

-----------------------------------------------------------------------------
(***************************************************************************)
(* A register per key: w writes 1, z writes 0, m writes 1 or does nothing,   *)
(* r0 and r1 read their value at each of their keys, and x raises at a key   *)
(* that holds 1.                                                             *)
(* A read whose outcome is not known may have read anything.  A call without *)
(* keys is on every key.                                                     *)
(***************************************************************************)

Keys == {"a", "b"}

KeyedStates == [Keys -> 0 .. 1]

KeyedInitial == [k \in Keys |-> 0]

On(c) == IF c.keys = <<>> THEN Keys ELSE ToSet(c.keys)

Written(s, c, v) == [k \in Keys |-> IF k \in On(c) THEN v ELSE s[k]]

KeyedAfter(s, c) ==
    CASE c.op = "w" -> <<Written(s, c, 1)>>
      [] c.op = "z" -> <<Written(s, c, 0)>>
      [] c.op = "m" -> <<s, Written(s, c, 1)>>
      [] c.op = "r0" /\ c.known -> IF \A k \in On(c) : s[k] = 0 THEN <<s>> ELSE <<>>
      [] c.op = "r1" /\ c.known -> IF \A k \in On(c) : s[k] = 1 THEN <<s>> ELSE <<>>
      [] c.op = "x" -> IF \A k \in On(c) : s[k] = 0 THEN <<s>> ELSE <<>>
      [] OTHER -> <<s>>

KeyedRaises(s, c) == c.op = "x" /\ \E k \in On(c) : s[k] = 1

One(s) == 1

\* The orders of the invocations and the completions of n calls: every order
\* grows by an invocation of the next call or the completion of an open one.
Shapes(n) ==
    LET Times(s, c) == Cardinality({p \in DOMAIN s : s[p] = c})
        Ready(s) == {c \in 1 .. n : Times(s, c) = 1}
                    \union {c \in 1 .. n : Times(s, c) = 0 /\ \A d \in 1 .. c - 1 : Times(s, d) > 0}
        grown[k \in 0 .. 2 * n] ==
            IF k = 0 THEN {<<>>}
            ELSE UNION {{Append(s, c) : c \in Ready(s)} : s \in grown[k - 1]}
    IN  grown[2 * n]

\* The events of a shape.  An open call has no completion event.
EventsOf(shape, kinds, ops, keys) ==
    LET first == [c \in DOMAIN ops |-> Min({p \in DOMAIN shape : shape[p] = c})]
        kept == SelectSeq([p \in DOMAIN shape |-> p],
                    LAMBDA p : p = first[shape[p]] \/ kinds[shape[p]] # "open")
    IN  [i \in DOMAIN kept |->
            LET p == kept[i]
                c == shape[p]
            IN  [completes |-> IF p = first[c] THEN 0
                               ELSE Cardinality({j \in DOMAIN kept : kept[j] <= first[c]}),
                 kind |-> IF p = first[c] THEN "invoke" ELSE kinds[c],
                 op |-> ops[c], keys |-> keys[c]]]

Free == [budget |-> 100, memo |-> 100, timed |-> FALSE]

Histories(n, kinds, ops, keyings, caps) ==
    {[events |-> EventsOf(shape, k, o, keys), limits |-> l] :
        shape \in Shapes(n), k \in kinds, o \in [1 .. n -> ops], keys \in keyings, l \in caps}

Single(n) == {[c \in 1 .. n |-> <<"a">>]}

AllKnown(n) == {[c \in 1 .. n |-> "ok"]}

OneNotKnown(n) ==
    {k \in [1 .. n -> {"ok", "fail", "unknown", "open"}] :
        Cardinality({c \in 1 .. n : k[c] # "ok"}) = 1}

Keyings ==
    LET a == <<"a">>
        b == <<"b">>
    IN  {<<a, a, a>>, <<a, a, <<>>>>, <<a, b, <<"a", "b">>>>, <<a, b, a>>}

Tight ==
    {[Free EXCEPT !.budget = 3], [Free EXCEPT !.memo = 4], [Free EXCEPT !.timed = TRUE]}

\* Four calls, one after the other, whose keys chain them.
Chained ==
    {[events |-> EventsOf([p \in 1 .. 8 |-> (p + 1) \div 2], [c \in 1 .. 4 |-> "ok"],
                          [c \in 1 .. 4 |-> "w"], keys), limits |-> Free] :
        keys \in [1 .. 4 -> {<<"a">>, <<"b">>, <<"c">>, <<"a", "b">>, <<"b", "c">>}]}

KeyedInputs ==
    Histories(3, AllKnown(3), {"w", "z", "r1"}, Keyings, {Free})
    \union Histories(4, AllKnown(4), {"w", "r0"}, Single(4), {Free})
    \union Histories(3, OneNotKnown(3), {"w", "r0"}, Single(3), {Free})
    \union Histories(3, AllKnown(3), {"m", "r1"}, Single(3), Tight)
    \union Histories(3, AllKnown(3), {"m", "r1"}, Keyings, {[Free EXCEPT !.budget = 2]})
    \union Histories(3, AllKnown(3), {"w", "x"}, Single(3), {Free})
    \union Chained

-----------------------------------------------------------------------------

VARIABLES use,         \* who records or checks
          config, trace, readAt, part, position, place, kept, possible, believed, current,
          planned, erred, spans, steps, draws, told,
          history, level, analysis, kinds, found, verdict

CONSTANTS Machine, Configs, Traces, NoState, NoTrace,
          Opaque, Scalar, NotAHistory

\* The histories and the registers are as a search takes them.
ASSUME KeyedAssumption == SearchAssumption

S == INSTANCE Steps WITH states <- believed, at <- readAt
Workloads == INSTANCE MCIsolation WITH Objects <- {}
I == INSTANCE Isolation WITH Objects <- Workloads!MCObjects

stepsVars == <<config, trace, readAt, part, position, place, kept, possible, believed, current,
               planned, erred, spans, steps, draws, told>>

isolationVars == <<history, level, analysis, kinds, found, verdict>>

allVars == <<use, vars, clientVars, logVars, stepsVars, linearVars, isolationVars, poolVars>>

MCClients == 0 .. 1

\* Entries that touch, overlap or lie inside each other, pending ones, and entries
\* that break each rule.
Entry(c, start, end, kind) == [client |-> c, start |-> start, end |-> end, kind |-> kind]
Good == {Entry(c, s, e, k) : c \in {0, 1}, s \in 0 .. 2, e \in 0 .. 2, k \in {"ok", "unknown"}}
        \cup {Entry(c, s, Pending, Pending) : c \in {0, 1}, s \in 0 .. 2}
Bad  == {Entry(0, 1, 2, "info"), Entry(0, 1, Pending, "ok"), Entry(0, 1, 2, Pending)}
Accepted == {e \in Good : e.end = Pending \/ e.start <= e.end}
MCLogs == {<<d, e, f>> : d \in {x \in Accepted : x.client = 0}, e \in Accepted,
                         f \in {x \in Accepted : x.kind # "unknown"}}
          \cup {<<d, e>> : d \in Good, e \in Bad}

Put  == [enabled |-> {}, drain |-> FALSE, draws |-> TRUE, effect |-> 1, known |-> TRUE]
Lost == [enabled |-> {}, drain |-> FALSE, draws |-> FALSE, effect |-> 1, known |-> FALSE]
Get  == [enabled |-> 1 .. 9, drain |-> TRUE, draws |-> FALSE, effect |-> -1, known |-> TRUE]
MCMachine == <<Put, Lost, Get>>

Config(swarm, clients, tasks, spec) ==
  [swarm |-> swarm, clients |-> clients, maxSteps |-> 2, concurrent |-> 2,
   tasks |-> tasks, spec |-> spec]
MCConfigs == {Config(TRUE, 2, TRUE, TRUE), Config(TRUE, 2, FALSE, TRUE),
              Config(FALSE, 1, FALSE, TRUE), Config(FALSE, 2, FALSE, FALSE)}

\* Traces of no step, of steps that a part cannot take, and of other draws.
StepOf(a, client, drain) ==
  [kind |-> "step", action |-> a, client |-> client, drain |-> drain, value |-> 0]
DrawOf(a, value) ==
  [kind |-> "draw", action |-> a, client |-> 0, drain |-> FALSE, value |-> value]
Alone == -1
MCTraces == {
  <<>>,
  <<StepOf(3, Alone, FALSE)>>,
  <<StepOf(2, Alone, FALSE), StepOf(2, Alone, FALSE), StepOf(2, Alone, FALSE)>>,
  <<StepOf(2, 1, FALSE)>>, <<StepOf(2, 3, FALSE)>>, <<StepOf(3, 0, FALSE)>>,
  <<StepOf(2, 1, FALSE), StepOf(2, 0, FALSE), StepOf(2, 0, FALSE)>>,
  <<StepOf(1, Alone, FALSE), DrawOf(2, 1)>>, <<StepOf(1, Alone, FALSE), DrawOf(1, 7)>>,
  <<StepOf(1, Alone, FALSE)>>, <<DrawOf(1, 1)>>,
  <<StepOf(2, Alone, TRUE)>>, <<StepOf(3, Alone, TRUE)>>,
  <<StepOf(3, Alone, TRUE), StepOf(2, Alone, FALSE)>> }

EndsAs(how, lengths) == [ending : how, reads : lengths]
MCChecks ==
  {<<>>} \cup [1 .. 1 -> EndsAs({"passed", "violated"}, 0 .. 1)]
  \cup [1 .. 2 -> EndsAs({"passed", "violated", "steps", "raised"}, 0 .. 1)]
  \cup [1 .. 3 -> EndsAs({"passed", "violated", "memo"}, {1})]

NoLinear ==
  /\ recorded = <<>> /\ partitions = <<>> /\ endings = <<>> /\ total = 0 /\ undecided = 0
  /\ detail = NoDetail /\ outcome = "idle" /\ late = FALSE
  /\ partCalls = <<>> /\ entries = <<>> /\ list = 0 /\ entry = 0 /\ stack = <<>> /\ states = <<>>
  /\ memo = {} /\ openCalls = 0 /\ spent = 0 /\ best = 0 /\ limits = 0
NoIsolation ==
  history = 0 /\ level = 0 /\ analysis = 0 /\ kinds = 0 /\ found = 0 /\ verdict = 0
NoPool ==
  /\ searches = <<>> /\ workers = 1 /\ timed = FALSE /\ futures = <<>> /\ submitted = 0
  /\ phase = "returned" /\ given = <<>> /\ firstUndecided = 0 /\ report = NoReport
  /\ stopped = TRUE /\ isLate = FALSE

MCInit ==
  /\ Init /\ DriverInit
  /\ use \in {"free", "clients", "log", "steps", "linearizable", "pool", "isolation"}
  /\ IF use = "log" THEN LogInit
     ELSE log = <<>> /\ moments = {} /\ calls = <<>> /\ refused = 0
  /\ IF use = "steps" THEN S!Init ELSE S!Start(CHOOSE c \in Configs : TRUE, NoTrace)
  /\ IF use = "linearizable" THEN CheckInit ELSE NoLinear
  /\ IF use = "isolation" THEN I!Init ELSE NoIsolation
  /\ IF use = "pool" THEN PoolInit ELSE NoPool

\* A check that has not ended takes a step, and only it has to.
Rest == /\ use = "linearizable" => detail # NoDetail
        /\ use = "pool" => phase = "returned"
        /\ UNCHANGED allVars

MCNext ==
  \/ Rest
  \/ /\ UNCHANGED use
     /\ \/ use = "free" /\ Next /\ UNCHANGED <<clientVars, logVars, stepsVars, linearVars, isolationVars, poolVars>>
        \/ use = "clients" /\ DriverNext /\ UNCHANGED <<logVars, stepsVars, linearVars, isolationVars, poolVars>>
        \/ use = "log" /\ LogNext /\ UNCHANGED <<clientVars, stepsVars, linearVars, isolationVars, poolVars>>
        \/ use = "steps" /\ S!Next /\ UNCHANGED <<vars, clientVars, logVars, linearVars, isolationVars, poolVars>>
        \/ use = "linearizable" /\ CheckNext /\ UNCHANGED <<vars, clientVars, logVars, stepsVars, isolationVars, poolVars>>
        \/ use = "isolation" /\ I!Next /\ UNCHANGED <<vars, clientVars, logVars, stepsVars, linearVars, poolVars>>
        \/ use = "pool" /\ PoolNext /\ UNCHANGED <<vars, clientVars, logVars, stepsVars, linearVars, isolationVars>>

MCSpec == MCInit /\ [][MCNext]_allVars

\* The trace of a case that passed leads to the same steps, and the steps leave the case
\* as its calls did (Steps.TraceReplaysTheCase, Steps.CaseIsKept).
StepsKeepTheirWord == use = "steps" => S!TraceReplaysTheCase /\ S!CaseIsKept

\* The verdict on the anomalies is right and proves itself (Isolation.VerdictIsProved).
VerdictIsProved == use = "isolation" => I!VerdictIsProved
=============================================================================
