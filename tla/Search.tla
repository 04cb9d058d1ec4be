------------------------------- MODULE Search -------------------------------
(***************************************************************************)
(* The search of one partition for a linearization (_history/search.py).    *)
(*                                                                          *)
(* The entries of the partition are the invocations of its calls and the    *)
(* completions of its known calls, in event order.  They are a doubly       *)
(* linked list between a head and a tail.  A call that is linearized is     *)
(* lifted out of the list and a call that is undone goes back into it.      *)
(* The list here has its head at 0, its entries at 1 .. Len(entries) and    *)
(* its tail after them.                                                     *)
(*                                                                          *)
(* The state of a spec is abstract: After(s, c) is the sequence of states   *)
(* that call c leaves from s, Raises(s, c) says that the spec raises, and   *)
(* Cost(s) is the number of steps that a state costs.  Two states are equal *)
(* when they are the same value and they then have the same key.            *)
(***************************************************************************)
EXTENDS Integers, FiniteSets, SequencesExt

-----------------------------------------------------------------------------
(***************************************************************************)
(* The calls of a history that a check of linearizability reads and their   *)
(* partitions (_history/partition.py).  An event of a history is a record   *)
(*   [completes, kind, op, keys]                                            *)
(* where completes is 0 for an invocation and otherwise the index of the    *)
(* invocation that the event completes.  Events count from 1.               *)
(***************************************************************************)

\* The members of a finite set in the order of their distinct keys.
Sorted(s, key) ==
    [n \in 1 .. Cardinality(s) |->
        CHOOSE x \in s : Cardinality({y \in s : key[y] < key[x]}) = n - 1]

Invocations(events) == {i \in DOMAIN events : events[i].completes = 0}

CompletionsOf(events, i) == {e \in DOMAIN events : events[e].completes = i}

KindOf(events, i) ==
    IF CompletionsOf(events, i) = {} THEN "open"
    ELSE events[Max(CompletionsOf(events, i))].kind

\* The span of a call and the keys that it touches.  No completion is 0.
Checked(events, i) ==
    [call |-> i,
     completion |-> Max(CompletionsOf(events, i) \union {0}),
     known |-> KindOf(events, i) = "ok",
     op |-> events[i].op,
     keys |-> events[i].keys]

\* calls_of: the calls that did not fail, in event order.
CallsOf(events) ==
    LET kept == {i \in Invocations(events) : KindOf(events, i) # "fail"}
        order == Sorted(kept, [i \in kept |-> i])
    IN  [n \in DOMAIN order |-> Checked(events, order[n])]

-----------------------------------------------------------------------------
\* _root: the root of a position, and the parents with the path to it halved.
Root(parent, position) ==
    LET walk[n \in 0 .. Len(parent)] ==
            IF n = 0 THEN [parent |-> parent, at |-> position]
            ELSE LET w == walk[n - 1]
                     up == w.parent[w.parent[w.at]]
                 IN  IF w.parent[w.at] = w.at THEN w
                     ELSE [parent |-> [w.parent EXCEPT ![w.at] = up], at |-> up]
    IN  walk[Len(parent)]

\* MUTANT: the call of the position is linked and not the root of its group.
JoinedAtTheCall(parent, position, other) ==
    LET o == Root(parent, other) IN [o.parent EXCEPT ![position] = o.at]

\* The statement parent[_root(position)] = _root(other): its right side
\* halves its path first.
Joined(parent, position, other) ==
    LET o == Root(parent, other)
        p == Root(o.parent, position)
    IN  [p.parent EXCEPT ![p.at] = o.at]

\* The parents after the loop of partitions_of over the calls and their keys.
\* The first call of a key is the one that later calls of the key join.
Parents(calls) ==
    LET First(key) == Min({n \in DOMAIN calls : key \in ToSet(calls[n].keys)})
    IN  FoldLeft(LAMBDA parent, n :
                    FoldLeft(LAMBDA p, key : Joined(p, n, First(key)), parent, calls[n].keys),
                 [n \in DOMAIN calls |-> n], [n \in DOMAIN calls |-> n])

\* The groups in the order of their first calls: a dictionary keeps its keys
\* in the order of their insertion.
Groups(calls) ==
    LET parents == Parents(calls)
        root == [n \in DOMAIN calls |-> Root(parents, n).at]
        groups == {{m \in DOMAIN calls : root[m] = root[n]} : n \in DOMAIN calls}
        order == Sorted(groups, [g \in groups |-> Min(g)])
    IN  [i \in DOMAIN order |-> Sorted(order[i], [n \in order[i] |-> n])]

\* partitions_of: a call without keys puts every call into one partition.
PartitionsOf(calls) ==
    IF calls = <<>> THEN <<>>
    ELSE IF \E n \in DOMAIN calls : calls[n].keys = <<>> THEN <<calls>>
    ELSE LET groups == Groups(calls) IN
         [i \in DOMAIN groups |-> [n \in DOMAIN groups[i] |-> calls[groups[i][n]]]]

-----------------------------------------------------------------------------
\* What a partition is: the smallest set of calls that has every call that
\* shares a key with one of its calls.  A call without keys shares every key.

Shares(c, d) ==
    c.keys = <<>> \/ d.keys = <<>> \/ ToSet(c.keys) \intersect ToSet(d.keys) # {}

Closed(calls, s) == \A c \in s : \A d \in ToSet(calls) : Shares(c, d) => d \in s

Component(calls, c) ==
    {d \in ToSet(calls) : \A s \in SUBSET ToSet(calls) :
        c \in s /\ Closed(calls, s) => d \in s}

-----------------------------------------------------------------------------

CONSTANTS States, Initial, After(_, _), Raises(_, _), Cost(_), ClockSteps

VARIABLES
    partCalls,   \* the calls of the partition
    entries,     \* their entries: a position of partCalls and whether it invokes
    list,        \* the two directions of the linked list
    entry,       \* the entry that the scan is at
    stack,       \* the linearized calls, each with the states before it
    states,      \* the distinct states after the linearized calls
    memo,        \* the configurations that the search visited
    openCalls,   \* the known calls that are not linearized
    spent,       \* the steps, and the step of the next reading of the clock
    best,        \* the frontier, its candidates, and whether the scan is at it
    limits,      \* the budget, the memo limit and whether a time limit is set
    late,        \* whether the time of the check has passed
    outcome      \* what the search came to

searchVars == <<partCalls, entries, list, entry, stack, states, memo, openCalls, spent,
                best, limits, late, outcome>>

Ended == {"passed", "violated", "steps", "memo", "time", "raised"}

Undecided == {"steps", "memo", "time"}

\* The entries of a partition in event order.
EntriesOf(cs) ==
    LET all == {[event |-> cs[n].call, position |-> n, invokes |-> TRUE] :
                    n \in DOMAIN cs}
               \union
               {[event |-> cs[n].completion, position |-> n, invokes |-> FALSE] :
                    n \in {m \in DOMAIN cs : cs[m].known}}
    IN  Sorted(all, [e \in all |-> e.event])

Known(cs) == {n \in DOMAIN cs : cs[n].known}

\* Search.__init__ and the head of Search.run.
LayOut(cs) ==
    LET es == EntriesOf(cs)
        m == Len(es)
    IN
    /\ partCalls' = cs
    /\ entries' = es
    /\ list' = [next |-> [e \in 0 .. m + 1 |-> IF e = m + 1 THEN 0 ELSE e + 1],
                prev |-> [e \in 0 .. m + 1 |-> IF e = 0 THEN 0 ELSE e - 1]]
    /\ entry' = 1
    /\ stack' = <<>>
    /\ states' = <<Initial>>
    /\ memo' = {}
    /\ openCalls' = Cardinality(Known(cs))
    /\ spent' = [steps |-> 0, clockAt |-> 0]
    /\ best' = [order |-> <<>>, states |-> <<Initial>>, candidates |-> <<>>, here |-> TRUE]
    /\ outcome' = "searching"
    /\ UNCHANGED <<limits, late>>

-----------------------------------------------------------------------------
\* The linked list.

Unlink(l, e) ==
    [next |-> [l.next EXCEPT ![l.prev[e]] = l.next[e]],
     prev |-> [l.prev EXCEPT ![l.next[e]] = l.prev[e]]]

Relink(l, e) ==
    [next |-> [l.next EXCEPT ![l.prev[e]] = e],
     prev |-> [l.prev EXCEPT ![l.next[e]] = e]]

EntryOf(n, invokes) ==
    CHOOSE e \in DOMAIN entries : entries[e].position = n /\ entries[e].invokes = invokes

Lift(l, n) ==
    IF partCalls[n].known THEN Unlink(Unlink(l, EntryOf(n, TRUE)), EntryOf(n, FALSE))
    ELSE Unlink(l, EntryOf(n, TRUE))

\* MUTANT: the completion stays out of the scan.
UnliftTheInvocation(l, n) == Relink(l, EntryOf(n, TRUE))

Unlift(l, n) ==
    IF partCalls[n].known THEN Relink(Relink(l, EntryOf(n, FALSE)), EntryOf(n, TRUE))
    ELSE Relink(l, EntryOf(n, TRUE))

-----------------------------------------------------------------------------
\* MUTANT: the budget ends at its last step and not before a step past it.
AffordsLess(steps, s) == steps + Cost(s) < limits.budget

Affords(steps, s) == steps + Cost(s) <= limits.budget

\* The states of more that are not kept yet, each once, after the kept ones.
Distinct(kept, more) ==
    LET keep[k \in 0 .. Len(more)] ==
            IF k = 0 THEN kept
            ELSE LET f == keep[k - 1]
                 IN  IF more[k] \in ToSet(f) THEN f ELSE Append(f, more[k])
    IN  keep[Len(more)]

\* What _step does with one state: it is paid for before the spec is called, and
\* the clock is read when enough steps were paid.
StepOn(acc, s, call, passed) ==
    LET reads == acc.steps >= acc.clockAt
    IN  IF acc.stop # "" THEN acc
        ELSE IF ~ Affords(acc.steps, s) THEN [acc EXCEPT !.stop = "steps"]
        ELSE IF reads /\ passed THEN [acc EXCEPT !.stop = "time"]
        ELSE [steps |-> acc.steps + Cost(s),
              clockAt |-> IF reads THEN acc.steps + ClockSteps ELSE acc.clockAt,
              stop |-> IF Raises(s, call) THEN "raised" ELSE "",
              following |-> Distinct(acc.following, After(s, call))]

\* _step: the spec steps every current state.  The time has passed from the state
\* at position from on.
Step(call, from) ==
    LET step[k \in 0 .. Len(states)] ==
            IF k = 0 THEN [steps |-> spent.steps, clockAt |-> spent.clockAt,
                           stop |-> "", following |-> <<>>]
            ELSE LET acc == step[k - 1] IN StepOn(acc, states[k], call, k >= from)
    IN  step[Len(states)]

\* From which state on the time of the check has passed during a step.
Passing ==
    IF late THEN {1}
    ELSE IF limits.timed THEN 1 .. Len(states) + 1
    ELSE {Len(states) + 1}

Done == {stack[k].position : k \in DOMAIN stack}

AtInvocation == outcome = "searching" /\ openCalls > 0 /\ entries[entry].invokes

AtCompletion == outcome = "searching" /\ openCalls > 0 /\ ~ entries[entry].invokes

Candidate == entries[entry].position

Pays(step, from) ==
    /\ spent' = [steps |-> step.steps, clockAt |-> step.clockAt]
    /\ late' = (from <= Len(states))
    /\ UNCHANGED <<partCalls, entries, limits>>

\* MUTANT: a configuration is its calls, whatever their order leaves.
ConfigurationOfCalls(following) == <<Done \union {Candidate}, {}>>

Configuration(following) == <<Done \union {Candidate}, ToSet(following)>>

-----------------------------------------------------------------------------
\* One pass of the loop of _search, one action for each way through it.

\* The spec rejects the candidate.
Reject ==
    /\ AtInvocation
    /\ \E from \in Passing :
        LET step == Step(partCalls[Candidate], from) IN
        /\ step.stop = "" /\ step.following = <<>>
        /\ Pays(step, from)
    /\ best' = IF best.here THEN [best EXCEPT !.candidates = Append(@, Candidate)] ELSE best
    /\ entry' = list.next[entry]
    /\ UNCHANGED <<list, stack, states, memo, openCalls, outcome>>

\* MUTANT: the scan stays at a candidate whose configuration it has.
RevisitInPlace ==
    /\ AtInvocation
    /\ \E from \in Passing :
        LET step == Step(partCalls[Candidate], from) IN
        /\ step.stop = "" /\ step.following # <<>>
        /\ Configuration(step.following) \in memo
        /\ Pays(step, from)
    /\ UNCHANGED <<entry, list, stack, states, memo, openCalls, best, outcome>>

\* The memo has the configuration that the candidate leads to.
Revisit ==
    /\ AtInvocation
    /\ \E from \in Passing :
        LET step == Step(partCalls[Candidate], from) IN
        /\ step.stop = "" /\ step.following # <<>>
        /\ Configuration(step.following) \in memo
        /\ Pays(step, from)
    /\ entry' = list.next[entry]
    /\ UNCHANGED <<list, stack, states, memo, openCalls, best, outcome>>

HasRoom == (Cardinality(memo) + 1) * Len(partCalls) <= limits.memo

\* MUTANT: an order as long as the frontier replaces it.
FrontierOfTheLast(order, following) ==
    IF Len(order) >= Len(best.order)
    THEN [order |-> order, states |-> following, candidates |-> <<>>, here |-> TRUE]
    ELSE [best EXCEPT !.here = FALSE]

\* The frontier after a call was linearized: a longer order replaces it.
Frontier(order, following) ==
    IF Len(order) > Len(best.order)
    THEN [order |-> order, states |-> following, candidates |-> <<>>, here |-> TRUE]
    ELSE [best EXCEPT !.here = FALSE]

\* The candidate is accepted in a new configuration, and the scan restarts.
Linearize ==
    /\ AtInvocation
    /\ \E from \in Passing :
        LET step == Step(partCalls[Candidate], from) IN
        /\ step.stop = "" /\ step.following # <<>>
        /\ Configuration(step.following) \notin memo
        /\ HasRoom
        /\ Pays(step, from)
        /\ memo' = memo \union {Configuration(step.following)}
        /\ stack' = Append(stack, [position |-> Candidate, states |-> states])
        /\ states' = step.following
        /\ best' = Frontier([k \in DOMAIN stack |-> stack[k].position] \o <<Candidate>>,
                            step.following)
    /\ list' = Lift(list, Candidate)
    /\ openCalls' = IF partCalls[Candidate].known THEN openCalls - 1 ELSE openCalls
    /\ entry' = list'.next[0]
    /\ UNCHANGED outcome

\* A limit or the spec stops the search.
Stop ==
    /\ AtInvocation
    /\ \E from \in Passing :
        LET step == Step(partCalls[Candidate], from)
            full == /\ step.stop = "" /\ step.following # <<>>
                    /\ Configuration(step.following) \notin memo /\ ~ HasRoom
        IN  /\ step.stop # "" \/ full
            /\ outcome' = IF full THEN "memo" ELSE step.stop
            /\ Pays(step, from)
    /\ UNCHANGED <<entry, list, stack, states, memo, openCalls, best>>

\* The scan reached the completion of a known call that is not linearized.
\* MUTANT: the call is undone and its states stay.
BacktrackKeepingStates ==
    LET last == stack[Len(stack)] IN
    /\ AtCompletion /\ stack # <<>>
    /\ stack' = Front(stack)
    /\ list' = Unlift(list, last.position)
    /\ openCalls' = IF partCalls[last.position].known THEN openCalls + 1 ELSE openCalls
    /\ best' = [best EXCEPT !.here = FALSE]
    /\ entry' = list'.next[EntryOf(last.position, TRUE)]
    /\ UNCHANGED <<partCalls, entries, limits, states, memo, spent, late, outcome>>

Backtrack ==
    LET last == stack[Len(stack)] IN
    /\ AtCompletion /\ stack # <<>>
    /\ stack' = Front(stack)
    /\ states' = last.states
    /\ list' = Unlift(list, last.position)
    /\ openCalls' = IF partCalls[last.position].known THEN openCalls + 1 ELSE openCalls
    /\ best' = [best EXCEPT !.here = FALSE]
    /\ entry' = list'.next[EntryOf(last.position, TRUE)]
    /\ UNCHANGED <<partCalls, entries, limits, memo, spent, late, outcome>>

Violate ==
    /\ AtCompletion /\ stack = <<>>
    /\ outcome' = "violated"
    /\ UNCHANGED <<partCalls, entries, list, entry, stack, states, memo, openCalls, spent, best,
                   limits, late>>

PassSearch ==
    /\ outcome = "searching" /\ openCalls = 0
    /\ outcome' = "passed"
    /\ UNCHANGED <<partCalls, entries, list, entry, stack, states, memo, openCalls, spent, best,
                   limits, late>>
=============================================================================
