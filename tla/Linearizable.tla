---------------------------- MODULE Linearizable ----------------------------
(***************************************************************************)
(* The check that a history is linearizable (_history/linearizable.py), on   *)
(* one worker: the partitions are searched in their order, the first         *)
(* violated one ends the check, and without one the first undecided one is   *)
(* reported.                                                                 *)
(***************************************************************************)
EXTENDS Search

CONSTANT Inputs     \* the histories, each with the limits of its check

\* An event completes an earlier one, a limit is a number, and a call leaves
\* a sequence of states from each state, which costs a number of steps.
SearchAssumption ==
    /\ \A input \in Inputs :
          /\ input.events \in Seq(Range(input.events))
          /\ \A e \in DOMAIN input.events : input.events[e].completes \in 0 .. e - 1
          /\ input.limits.budget \in Nat /\ input.limits.memo \in Nat
          /\ input.limits.timed \in BOOLEAN
          /\ \A s \in States, c \in ToSet(CallsOf(input.events)) : After(s, c) \in Seq(States)
    /\ Initial \in States /\ ClockSteps \in Nat
    /\ \A s \in States : Cost(s) \in Nat

VARIABLES
    recorded,    \* the history
    partitions,  \* its partitions
    endings,     \* the outcomes of the searches that ended
    total,       \* their steps
    undecided,   \* the first undecided partition, 0 for none, and the steps up to it
    detail       \* what the check reports

checkVars == <<recorded, partitions, endings, total, undecided, detail>>

linearVars == <<checkVars, searchVars>>

\* The partition of the search, or the next one to search.
at == Len(endings) + 1

NoDetail == [outcome |-> "none", partition |-> 0, steps |-> 0]

CheckInit ==
    /\ \E input \in Inputs :
        /\ recorded = input.events
        /\ partitions = PartitionsOf(CallsOf(input.events))
        /\ limits = input.limits
    /\ endings = <<>> /\ total = 0 /\ detail = NoDetail
    /\ undecided = [partition |-> 0, steps |-> 0]
    /\ late = FALSE
    /\ outcome = "idle"
    /\ partCalls = <<>> /\ entries = <<>> /\ entry = 0 /\ stack = <<>> /\ states = <<>>
    /\ list = [next |-> <<>>, prev |-> <<>>]
    /\ memo = {} /\ openCalls = 0
    /\ spent = [steps |-> 0, clockAt |-> 0]
    /\ best = [order |-> <<>>, states |-> <<>>, candidates |-> <<>>, here |-> FALSE]

\* The next partition of the loop of check is searched.
StartSearch ==
    /\ detail = NoDetail /\ outcome = "idle" /\ at <= Len(partitions)
    /\ LayOut(partitions[at])
    /\ UNCHANGED checkVars

\* MUTANT: an undecided partition ends the check.
CollectUndecidedAtOnce ==
    /\ detail = NoDetail /\ outcome \in Ended
    /\ total' = total + spent.steps
    /\ endings' = Append(endings, outcome)
    /\ IF outcome # "passed"
       THEN /\ detail' = [outcome |-> IF outcome \in Undecided THEN "undecided" ELSE outcome,
                          partition |-> at, steps |-> total']
            /\ UNCHANGED <<outcome, undecided>>
       ELSE /\ outcome' = "idle"
            /\ UNCHANGED <<detail, undecided>>
    /\ UNCHANGED <<recorded, partitions, partCalls, entries, list, entry, stack, states, memo,
                   openCalls, spent, best, limits, late>>

\* A search ended.  A raising spec ends the check with a fault.
Collect ==
    /\ detail = NoDetail /\ outcome \in Ended
    /\ total' = total + spent.steps
    /\ endings' = Append(endings, outcome)
    /\ IF outcome \in {"violated", "raised"}
       THEN /\ detail' = [outcome |-> outcome, partition |-> at, steps |-> total']
            /\ UNCHANGED <<outcome, undecided>>
       ELSE /\ outcome' = "idle"
            /\ undecided' = IF outcome \in Undecided /\ undecided.partition = 0
                            THEN [partition |-> at, steps |-> total'] ELSE undecided
            /\ UNCHANGED detail
    /\ UNCHANGED <<recorded, partitions, partCalls, entries, list, entry, stack, states, memo,
                   openCalls, spent, best, limits, late>>

\* Every partition was searched and none is violated.  The report of an undecided
\* partition is the one that it had when it was searched.
ConcludeCheck ==
    /\ detail = NoDetail /\ outcome = "idle" /\ at > Len(partitions)
    /\ detail' = [outcome |-> IF undecided.partition = 0 THEN "passed" ELSE "undecided",
                  partition |-> undecided.partition,
                  steps |-> IF undecided.partition = 0 THEN total ELSE undecided.steps]
    /\ UNCHANGED <<recorded, partitions, endings, total, undecided, searchVars>>

CheckNext ==
    \/ StartSearch \/ Collect \/ ConcludeCheck
    \/ Reject /\ UNCHANGED checkVars
    \/ Revisit /\ UNCHANGED checkVars
    \/ Linearize /\ UNCHANGED checkVars
    \/ Stop /\ UNCHANGED checkVars
    \/ Backtrack /\ UNCHANGED checkVars
    \/ Violate /\ UNCHANGED checkVars
    \/ PassSearch /\ UNCHANGED checkVars

CheckSpec == CheckInit /\ [][CheckNext]_linearVars

-----------------------------------------------------------------------------
\* What the verdict means.

\* The states that a call leaves from every one of a set of states.
Leaves(ss, c) == UNION {ToSet(After(s, c)) : s \in ss}

\* The states after the calls of an order; none when the spec rejects it.
StatesAfter(cs, order) ==
    LET after[k \in 0 .. Len(order)] ==
            IF k = 0 THEN {Initial} ELSE Leaves(after[k - 1], cs[order[k]])
    IN  after[Len(order)]

\* Position n can come next after the calls of done: no known call that is
\* left completed before n was invoked.
Minimal(cs, done, n) ==
    /\ n \in DOMAIN cs \ done
    /\ \A d \in Known(cs) \ done : d = n \/ cs[d].completion > cs[n].call

\* An order that respects real time and that the spec accepts.
IsAccepted(cs, order) ==
    /\ \A k \in DOMAIN order : Minimal(cs, ToSet(SubSeq(order, 1, k - 1)), order[k])
    /\ StatesAfter(cs, order) # {}

Orders(cs) == SetToAllKPermutations(DOMAIN cs)

IsLinearizable(cs) ==
    \E order \in Orders(cs) : Known(cs) \subseteq ToSet(order) /\ IsAccepted(cs, order)

Laid == outcome # "idle" /\ entries # <<>>

\* The variables keep their types: the list links the places of the entries,
\* the positions of the stack and of the frontier are positions of calls.
CheckTypeOK ==
    /\ outcome \in Ended \union {"idle", "searching"}
    /\ late \in BOOLEAN
    /\ undecided.partition \in 0 .. Len(partitions) /\ undecided.steps \in 0 .. total
    /\ detail.outcome \in {"none", "passed", "violated", "undecided", "raised"}
    /\ endings \in Seq(Ended) /\ Len(endings) <= Len(partitions)
    /\ {total, spent.steps, spent.clockAt, openCalls} \subseteq Nat
    /\ list.next \in [DOMAIN list.next -> DOMAIN list.next]
    /\ list.prev \in [DOMAIN list.next -> DOMAIN list.next]
    /\ entry \in 0 .. Len(entries) + 1
    /\ Done \union ToSet(best.order) \union ToSet(best.candidates) \subseteq DOMAIN partCalls
    /\ IsInjective(states) /\ IsInjective(best.candidates)

\* Calls that _lift takes out and _unlift puts back leave the list exact: it
\* links the entries of the calls that are not linearized, in event order and
\* in both directions, and the scan is at one of them.
ListHoldsTheOpenEntries ==
    Laid =>
        LET held == {e \in DOMAIN entries : entries[e].position \notin Done}
        IN  /\ \A e \in held \union {0}, f \in held \union {Len(entries) + 1} :
                   e < f /\ (\A g \in held : g <= e \/ g >= f)
                      => list.next[e] = f /\ list.prev[f] = e
            /\ openCalls = Cardinality(Known(partCalls) \ Done)
            /\ outcome = "searching" /\ openCalls > 0 => entry \in held

\* At every step of the search, backtracks included, the stack is an order
\* that real time allows, and the states that _backtrack restores are the
\* states that the spec leaves after the calls below.
StackIsALinearization ==
    Laid =>
        LET order == [k \in DOMAIN stack |-> stack[k].position]
            before == [k \in DOMAIN stack |-> ToSet(stack[k].states)] \o <<ToSet(states)>>
        IN  /\ before[1] = {Initial}
            /\ \A k \in DOMAIN order :
                  /\ Minimal(partCalls, ToSet(SubSeq(order, 1, k - 1)), order[k])
                  /\ before[k + 1] = Leaves(before[k], partCalls[order[k]])

\* A verdict is right for the whole history: its calls have a linearization
\* exactly when check, which searches each partition on its own from the
\* initial state and skips the configurations of its memo, passes.
VerdictIsRight ==
    /\ detail.outcome = "passed" => IsLinearizable(CallsOf(recorded))
    /\ detail.outcome = "violated" => ~ IsLinearizable(CallsOf(recorded))

\* The report is of the first violated partition, else of the first undecided
\* one.  A violated partition behind an undecided one is reported.
ReportIsOfTheFirst ==
    /\ detail.outcome \in {"violated", "undecided"} =>
          \A i \in DOMAIN partitions :
              \/ i >= detail.partition /\ detail.outcome = "violated"
              \/ IsLinearizable(partitions[i])
              \/ i \in DOMAIN endings /\ endings[i] \in Undecided
    /\ detail.outcome = "violated" => ~ IsLinearizable(partitions[detail.partition])
    /\ detail.outcome = "undecided" =>
          /\ endings[detail.partition] \in Undecided
          /\ \A i \in 1 .. detail.partition - 1 : endings[i] \notin Undecided

ComesBefore(f, g) ==
    \E k \in DOMAIN f : f[k] < g[k] /\ SubSeq(f, 1, k - 1) = SubSeq(g, 1, k - 1)

\* The frontier that a violated check reports is the deepest order that the
\* spec accepts, the first of its length in the order of the scan, and its
\* candidates are every call that could come next there.
FrontierIsTheDeepest ==
    outcome = "violated" =>
        /\ IsAccepted(partCalls, best.order)
        /\ \A f \in Orders(partCalls) \ {best.order} :
              \/ Len(f) < Len(best.order)
              \/ Len(f) = Len(best.order) /\ ComesBefore(best.order, f)
              \/ ~ IsAccepted(partCalls, f)
        /\ ToSet(best.states) = StatesAfter(partCalls, best.order)
        /\ ToSet(best.candidates) =
              {n \in DOMAIN partCalls : Minimal(partCalls, ToSet(best.order), n)}

\* A search stops as undecided at its limit and not before it: the budget does
\* not pay for the next state, the memo has no room for one configuration
\* more, the time has passed.  No search goes past a limit.
LimitsAreExact ==
    /\ Laid => /\ spent.steps <= limits.budget
               /\ Cardinality(memo) * Len(partCalls) <= limits.memo
    /\ outcome = "steps" => \E s \in ToSet(states) : spent.steps + Cost(s) > limits.budget
    /\ outcome = "memo" => ~ HasRoom
    /\ outcome = "time" => limits.timed /\ late

\* partitions_of with its halved paths finds the connected groups of calls: in
\* the order of their first calls, each in event order.
PartitionsAreTheComponents ==
    LET all == CallsOf(recorded) IN
    detail # NoDetail =>
    /\ {ToSet(partitions[i]) : i \in DOMAIN partitions} =
          {Component(all, c) : c \in ToSet(all)}
    /\ \A i, j \in DOMAIN partitions :
          i < j => Head(partitions[i]).call < Head(partitions[j]).call
    /\ \A i \in DOMAIN partitions : \A m, n \in DOMAIN partitions[i] :
          m < n => partitions[i][m].call < partitions[i][n].call

\* The search stays in step with itself: after any chain of accepted and undone calls
\* the list, the count of open calls, the stack and the states agree, and no limit is
\* passed or taken early (search.py).
SearchIsInStep == ListHoldsTheOpenEntries /\ StackIsALinearization /\ LimitsAreExact

\* The report of a check is right: its partitions, its verdict, the partition that it
\* names and the frontier where the search of that partition got stuck (linearizable.py).
ReportIsRight ==
    PartitionsAreTheComponents /\ VerdictIsRight /\ ReportIsOfTheFirst /\ FrontierIsTheDeepest

\* Where the check is: the partitions that ended, and in the search of the next one
\* the linearized calls and the scan, as entries.
Progress ==
    <<Len(endings), IF outcome = "idle" THEN 0 ELSE IF outcome = "searching" THEN 1 ELSE 2>>
    \o IF outcome = "searching"
       THEN Append([k \in DOMAIN stack |-> EntryOf(stack[k].position, TRUE)], entry)
       ELSE <<>>

MovesOn == ComesBefore(Progress, Progress') \/ IsStrictPrefix(Progress, Progress')

\* Every step of a check moves it on in one order, that of the search tree in which a
\* backtrack goes on behind the call that it undoes.  The order is finite, so a check
\* ends even without a limit, and it visits no place of its search twice.
SearchMovesOn == [][detail' # detail \/ MovesOn]_linearVars
=============================================================================
