------------------------------ MODULE Isolation ------------------------------
(***************************************************************************)
(* The check of a history at an isolation level: the derivation over the   *)
(* transactions of one history (_history/transaction.py, derivation.py) -  *)
(* what is committed, the version order of each key, the dependencies and  *)
(* the first instance of each anomaly - and the check itself, one step for *)
(* each call that it makes (_history/isolation.py).                        *)
(*                                                                         *)
(* An analysis is a record with the fields of Analysis.  Calls and values  *)
(* are positive numbers.  An instance of an anomaly has the calls that it  *)
(* involves, and a cycle its links with one piece of evidence each.        *)
(***************************************************************************)
EXTENDS Integers, Sequences, SequencesExt, FiniteSetsExt, TLC

-----------------------------------------------------------------------------
(***************************************************************************)
(* The calls of a history as transactions (_history/transaction.py).       *)
(*                                                                         *)
(* A call has its operation, its kind ("pending" for no completion), the   *)
(* micro-operations of its arguments and, when it is ok, those of its      *)
(* output.  A value is a sequence: one item for what is appended or        *)
(* written, the items that a read returned, and <<>> for None.             *)
(***************************************************************************)

CONSTANTS Opaque,     \* a key or an item without a typed literal
          Scalar      \* what a read returns that is neither None nor a list

None == <<>>
Fns  == {"append", "read", "write"}

HasIdentity(item) == item # Opaque

\* _invoked: a micro-operation that an invocation may have.
Invoked(mop) ==
  /\ mop.fn \in Fns
  /\ mop.fn = "read" => mop.value = None
  /\ mop.fn = "write" => mop.value # None
  /\ HasIdentity(mop.key)
  /\ mop.fn # "read" => \A i \in DOMAIN mop.value : HasIdentity(mop.value[i])

\* _repeated: a micro-operation of an output repeats that of the invocation.
Repeated(mop, raw) ==
  /\ raw.fn = mop.fn /\ raw.key = mop.key
  /\ mop.fn = "read" \/ raw.value = mop.value

\* _returned
Returned(call) ==
  /\ Len(call.output) = Len(call.args)
  /\ \A i \in DOMAIN call.args : Repeated(call.args[i], call.output[i])

\* _transaction_of
IsTransaction(call) ==
  /\ call.operation = "txn"
  /\ \A i \in DOMAIN call.args : Invoked(call.args[i])
  /\ call.kind = "ok" => Returned(call)

\* The micro-operations of an ok call are those of its output.
Mops(call) == IF call.kind = "ok" THEN call.output ELSE call.args

\* Every place of the calls where a micro-operation appends or writes.
Productions(calls) ==
  {p \in (DOMAIN calls) \X (1 .. Max({0} \cup {Len(calls[c].args) : c \in DOMAIN calls})) :
     p[2] \in DOMAIN calls[p[1]].args /\ calls[p[1]].args[p[2]].fn # "read"}

Produced(calls, p) == <<calls[p[1]].args[p[2]].key, calls[p[1]].args[p[2]].value>>

\* _register: a value is appended or written to a key once.
ProducesOnce(calls) ==
  \A p, q \in Productions(calls) : p # q => Produced(calls, p) # Produced(calls, q)

\* registers
Writes(calls) == \E p \in Productions(calls) : calls[p[1]].args[p[2]].fn = "write"
Appends(calls) == \E p \in Productions(calls) : calls[p[1]].args[p[2]].fn = "append"

\* _read_as: what the reads of an ok call returned.  The register of the history
\* takes any one value, and a list-append history takes lists.
ReadsAList(call, register) ==
  call.kind = "ok" =>
    \A i \in DOMAIN call.output : call.output[i].fn = "read" =>
      /\ ~register => call.output[i].value # <<Scalar>>
      /\ \A j \in DOMAIN call.output[i].value : HasIdentity(call.output[i].value[j])

\* transactions raises TransactionError for any other history.
AreTransactions(calls) ==
  /\ \A c \in DOMAIN calls : IsTransaction(calls[c])
  /\ ProducesOnce(calls)
  /\ ~(Writes(calls) /\ Appends(calls))
  /\ \A c \in DOMAIN calls : ReadsAList(calls[c], Writes(calls))

\* The transactions in the order of their invocations.
TransactionsOf(calls) ==
  [c \in DOMAIN calls |-> [call |-> c, kind |-> calls[c].kind, mops |-> Mops(calls[c])]]

-----------------------------------------------------------------------------
(***************************************************************************)
(* The searches of the dependency graph of committed transactions          *)
(* (_history/cycle.py).                                                    *)
(*                                                                         *)
(* A graph maps each transaction that has an edge to its targets in        *)
(* ascending order.  A walk is a sequence of steps, each a transaction and *)
(* the relation of the edge that leaves it.                                *)
(***************************************************************************)

Relations == <<"ww", "wr", "rw">>

Targets(graph, node) == IF node \in DOMAIN graph THEN graph[node] ELSE <<>>

-----------------------------------------------------------------------------
(* Strongly connected components: the algorithm of Tarjan *)

\* The state of a search that has visited nothing.
NewSearch == [order |-> <<>>, low |-> <<>>, stack |-> <<>>, work |-> <<>>, found |-> {}]

Enter(s, node) ==
  LET n == Cardinality(DOMAIN s.order)
  IN  [s EXCEPT !.order = (node :> n) @@ @, !.low = (node :> n) @@ @,
                !.stack = Append(@, node), !.work = Append(@, <<node, 1>>)]

Lower(s, node, rank) == [s EXCEPT !.low[node] = IF rank < @ THEN rank ELSE @]

\* A transaction is finished: the root of a component takes it off the stack.
Leave(s, node) ==
  LET popped == [s EXCEPT !.work = Front(@)]
      left   == IF popped.work = <<>> THEN popped
                ELSE Lower(popped, Last(popped.work)[1], popped.low[node])
      at     == CHOOSE i \in DOMAIN left.stack : left.stack[i] = node
      component == ToSet(SubSeq(left.stack, at, Len(left.stack)))
  IN  IF left.low[node] # left.order[node] THEN left
      ELSE [left EXCEPT !.stack = SubSeq(@, 1, at - 1),
                        !.found = IF Cardinality(component) > 1
                                    THEN @ \cup {component} ELSE @]

\* The loop of visit, until no transaction has an edge left.
RECURSIVE Visit(_, _)
Visit(graph, s) ==
  IF s.work = <<>> THEN s
  ELSE LET node    == Last(s.work)[1]
           next    == Last(s.work)[2]
           targets == Targets(graph, node)
           target  == targets[next]
           stepped == [s EXCEPT !.work[Len(s.work)][2] = next + 1]
       IN  Visit(graph,
             IF next > Len(targets) THEN Leave(stepped, node)
             ELSE IF target \notin DOMAIN s.order THEN Enter(stepped, target)
             ELSE IF Contains(s.stack, target) THEN Lower(stepped, node, s.order[target])
             ELSE stepped)

\* The components of two or more transactions, the lowest transaction first.
Components(nodes, graph) ==
  LET From(s, root) == IF root \in DOMAIN s.order THEN s ELSE Visit(graph, Enter(s, root))
      found == FoldLeft(From, NewSearch, nodes).found
  IN  SetToSortSeq(found, LAMBDA c, d : Min(c) < Min(d))

-----------------------------------------------------------------------------
(* The shortest path *)

\* The way back from node to start, in forward order.
RECURSIVE WayTo(_, _, _)
WayTo(start, node, parent) ==
  IF node = start THEN <<node>> ELSE Append(WayTo(start, parent[node], parent), node)

\* The queue after the targets of a transaction joined it.
Widened(graph, members, node, search) ==
  LET Add(s, target) ==
        IF target \in members /\ target \notin DOMAIN s.parent
          THEN [parent |-> (target :> node) @@ s.parent, queue |-> Append(s.queue, target)]
          ELSE s
  IN  FoldLeft(Add, search, Targets(graph, node))

\* The path, or <<>> when members has none.
Path(start, goal, graph, members) ==
  LET RECURSIVE Look(_)
      Look(s) == IF s.queue = <<>> THEN <<>>
                 ELSE IF Head(s.queue) = goal THEN WayTo(start, goal, s.parent)
                 ELSE Look(Widened(graph, members, Head(s.queue),
                                   [s EXCEPT !.queue = Tail(@)]))
  IN  Look([parent |-> start :> start, queue |-> <<start>>])

-----------------------------------------------------------------------------
(* The simple cycle of a closed walk *)

Alternates(walk) ==
  \A i \in DOMAIN walk : ~(walk[i][2] = "rw" /\ walk[(i % Len(walk)) + 1][2] = "rw")

\* The positions of the first transaction that the walk visits twice.
Repeats(walk) == {p \in (DOMAIN walk) \X (DOMAIN walk) : p[1] < p[2] /\ walk[p[1]][1] = walk[p[2]][1]}
FirstRepeat(walk) == CHOOSE p \in Repeats(walk) : \A q \in Repeats(walk) : p[2] <= q[2]

RECURSIVE WithoutRepeats(_)
WithoutRepeats(walk) ==
  IF Repeats(walk) = {} THEN walk
  ELSE LET p == FirstRepeat(walk)
           inner == SubSeq(walk, p[1], p[2] - 1)
       IN  WithoutRepeats(IF Alternates(inner) THEN inner
                          ELSE SubSeq(walk, 1, p[1] - 1) \o SubSeq(walk, p[2], Len(walk)))

\* The cycle starts at its first read-write edge.
Simple(walk) ==
  LET cycle == WithoutRepeats(walk)
      rw    == {i \in DOMAIN cycle : cycle[i][2] = "rw"}
      start == IF rw = {} THEN 1 ELSE Min(rw)
  IN  SubSeq(cycle, start, Len(cycle)) \o SubSeq(cycle, 1, start - 1)

-----------------------------------------------------------------------------

NoCall == 0
NoInstance == [anomaly |-> "none", calls |-> <<>>, cycle |-> <<>>, evidence |-> <<>>]

\* _single
Single(anomaly, calls) == [NoInstance EXCEPT !.anomaly = anomaly, !.calls = calls]

\* The first element of a sequence that satisfies a test, or other.
FirstOf(s, Test(_), other) ==
  LET found == SelectSeq(s, Test) IN IF found = <<>> THEN other ELSE Head(found)

\* The micro-operations of the transactions in order, with their calls.
MopsInOrder(txns) ==
  FlattenSeq([t \in DOMAIN txns |->
    [i \in DOMAIN txns[t].mops |->
      [call |-> txns[t].call, kind |-> txns[t].kind, position |-> i,
       fn |-> txns[t].mops[i].fn, key |-> txns[t].mops[i].key,
       value |-> txns[t].mops[i].value]]])

-----------------------------------------------------------------------------
(* The index: _Index.take *)

\* The call that appended or wrote item to key, or NoCall.
Appender(a, key, item) ==
  FirstOf(a.appends, LAMBDA m : m.key = key /\ m.value = <<item>>, [call |-> NoCall]).call

\* The next value that the same call appended to the key, or None.
LaterOf(a, key, item) ==
  LET m == FirstOf(a.appends, LAMBDA o : o.key = key /\ o.value = <<item>>,
                   [call |-> NoCall, position |-> 0])
  IN  FirstOf(a.appends,
              LAMBDA o : o.call = m.call /\ o.key = key /\ o.position > m.position,
              [value |-> None]).value

\* The keys in the order of their first use.
KeysOf(mops) ==
  FoldLeft(LAMBDA keys, m : IF Contains(keys, m.key) THEN keys ELSE Append(keys, m.key),
           <<>>, mops)

-----------------------------------------------------------------------------
(* What one transaction may not read *)

\* _future: the values of the read at i that the transaction appends later.
Future(txn, i) ==
  SelectSeq(txn.mops[i].value,
    LAMBDA item : \E j \in DOMAIN txn.mops :
      /\ j > i /\ txn.mops[j].fn # "read"
      /\ txn.mops[j].key = txn.mops[i].key /\ txn.mops[j].value = <<item>>)

\* What the transaction knows of a key before its micro-operation i: the list or
\* the end of it, and the value of a register.
Known(txn, i, register) ==
  LET Learn(known, m) ==
        IF m.key # txn.mops[i].key THEN known
        ELSE IF m.fn = "append"
          THEN [known EXCEPT !.some = TRUE, !.expected = @ \o m.value]
          ELSE [some |-> TRUE, whole |-> TRUE, expected |-> m.value]
  IN  FoldLeft(Learn, [some |-> FALSE, whole |-> register, expected |-> <<>>],
               SubSeq(txn.mops, 1, i - 1))

\* _agrees
Agrees(read, known) ==
  IF known.whole THEN read = known.expected
  ELSE /\ Len(known.expected) <= Len(read)
       /\ SubSeq(read, Len(read) - Len(known.expected) + 1, Len(read)) = known.expected

\* _internal and _internal_register
Contradicts(txn, i, register) ==
  /\ txn.mops[i].fn = "read"
  /\ \/ Future(txn, i) # <<>>
     \/ LET known == Known(txn, i, register)
        IN  known.some /\ ~Agrees(txn.mops[i].value, known)

InternallyInconsistent(a) ==
  FirstOf(a.txns,
    LAMBDA t : t.kind = "ok" /\ \E i \in DOMAIN t.mops : Contradicts(t, i, a.register),
    [call |-> NoCall]).call

-----------------------------------------------------------------------------
(* Version orders *)

IsPrefixOf(s, t) == Len(s) <= Len(t) /\ SubSeq(t, 1, Len(s)) = s

\* The reads of a key by length, each list once.
Ranked(reads) ==
  LET first == {k \in DOMAIN reads : \A j \in 1 .. k - 1 : reads[j].value # reads[k].value}
      Before(i, j) == \/ Len(reads[i].value) < Len(reads[j].value)
                      \/ Len(reads[i].value) = Len(reads[j].value) /\ i < j
  IN  [n \in 1 .. Cardinality(first) |->
         reads[CHOOSE i \in first : Cardinality({j \in first : Before(j, i)}) = n - 1]]

\* _longest: the longest read, or the first two that clash.
Longest(ranked) ==
  LET clashes == {i \in 1 .. Len(ranked) - 1 :
                    ~IsPrefixOf(ranked[i].value, ranked[i + 1].value)}
  IN  IF clashes # {}
        THEN [order |-> <<>>, clash |-> <<ranked[Min(clashes)], ranked[Min(clashes) + 1]>>]
        ELSE [order |-> IF ranked = <<>> THEN <<>> ELSE Last(ranked).value, clash |-> <<>>]

ReadsOf(a, key) == SelectSeq(a.reads, LAMBDA r : r.key = key)

\* _version_orders: the list of each key whose reads are prefixes of it.
VersionOrders(reads, keys) ==
  [k \in DOMAIN keys |-> Longest(Ranked(SelectSeq(reads, LAMBDA r : r.key = keys[k])))]

Clashing(calls) ==
  Single("incompatible-order", IF calls[1] = calls[2] THEN <<calls[1]>> ELSE calls)

\* The first key whose reads are not.
IncompatibleOrder(a) ==
  LET keys == {k \in DOMAIN a.orders : a.orders[k].clash # <<>>}
      clash == a.orders[Min(keys)].clash
  IN  IF keys = {} THEN NoInstance ELSE Clashing(<<clash[1].call, clash[2].call>>)

-----------------------------------------------------------------------------
(* Dependencies *)

\* A dependency of target on source, with the key that proves it, the value that
\* source appended or that a read ended with (None for the empty list), and for ww
\* and rw the value of target that follows.
Dependency(source, target, relation, key, value, following) ==
  [source |-> source, target |-> target, relation |-> relation,
   key |-> key, value |-> value, following |-> following]

\* _edge: only between two committed calls.
Edge(source, target, relation, key, value, following) ==
  IF source = NoCall \/ target = NoCall \/ source = target THEN <<>>
  ELSE <<Dependency(source, target, relation, key, value, following)>>

\* _writer
Writer(a, key, item) ==
  LET call == Appender(a, key, item) IN IF call \in a.committed THEN call ELSE NoCall

\* The committed appends to a key that no read observed.
Unobserved(a, key, order) ==
  SelectSeq(a.appends, LAMBDA m : /\ m.key = key /\ m.call \in a.committed
                                  /\ ~Contains(order, m.value[1]))

LastItem(list) == IF list = <<>> THEN None ELSE <<Last(list)>>
LastWriter(a, key, list) == IF list = <<>> THEN NoCall ELSE Writer(a, key, Last(list))

\* MUTANT: a read of the whole order does not precede the appends that nobody read.
ReadEdgesOfTheOrder(a, r, order) ==
  LET seen == Len(r.value)
  IN  Edge(LastWriter(a, r.key, r.value), r.call, "wr", r.key, LastItem(r.value), None)
      \o IF seen < Len(order)
           THEN Edge(r.call, Writer(a, r.key, order[seen + 1]), "rw", r.key,
                     LastItem(r.value), <<order[seen + 1]>>)
           ELSE <<>>

\* _read_edges.  Unlike order, the list of the read names the last value.
ReadEdges(a, r, order) ==
  LET seen == Len(r.value)
      unobserved == Unobserved(a, r.key, order)
  IN  (IF seen = 0 THEN <<>>
       ELSE Edge(Writer(a, r.key, order[seen]), r.call, "wr", r.key, LastItem(r.value), None))
      \o IF seen < Len(order)
           THEN Edge(r.call, Writer(a, r.key, order[seen + 1]), "rw", r.key,
                     LastItem(r.value), <<order[seen + 1]>>)
           ELSE FlattenSeq([u \in DOMAIN unobserved |->
                  Edge(r.call, unobserved[u].call, "rw", r.key,
                       LastItem(r.value), unobserved[u].value)])

\* _derive, for one key and its list.
ListEdges(a, key, order) ==
  LET reads == ReadsOf(a, key)
      unobserved == Unobserved(a, key, order)
  IN  FlattenSeq([i \in 1 .. Len(order) - 1 |->
        Edge(Writer(a, key, order[i]), Writer(a, key, order[i + 1]), "ww", key,
             <<order[i]>>, <<order[i + 1]>>)])
      \o FlattenSeq([u \in DOMAIN unobserved |->
           Edge(LastWriter(a, key, order), unobserved[u].call, "ww", key,
                LastItem(order), unobserved[u].value)])
      \o FlattenSeq([k \in DOMAIN reads |-> ReadEdges(a, reads[k], order)])

\* _external_reads: the read of a key before its transaction touches the key.
IsExternalRead(m, txns) ==
  /\ m.fn = "read" /\ m.kind = "ok"
  /\ \A j \in 1 .. m.position - 1 : txns[m.call].mops[j].key # m.key

\* _external_writes: the last write of a key.
IsInstalled(m, txns) ==
  /\ m.fn = "write"
  /\ \A j \in DOMAIN txns[m.call].mops :
       j > m.position => ~(txns[m.call].mops[j].fn = "write" /\ txns[m.call].mops[j].key = m.key)

\* _installer: a value that its writer wrote again was never installed.
Installer(a, key, item) ==
  IF LaterOf(a, key, item) # None THEN NoCall ELSE Writer(a, key, item)

\* _derive_registers and _register_edges, for one key.  A pair has a value, or None
\* for the initial one, and what installed a later value.
RegisterEdges(a, key) ==
  LET committed == SelectSeq(MopsInOrder(a.txns),
                             LAMBDA m : m.key = key /\ m.call \in a.committed)
      reads    == SelectSeq(committed, LAMBDA m : IsExternalRead(m, a.txns))
      installs == SelectSeq(committed, LAMBDA m : IsInstalled(m, a.txns))
      readBy(call) == FirstOf(reads, LAMBDA r : r.call = call, [value |-> None]).value
      pairs == FlattenSeq([i \in DOMAIN installs |->
                 <<[before |-> None, install |-> installs[i]]>>
                 \o IF readBy(installs[i].call) = None THEN <<>>
                    ELSE <<[before |-> readBy(installs[i].call), install |-> installs[i]]>>])
      ww(p) == IF p.before = None THEN <<>>
               ELSE Edge(Installer(a, key, p.before[1]), p.install.call, "ww", key,
                         p.before, p.install.value)
      wr(r) == IF r.value = None THEN <<>>
               ELSE Edge(Installer(a, key, r.value[1]), r.call, "wr", key, r.value, None)
      rw(r) == FlattenSeq([p \in DOMAIN pairs |->
                 IF pairs[p].before # r.value THEN <<>>
                 ELSE Edge(r.call, pairs[p].install.call, "rw", key,
                           r.value, pairs[p].install.value)])
  IN  FlattenSeq([p \in DOMAIN pairs |-> ww(pairs[p])])
      \o FlattenSeq([r \in DOMAIN reads |-> wr(reads[r]) \o rw(reads[r])])

CallsThatAre(kinds, txns) == {txns[t].call : t \in {u \in DOMAIN txns : txns[u].kind \in kinds}}

\* The fields of an analysis but its edges.  A call whose outcome is not known is
\* committed when a read returned a value that it appended.
Indexed(txns, register, keys, appends, reads) ==
  LET observed(call) == \E i \in DOMAIN reads, j \in DOMAIN appends :
                          /\ appends[j].call = call /\ appends[j].key = reads[i].key
                          /\ Contains(reads[i].value, appends[j].value[1])
  IN  [txns |-> txns, register |-> register, appends |-> appends, reads |-> reads,
       keys |-> keys, aborted |-> CallsThatAre({"fail"}, txns),
       committed |-> CallsThatAre({"ok"}, txns)
                       \cup {c \in CallsThatAre({"unknown", "pending"}, txns) : observed(c)},
       orders |-> IF register THEN <<>> ELSE VersionOrders(reads, keys)]

Index(txns, register, mops) ==
  Indexed(txns, register, KeysOf(mops), SelectSeq(mops, LAMBDA m : m.fn # "read"),
          SelectSeq(mops, LAMBDA m : m.fn = "read" /\ m.kind = "ok"))

EdgesOfKey(a, k) ==
  IF a.register THEN RegisterEdges(a, a.keys[k])
  ELSE IF a.orders[k].clash # <<>> THEN <<>>
  ELSE ListEdges(a, a.keys[k], a.orders[k].order)

WithEdges(a) == [edges |-> FlattenSeq([k \in DOMAIN a.keys |-> EdgesOfKey(a, k)])] @@ a

\* Analysis.__init__
Analysis(txns, register) == WithEdges(Index(txns, register, MopsInOrder(txns)))

-----------------------------------------------------------------------------
(* Anomalies that are not cycles *)

\* The items of the reads, each with its read.
Observed(a) ==
  FlattenSeq([r \in DOMAIN a.reads |->
    [i \in DOMAIN a.reads[r].value |->
      [call |-> a.reads[r].call, key |-> a.reads[r].key, item |-> a.reads[r].value[i],
       before |-> SubSeq(a.reads[r].value, 1, i - 1)]]])

\* The instance for the first element that satisfies a test, if any.
InstanceOf(anomaly, s, Test(_), Calls(_)) ==
  LET found == SelectSeq(s, Test)
  IN  IF found = <<>> THEN NoInstance ELSE Single(anomaly, Calls(Head(found)))

GarbageRead(a) ==
  InstanceOf("garbage-read", Observed(a),
    LAMBDA o : Appender(a, o.key, o.item) = NoCall, LAMBDA o : <<o.call>>)

DuplicateAppend(a) ==
  InstanceOf("duplicate-append", Observed(a),
    LAMBDA o : Contains(o.before, o.item), LAMBDA o : <<o.call>>)

InternalInconsistency(a) ==
  IF InternallyInconsistent(a) = NoCall THEN NoInstance
  ELSE Single("internal-inconsistency", <<InternallyInconsistent(a)>>)

AbortedRead(a) ==
  InstanceOf("aborted-read", Observed(a),
    LAMBDA o : Appender(a, o.key, o.item) \in a.aborted,
    LAMBDA o : <<o.call, Appender(a, o.key, o.item)>>)

\* A read that ends inside the appends of another call.
IntermediateRead(a) ==
  InstanceOf("intermediate-read", a.reads,
    LAMBDA r : /\ r.value # <<>>
               /\ Appender(a, r.key, Last(r.value)) \notin {NoCall, r.call}
               /\ LaterOf(a, r.key, Last(r.value)) # None,
    LAMBDA r : <<r.call, Appender(a, r.key, Last(r.value))>>)

-----------------------------------------------------------------------------
(* Cycles *)

\* _evidence
EvidenceOf(a, source, target) ==
  SelectSeq(a.edges, LAMBDA e : e.source = source /\ e.target = target)

\* _has and _relations
RelationsOf(a, source, target) ==
  LET evidence == EvidenceOf(a, source, target)
  IN  {evidence[i].relation : i \in DOMAIN evidence}

\* _graph
Graph(a, relations) ==
  LET pairs == {<<a.edges[i].source, a.edges[i].target>> :
                  i \in {j \in DOMAIN a.edges : a.edges[j].relation \in relations}}
  IN  [n \in {p[1] : p \in pairs} |->
        SetToSortSeq({p[2] : p \in {q \in pairs : q[1] = n}}, <)]

\* MUTANT: the evidence of an edge may be of a relation that the search did not follow.
CycleInstanceOfAnyEvidence(a, anomaly, nodes, used) ==
  LET evidence(i) == EvidenceOf(a, nodes[i], nodes[(i % Len(nodes)) + 1])
  IN  [anomaly |-> anomaly, calls |-> nodes,
       cycle |-> [i \in DOMAIN nodes |->
                   [call |-> nodes[i],
                    relations |-> {evidence(i)[k].relation : k \in DOMAIN evidence(i)}]],
       evidence |-> [i \in DOMAIN nodes |-> evidence(i)[1]]]

\* _cycle_instance: the cycle through nodes, with the relations that the search
\* followed, and the first evidence of each edge.
CycleInstance(a, anomaly, nodes, used) ==
  LET next(i) == nodes[(i % Len(nodes)) + 1]
      evidence(i) == SelectSeq(EvidenceOf(a, nodes[i], next(i)),
                               LAMBDA e : e.relation \in used[i])
  IN  [anomaly |-> anomaly, calls |-> nodes,
       cycle |-> [i \in DOMAIN nodes |->
                   [call |-> nodes[i],
                    relations |-> {evidence(i)[k].relation : k \in DOMAIN evidence(i)}]],
       evidence |-> [i \in DOMAIN nodes |-> evidence(i)[1]]]

\* The edges of a relation that leave a transaction and stay in its component.
ClosingFrom(a, targets, relation, members, source) ==
  FlattenSeq([t \in DOMAIN targets |->
    IF targets[t] \in members /\ relation \in RelationsOf(a, source, targets[t])
      THEN <<[source |-> source, target |-> targets[t], members |-> members]>> ELSE <<>>])

ClosingIn(a, around, relation, members, sources) ==
  FlattenSeq([i \in DOMAIN sources |->
    ClosingFrom(a, around[sources[i]], relation, members, sources[i])])

ClosingAll(a, around, relation, components) ==
  FlattenSeq([k \in DOMAIN components |->
    ClosingIn(a, around, relation, components[k], SetToSortSeq(components[k], <))])

\* _closing: the edges of a relation inside a component, with the component.
Closing(a, around, relation) ==
  ClosingAll(a, around, relation, Components(SetToSortSeq(a.committed, <), around))

\* _SEARCHES: the relations of the components, of the closing edge and of the path.
Search(anomaly) ==
  CASE anomaly = "G0"  -> [component |-> {"ww"}, closing |-> "ww", path |-> {"ww"}]
    [] anomaly = "G1c" -> [component |-> {"ww", "wr"}, closing |-> "wr", path |-> {"ww", "wr"}]
    [] anomaly = "G-single" ->
         [component |-> ToSet(Relations), closing |-> "rw", path |-> {"ww", "wr"}]
    [] anomaly = "G2"  ->
         [component |-> ToSet(Relations), closing |-> "rw", path |-> ToSet(Relations)]

\* The paths back along closing edges.
Ways(back, closing) ==
  [i \in DOMAIN closing |-> Path(closing[i].target, closing[i].source, back, closing[i].members)]

\* The cycle of the first closing edge that has a way back.
FirstCycle(a, anomaly, search, closing, ways) ==
  LET closed == {i \in DOMAIN ways : ways[i] # <<>>}
      nodes == <<closing[Min(closed)].source>> \o Front(ways[Min(closed)])
      first == IF anomaly = "G-single" THEN {search.closing} ELSE search.component
  IN  IF closed = {} THEN NoInstance
      ELSE CycleInstance(a, anomaly, nodes,
             [i \in DOMAIN nodes |-> IF i = 1 THEN first ELSE search.path])

CycleAmong(a, anomaly, search, closing) ==
  FirstCycle(a, anomaly, search, closing, Ways(Graph(a, search.path), closing))

\* _cycle
Cycle(a, anomaly) ==
  LET search == Search(anomaly)
  IN  CycleAmong(a, anomaly, search, Closing(a, Graph(a, search.component), search.closing))

\* _successors: the states that follow on an alternating walk.  A state has a
\* transaction, whether an rw edge led to it, and whether the walk took one.
Successors(a, state, around, members) ==
  LET node == state[1]
      by(target, relation) ==
        IF relation \notin RelationsOf(a, node, target) \/ (relation = "rw" /\ state[2])
          THEN <<>>
          ELSE <<<<<<target, relation = "rw", state[3] \/ relation = "rw">>, relation>>>>
      to(target) == IF target \notin members THEN <<>>
                    ELSE by(target, "ww") \o by(target, "wr") \o by(target, "rw")
  IN  FlattenSeq([t \in DOMAIN around[node] |-> to(around[node][t])])

\* _walk_to: the steps from start to a state.
RECURSIVE StepsTo(_, _)
StepsTo(state, parent) ==
  IF parent[state] = <<>> THEN <<>>
  ELSE Append(StepsTo(parent[state][1], parent), <<state[1], parent[state][2]>>)

\* _alternating: the shortest alternating walk, or <<>>.
Alternating(a, start, goal, around, members) ==
  LET origin == <<start, TRUE, FALSE>>
      Add(state, s, next) ==
        IF next[1] \in DOMAIN s.parent THEN s
        ELSE [parent |-> (next[1] :> <<state, next[2]>>) @@ s.parent,
              queue |-> Append(s.queue, next[1])]
      RECURSIVE Look(_)
      Look(s) ==
        IF s.queue = <<>> THEN <<>>
        ELSE LET state == Head(s.queue)
             IN  IF state[1] = goal /\ ~state[2] /\ state[3] THEN StepsTo(state, s.parent)
                 ELSE Look(FoldLeft(LAMBDA t, next : Add(state, t, next),
                                    [s EXCEPT !.queue = Tail(@)],
                                    Successors(a, state, around, members)))
  IN  Look([parent |-> origin :> <<>>, queue |-> <<origin>>])

\* The simple cycle that an edge and the walk back along it have, if any.
ClosedBy(e, steps) ==
  IF steps = <<>> THEN <<>>
  ELSE Simple([i \in 1 .. Len(steps) + 1 |->
         << IF i = 1 THEN e.source ELSE IF i = 2 THEN e.target ELSE steps[i - 2][1],
            IF i = 1 THEN "rw" ELSE steps[i - 1][2] >>])

Simples(a, around, closing) ==
  [i \in DOMAIN closing |->
     ClosedBy(closing[i], Alternating(a, closing[i].target, closing[i].source, around,
                                      closing[i].members))]

\* The first cycle with two edges or more of the relation rw.
FirstOfTwo(a, cycles) ==
  LET twice == {i \in DOMAIN cycles :
                  Cardinality({n \in DOMAIN cycles[i] : cycles[i][n][2] = "rw"}) >= 2}
      cycle == cycles[Min(twice)]
  IN  IF twice = {} THEN NoInstance
      ELSE CycleInstance(a, "G-nonadjacent", [i \in DOMAIN cycle |-> cycle[i][1]],
             [i \in DOMAIN cycle |-> IF cycle[i][2] = "rw" THEN {"rw"} ELSE {"ww", "wr"}])

NonadjacentIn(a, around) == FirstOfTwo(a, Simples(a, around, Closing(a, around, "rw")))

\* _nonadjacent
Nonadjacent(a) == NonadjacentIn(a, Graph(a, ToSet(Relations)))

\* Analysis.instance
Instance(a, anomaly) ==
  CASE anomaly = "garbage-read"           -> GarbageRead(a)
    [] anomaly = "duplicate-append"       -> DuplicateAppend(a)
    [] anomaly = "internal-inconsistency" -> InternalInconsistency(a)
    [] anomaly = "incompatible-order"     -> IncompatibleOrder(a)
    [] anomaly = "aborted-read"           -> AbortedRead(a)
    [] anomaly = "intermediate-read"      -> IntermediateRead(a)
    [] anomaly = "G-nonadjacent"          -> Nonadjacent(a)
    [] OTHER                              -> Cycle(a, anomaly)

-----------------------------------------------------------------------------
(***************************************************************************)
(* The check (_history/isolation.py).                                      *)
(***************************************************************************)

CONSTANTS Objects,    \* what a caller may pass for a history
          NotAHistory \* an object that is not a History

VARIABLES history,    \* the calls of the history that is checked
          level,      \* "serializable" or "snapshot-isolation"
          analysis,   \* the derivation, or <<>> before it
          kinds,      \* the kinds that the check has yet to look for
          found,      \* the instances it found, in the order of the kinds
          verdict     \* "none" until the record is reported

isolationVars == <<history, level, analysis, kinds, found, verdict>>

\* ANOMALIES: every kind, in the order of the report.
Anomalies == <<"garbage-read", "duplicate-append", "internal-inconsistency",
               "incompatible-order", "aborted-read", "intermediate-read",
               "G0", "G1c", "G-single", "G-nonadjacent", "G2">>

Levels == {"serializable", "snapshot-isolation"}

\* _FORBIDS
Forbids(l) == IF l = "serializable" THEN Anomalies
              ELSE SelectSeq(Anomalies, LAMBDA kind : kind # "G2")

Init ==
  /\ history \in Objects /\ level \in Levels
  /\ analysis = <<>> /\ kinds = <<>> /\ found = <<>> /\ verdict = "none"

IsChecked(object) == object # NotAHistory /\ AreTransactions(object)

\* The call ends with a fault for anything but a history of transactions.
Fault ==
  /\ verdict = "none" /\ analysis = <<>>
  /\ ~IsChecked(history)
  /\ verdict' = "fault"
  /\ UNCHANGED <<history, level, analysis, kinds, found>>

Derive ==
  /\ verdict = "none" /\ analysis = <<>>
  /\ IsChecked(history)
  /\ analysis' = Analysis(TransactionsOf(history), Writes(history))
  /\ kinds' = Forbids(level)
  /\ UNCHANGED <<history, level, found, verdict>>

Look ==
  /\ kinds # <<>>
  /\ LET instance == Instance(analysis, Head(kinds))
     IN  found' = IF instance = NoInstance THEN found ELSE Append(found, instance)
  /\ kinds' = Tail(kinds)
  /\ UNCHANGED <<history, level, analysis, verdict>>

\* The record has the first instance and the kinds of all of them.
Report ==
  /\ verdict = "none" /\ analysis # <<>> /\ kinds = <<>>
  /\ verdict' = IF found = <<>> THEN "pass" ELSE "fail"
  /\ UNCHANGED <<history, level, analysis, kinds, found>>

Done == verdict # "none" /\ UNCHANGED isolationVars

Next == Fault \/ Derive \/ Look \/ Report \/ Done

Spec == Init /\ [][Next]_isolationVars

-----------------------------------------------------------------------------
(* What the levels mean, without a graph: an order of the transactions that *)
(* explains every read                                                     *)

\* What the keys hold after a micro-operation: a list, or the value of a register.
MopAfter(store, mop) ==
  CASE mop.fn = "append" -> (mop.key :> (store[mop.key] \o mop.value)) @@ store
    [] mop.fn = "write"  -> (mop.key :> mop.value) @@ store
    [] OTHER             -> store

StoreAfter(store, mops) == FoldLeft(MopAfter, store, mops)

\* A transaction that runs alone on a store reads what its output says.
Explains(store, call) ==
  call.kind = "ok" =>
    \A i \in DOMAIN call.output :
      call.output[i].fn = "read" =>
        call.output[i].value = StoreAfter(store, SubSeq(call.output, 1, i - 1))[call.output[i].key]

WritesTo(call) == {call.args[i].key : i \in {j \in DOMAIN call.args : call.args[j].fn # "read"}}

EmptyStore(calls) ==
  [k \in UNION {{calls[c].args[i].key : i \in DOMAIN calls[c].args} : c \in DOMAIN calls} |-> None]

\* A failed call had no effect, and an undecided one may have had it or not.
Decided(calls) == {c \in DOMAIN calls : calls[c].kind = "ok"}
Undecided(calls) == {c \in DOMAIN calls : calls[c].kind \in {"unknown", "pending"}}

RECURSIVE SerialFrom(_, _, _)
SerialFrom(calls, left, store) ==
  \/ left \subseteq Undecided(calls)
  \/ \E c \in left : /\ Explains(store, calls[c])
                     /\ SerialFrom(calls, left \ {c}, StoreAfter(store, calls[c].args))

IsSerializable(calls) ==
  SerialFrom(calls, Decided(calls) \cup Undecided(calls), EmptyStore(calls))

\* A transaction reads the store at its start and commits at once later on, unless
\* another one committed a write to one of its keys in between.
RECURSIVE SnapshotFrom(_, _, _, _)
SnapshotFrom(calls, left, open, store) ==
  \/ left \cup DOMAIN open \subseteq Undecided(calls)
  \/ \E c \in left : /\ Explains(store, calls[c])
                     /\ SnapshotFrom(calls, left \ {c}, (c :> {}) @@ open, store)
  \/ \E c \in DOMAIN open :
       /\ open[c] \cap WritesTo(calls[c]) = {}
       /\ SnapshotFrom(calls, left,
            [d \in DOMAIN open \ {c} |-> open[d] \cup WritesTo(calls[c])],
            StoreAfter(store, calls[c].args))

HasSnapshotIsolation(calls) ==
  SnapshotFrom(calls, Decided(calls) \cup Undecided(calls), <<>>, EmptyStore(calls))

Meets(calls, l) ==
  IF l = "serializable" THEN IsSerializable(calls) ELSE HasSnapshotIsolation(calls)

-----------------------------------------------------------------------------
(* Properties *)

\* The committed calls that append to a key what no read returned: their order on the
\* key is not known.
Unread(calls, key) ==
  {c \in Decided(calls) : \E i \in DOMAIN calls[c].args :
     /\ calls[c].args[i].fn = "append" /\ calls[c].args[i].key = key
     /\ \A d \in Decided(calls) : \A j \in DOMAIN calls[d].output :
          ~(/\ calls[d].output[j].fn = "read" /\ calls[d].output[j].key = key
            /\ Contains(calls[d].output[j].value, calls[c].args[i].value[1]))}

OrderIsKnown(calls) == \A key \in DOMAIN EmptyStore(calls) : Cardinality(Unread(calls, key)) <= 1

\* Every read has the values that one call appended in the order of its appends.
AppendsStayInOrder(calls) ==
  \A c \in DOMAIN calls, d \in Decided(calls) : \A r \in DOMAIN calls[d].output : \A i, j \in DOMAIN calls[c].args :
    LET read == calls[d].output[r]
        Own(k) == calls[c].args[k].fn = "append" /\ calls[c].args[k].key = read.key
    IN  read.fn = "read" /\ i < j /\ Own(i) /\ Own(j) =>
          \A m, n \in DOMAIN read.value :
            <<read.value[m]>> = calls[c].args[i].value /\ <<read.value[n]>> = calls[c].args[j].value
              => m < n

\* The check fails no history that an order of the transactions explains, and passes
\* no list-append history that none explains.  Three gaps are left: a register passes
\* without one when a blind write hides the order, a lost update passes the check of
\* snapshot isolation when no read returned either of the two appends, and so may a
\* list that has the appends of one call in the wrong order.
VerdictIsExact ==
  /\ verdict = "fail" => ~Meets(history, level)
  /\ verdict = "pass" => \/ Writes(history) \/ ~AppendsStayInOrder(history)
                         \/ level = "snapshot-isolation" /\ ~OrderIsKnown(history)
                         \/ Meets(history, level)

\* What is_serializable states: a list-append history that passes at this level has a
\* serial order.  The code does not keep it: the check never compares the order of
\* two appends of one call with the order that a read returned.
PassMeansSerializable ==
  verdict = "pass" /\ level = "serializable" /\ ~Writes(history) => IsSerializable(history)

\* What a dependency claims about the reads and the writes of two calls.
Produces(call, key, value) ==
  \E i \in DOMAIN call.args :
    call.args[i].fn # "read" /\ call.args[i].key = key /\ call.args[i].value = value

ReadEndsWith(call, key, value) ==
  \E i \in DOMAIN call.output :
    call.output[i].fn = "read" /\ call.output[i].key = key /\ LastItem(call.output[i].value) = value

IsFounded(e) ==
  /\ e.source # e.target
  /\ \A c \in {e.source, e.target} : history[c].kind # "fail"
  /\ e.relation \in {"ww", "wr"} /\ e.value # None => Produces(history[e.source], e.key, e.value)
  /\ e.relation # "wr" => Produces(history[e.target], e.key, e.following)
  /\ e.relation = "wr" => ReadEndsWith(history[e.target], e.key, e.value)
  /\ e.relation = "rw" => ReadEndsWith(history[e.source], e.key, e.value)

\* The edges of the explanation close a cycle of distinct calls whose relations are
\* those that its kind names.
ReadWrites(cycle) == {i \in DOMAIN cycle : cycle[i].relation = "rw"}
HasTheRelations(anomaly, cycle) ==
  LET next(i) == (i % Len(cycle)) + 1
      rw == ReadWrites(cycle)
  IN  CASE anomaly = "G0"  -> \A i \in DOMAIN cycle : cycle[i].relation = "ww"
        [] anomaly = "G1c" -> rw = {} /\ \E i \in DOMAIN cycle : cycle[i].relation = "wr"
        [] anomaly = "G-single" -> Cardinality(rw) = 1
        [] anomaly = "G-nonadjacent" ->
             Cardinality(rw) >= 2 /\ \A i \in rw : next(i) \notin rw
        [] OTHER -> rw # {}

\* The report of a cycle is a proof that a reader can check by hand: its calls are
\* distinct, each edge starts where the one before it ends and is founded in what
\* the two calls read and wrote, and its relations make it the kind it is reported as.
\* The evidence of an edge is the first of all that it has, and proves the kind only
\* because every kind before it was looked for and not found.
ReportProvesItself ==
  verdict = "fail" =>
    LET first == found[1]
        cycle == first.evidence
    IN  cycle # <<>> =>
          /\ Cardinality(ToSet(first.calls)) = Len(cycle) /\ Len(cycle) >= 2
          /\ \A i \in DOMAIN cycle :
               /\ cycle[i].source = first.calls[i]
               /\ cycle[i].target = first.calls[(i % Len(cycle)) + 1]
               /\ IsFounded(cycle[i])
               /\ cycle[i].relation \in first.cycle[i].relations
          /\ HasTheRelations(first.anomaly, cycle)

\* The verdict is right and a reader can check it by hand (isolation.py).
VerdictIsProved == VerdictIsExact /\ ReportProvesItself
=============================================================================
