---------------------------- MODULE MCIsolation ----------------------------
(* Workloads of up to four transactions with every result of their reads.  *)
EXTENDS Isolation

X == 1
Y == 2
Z == 3

A(key, value) == [fn |-> "append", key |-> key, value |-> <<value>>]
W(key, value) == [fn |-> "write", key |-> key, value |-> <<value>>]
R(key) == [fn |-> "read", key |-> key, value |-> None]

\* Shapes that can show each anomaly: the lost update, the write skew of two and of
\* three, circular information flow, dirty writes, the long fork, reads inside and
\* between the appends of another call, and a read of what the call itself appended.
Lists == {
  << <<R(X), A(X, 1)>>, <<R(X), A(X, 2)>>, <<R(X)>> >>,
  << <<R(X), A(Y, 1)>>, <<R(Y), A(X, 2)>>, <<R(X), R(Y)>> >>,
  << <<R(X), A(Y, 1)>>, <<R(Y), A(Z, 1)>>, <<R(Z), A(X, 1)>> >>,
  << <<A(X, 1), R(Y)>>, <<A(Y, 2), R(X)>>, <<R(X), R(Y)>> >>,
  << <<A(X, 1), A(Y, 1)>>, <<A(X, 2), A(Y, 2)>>, <<R(X), R(Y)>> >>,
  << <<A(X, 1), A(X, 2)>>, <<R(X)>>, <<A(X, 3), R(X)>> >>,
  << <<R(X), A(X, 1), R(X)>>, <<A(X, 2), R(X)>> >>,
  << <<R(X), A(X, 1), A(Y, 1)>>, <<A(X, 2), R(Y)>>, <<R(X)>> >> }

Fours == {
  << <<A(X, 1)>>, <<A(Y, 1)>>, <<R(X), R(Y)>>, <<R(Y), R(X)>> >>,
  << <<A(X, 1)>>, <<R(X), A(Y, 1)>>, <<R(Y), R(X)>>, <<R(X), A(X, 2)>> >>,
  << <<A(X, 1), A(Y, 1)>>, <<R(X), A(Y, 2)>>, <<R(Y), A(X, 2)>>, <<R(X), R(Y)>> >> }

Registers == {
  << <<W(X, 1)>>, <<R(X), W(X, 2)>>, <<R(X), R(X)>> >>,
  << <<R(X), W(Y, 1)>>, <<R(Y), W(X, 2)>>, <<R(X), R(Y)>> >>,
  << <<R(X), W(X, 1), W(X, 2)>>, <<R(X), W(X, 3)>>, <<R(X)>> >>,
  << <<R(X), W(X, 1), R(X)>>, <<R(X), R(X), W(Y, 1)>>, <<R(Y), W(X, 3)>> >> }

\* A repeated value, both fns, an opaque value, an operation and a call of no kind
\* that the check knows.
Others == { << <<A(X, 1), A(X, 1)>>, <<R(X)>> >>,
            << <<A(X, 1)>>, <<W(Y, 1)>>, <<R(X)>> >>,
            << <<A(X, 1)>>, <<A(X, 1)>>, <<R(X)>> >>,
            << <<A(Opaque, 1)>> >>,
            << <<[fn |-> "read", key |-> X, value |-> <<1>>]>> >>,
            << <<[fn |-> "cas", key |-> X, value |-> <<1>>]>> >> }

Values(workload, key) ==
  {v \in 1 .. 3 : \E c \in DOMAIN workload : \E i \in DOMAIN workload[c] :
     workload[c][i] \in {A(key, v), W(key, v)}}

\* Every order of every subset of a set.
Arrangements(S) ==
  UNION {{s \in [1 .. n -> S] : \A i, j \in 1 .. n : s[i] = s[j] => i = j}
         : n \in 0 .. Cardinality(S)}

Read(workload, c, i, lists) == [workload[c][i] EXCEPT !.value = lists[<<c, i>>]]

\* The histories of a workload whose reads return the lists of Results.
Histories(workload, outcomes, Results(_)) ==
  LET reads == {p \in (DOMAIN workload) \X (1 .. 3) :
                  /\ outcomes[p[1]] = "ok" /\ p[2] \in DOMAIN workload[p[1]]
                  /\ workload[p[1]][p[2]].fn = "read"}
      Key(p) == workload[p[1]][p[2]].key
      results == {f \in [reads -> UNION {Results(Key(p)) : p \in reads}] :
                    \A p \in reads : f[p] \in Results(Key(p))}
      Call(c, f) == [operation |-> "txn", kind |-> outcomes[c], args |-> workload[c],
                     output |-> [i \in DOMAIN workload[c] |->
                       IF <<c, i>> \in reads THEN Read(workload, c, i, f) ELSE workload[c][i]]]
  IN  {[c \in DOMAIN workload |-> Call(c, f)] : f \in results}

Ok(workload) == [c \in DOMAIN workload |-> "ok"]
Outcomes(workload) ==
  {[Ok(workload) EXCEPT ![1] = k] : k \in {"ok", "fail", "unknown", "pending"}}
  \cup {[Ok(workload) EXCEPT ![1] = "unknown", ![2] = k] : k \in {"fail", "pending"}}

All(workloads, OutcomesOf(_)) ==
  UNION {UNION {Histories(w, o, LAMBDA k : Arrangements(Values(w, k))) : o \in OutcomesOf(w)}
         : w \in workloads}

AllRegisters ==
  UNION {UNION {Histories(w, o, LAMBDA k : {None} \cup {<<v>> : v \in Values(w, k)})
                : o \in Outcomes(w)} : w \in Registers}

\* Reads of what nobody wrote, of a value twice, and of no list.
Strange ==
  UNION {Histories(w, Ok(w), LAMBDA k : {<<>>, <<1>>, <<1, 1>>, <<9>>, <<Scalar>>, <<Opaque>>})
         : w \in {<< <<A(X, 1)>>, <<R(X)>> >>, << <<W(X, 1)>>, <<R(X), R(X)>> >>}
                 \cup Others}

\* An output that does not repeat its invocation, and another operation.
Broken ==
  LET call == [operation |-> "txn", kind |-> "ok", args |-> <<A(X, 1)>>, output |-> <<A(X, 1)>>]
  IN  {<<[call EXCEPT !.output = <<A(X, 2)>>]>>, <<[call EXCEPT !.output = <<>>]>>,
       <<[call EXCEPT !.operation = "get"]>>}

MCObjects == All(Lists, Outcomes) \cup All(Fours, LAMBDA w : {Ok(w)}) \cup AllRegisters
             \cup Strange \cup Broken \cup {NotAHistory}
=============================================================================
