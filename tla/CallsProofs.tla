------------------------------ MODULE CallsProofs ------------------------------
(***************************************************************************)
(* Proofs about the calls of a test: the wrapper of a case (Property), the *)
(* properties and their store (Property), the calls that wait (Waiting),   *)
(* and the seats of a test with their cleanups (Seats).                    *)
(***************************************************************************)
EXTENDS Property, Waiting, Seats, FiniteSetTheorems, TLAPS
-----------------------------------------------------------------------------
(***************************************************************************)
(* Proofs about the wrapper of the option around (Property): any threads   *)
(* that the wrapper gives run to, and any number of their calls.           *)
(***************************************************************************)

\* The invariant holds when the run of the wrapper begins.
LEMMA WrapperBegins == AroundInit => AroundInductive
<1> SUFFICES ASSUME AroundInit
             PROVE  AroundInductive
  OBVIOUS
<1>1. ~started /\ ~done /\ shut \in BOOLEAN /\ started \in BOOLEAN /\ done \in BOOLEAN
  BY DEF AroundInit
<1>2. counted \in Nat /\ caseEnd = "none" /\ began = 0 /\ caller = NoThread /\ outcome = "none"
  BY DEF AroundInit
<1> QED
  BY <1>1, <1>2 DEF AroundInductive, FlagsAgree, JudgedLast

\* Each step keeps the invariant.
LEMMA WrapperGoesOn == AroundInductive /\ [AroundNext]_aroundVars => AroundInductive'
<1> SUFFICES ASSUME AroundInductive, [AroundNext]_aroundVars
             PROVE  AroundInductive'
  OBVIOUS
<1> USE DEF AroundInductive, FlagsAgree, JudgedLast, Endings
<1>1. ASSUME NEW t \in Threads, CallRun(t)
      PROVE  AroundInductive'
  <2>1. CASE Runs
    BY <1>1, <2>1 DEF CallRun, Runs
  <2>2. CASE ~Runs
    BY <1>1, <2>2 DEF CallRun
  <2> QED
    BY <2>1, <2>2
<1>2. CASE EndCase
  BY <1>2 DEF EndCase
<1>3. CASE WrapperEnds
  BY <1>3 DEF WrapperEnds
<1>4. CASE Close
  BY <1>4 DEF Close
<1>5. CASE Judge
  BY <1>5 DEF Judge
<1>6. CASE UNCHANGED aroundVars
  BY <1>6 DEF aroundVars
<1> QED
  BY <1>1, <1>2, <1>3, <1>4, <1>5, <1>6 DEF AroundNext

\* The counter of the calls, the flags of the run and the ending of the property agree
\* in every state.
THEOREM WrapperInvariantHolds == AroundSpec => []AroundInductive
  BY WrapperBegins, WrapperGoesOn, PTL DEF AroundSpec

\* The case of a wrapper runs at most once, no thread is inside it when the property goes
\* on, and the property sees the ending of a case that ran once in a wrapper that returned.
THEOREM CaseRunsOnceInItsWrapper == AroundSpec => []CaseRunsInItsWrapper
<1>1. AroundInductive => CaseRunsInItsWrapper
  BY DEF AroundInductive, FlagsAgree, JudgedLast, CaseRunsInItsWrapper
<1> QED
  BY <1>1, WrapperInvariantHolds, PTL
-----------------------------------------------------------------------------
(***************************************************************************)
(* Proofs about properties and their store (Property): for any processes,  *)
(* contracts and cases, wherever a process dies.                           *)
(***************************************************************************)
FileStates == {"none", "partial", "later", "broken"} \cup Entries

CallSteps == {"idle", "test", "list", "load", "work", "save", "write", "notes", "reported"}

PropertyCalls == [kind : Kinds \cup {"none"}, contract : Contracts \cup {"none"},
                  mode : {"none", "replay", "run", "campaign"}, store : BOOLEAN]

StoreTypes ==
  /\ files \in [Names -> FileStates]
  /\ pc \in [Processes -> CallSteps]
  /\ env \in [Processes -> AnyEnvironment]
  /\ claims \in [Processes -> SUBSET Contracts]
  /\ call \in [Processes -> PropertyCalls]
  /\ listed \in [Processes -> SUBSET (Names \X FileStates)]
  /\ loaded \in [Processes -> [entries : SUBSET Names, skipped : SUBSET Names]]
  /\ pending \in [Processes -> Seq(Cases)]
  /\ notes \in [Processes -> SUBSET Names]
  /\ verdict \in [Processes -> {"none", "pass", "fail", "skip"}]
  /\ reported \in [Processes -> SUBSET Cases]

\* What no step changes, other than the removal of a damaged file between the tests' calls.
Settled == Entries \cup {"later"}

AtRest(p) == pc[p] \in {"idle", "test"}
Looked(p) == pc[p] \in {"work", "save", "write", "notes", "reported"}

\* The name of the next failure that a call writes.
NextName(p) == <<call[p].contract, Head(pending[p])>>

\* A call has a contract; between the calls there is nothing of a call.
CallIsKnown(p) ==
  IF AtRest(p)
  THEN /\ listed[p] = {} /\ loaded[p].entries = {} /\ pending[p] = <<>> /\ reported[p] = {}
       /\ verdict[p] = "none"
  ELSE call[p].contract \in Contracts

\* A file that was whole when it was listed is as it was.
ListedStay(p) == \A l \in listed[p] : l[2] \in Settled => files[l[1]] = l[2]

\* A call that loaded the directory has each file in it.
LoadedWhole(p) ==
  Looked(p) =>
    /\ \A l \in listed[p] :
         /\ files[l[1]] \in Settled
         /\ files[l[1]] = "later" => l[1] \in loaded[p].skipped
         /\ files[l[1]] \in Entries /\ l[1][1] = call[p].contract => l[1] \in loaded[p].entries
    /\ \A n \in loaded[p].entries : files[n] \in Entries

\* A call passes over no entry that fails, and its notes tell of the files it skipped and
\* of the entries of other values.
PassesHonestly(p) ==
  /\ pc[p] = "reported" => loaded[p].skipped \subseteq notes[p]
  /\ verdict[p] = "pass" =>
       /\ pc[p] \in {"notes", "reported"}
       /\ ~ StoredFails(p)
       /\ pc[p] = "reported" =>
            \A n \in loaded[p].entries : ValuesDiffer(p, n) => n \in notes[p]

\* A failure that is reported has its file, is noted, or is still to write.
ReportedIsKept(p) ==
  /\ pc[p] \notin {"save", "write"} => pending[p] = <<>>
  /\ Writes(p) /\ call[p].mode # "replay" =>
       \A x \in reported[p] :
         \/ files[<<call[p].contract, x>>] # "none"
         \/ <<call[p].contract, x>> \in notes[p]
         \/ \E i \in DOMAIN pending[p] : pending[p][i] = x

\* A file between its creation and its text is partial, and one process writes it.
WritesThePartial(p) == pc[p] = "write" => pending[p] # <<>> /\ files[NextName(p)] = "partial"

OneWriter ==
  \A p, q \in Processes : pc[p] = "write" /\ pc[q] = "write" /\ p # q => NextName(p) # NextName(q)

CallKept(p) ==
  /\ CallIsKnown(p) /\ ListedStay(p) /\ LoadedWhole(p) /\ PassesHonestly(p)
  /\ ReportedIsKept(p) /\ WritesThePartial(p)

StoreInductive == StoreTypes /\ OneWriter /\ \A p \in Processes : CallKept(p)

-----------------------------------------------------------------------------
(***************************************************************************)
(* Sequences of failures.                                                  *)
(***************************************************************************)
LEMMA AllInSequence ==
  ASSUME NEW S, IsFiniteSet(S), NEW s \in SetToSeqs(S)
  PROVE  s \in Seq(S) /\ \A x \in S : \E i \in DOMAIN s : s[i] = x
  <1> DEFINE n == Cardinality(S)
  <1>1. n \in Nat
    BY FS_CardinalityType
  <1>2. s \in [1 .. n -> S] /\ IsInjective(s)
    BY DEF SetToSeqs, IsInjective
  <1>3. s \in Seq(S)
    BY <1>1, <1>2
  <1>4. s \in Injection(1 .. n, S)
    BY <1>2 DEF Injection, IsInjective
  <1>5. IsFiniteSet(1 .. n) /\ Cardinality(1 .. n) = n
    BY <1>1, FS_Interval
  <1>6. s \in Surjection(1 .. n, S)
    BY <1>4, <1>5, FS_Injection
  <1> QED
    BY <1>2, <1>3, <1>6 DEF Surjection

LEMMA OneIsTaken ==
  ASSUME NEW S, NEW s \in Seq(S), s # <<>>
  PROVE  /\ Head(s) \in S /\ Tail(s) \in Seq(S)
         /\ \A x : (\E i \in DOMAIN s : s[i] = x)
                     => x = Head(s) \/ \E i \in DOMAIN Tail(s) : Tail(s)[i] = x
  <1>1. /\ Len(s) \in Nat /\ Len(s) > 0 /\ DOMAIN s = 1 .. Len(s)
        /\ Head(s) = s[1] /\ Head(s) \in S /\ Tail(s) \in Seq(S)
        /\ DOMAIN Tail(s) = 1 .. Len(s) - 1
        /\ \A i \in 1 .. Len(s) - 1 : Tail(s)[i] = s[i + 1]
    OBVIOUS
  <1>2. ASSUME NEW i \in DOMAIN s, i # 1 PROVE i - 1 \in DOMAIN Tail(s) /\ Tail(s)[i - 1] = s[i]
    BY <1>1, <1>2
  <1> QED
    BY <1>1, <1>2

-----------------------------------------------------------------------------
(***************************************************************************)
(* A step of one process, for the others.                                  *)
(***************************************************************************)
SameCall(q) ==
  /\ pc'[q] = pc[q] /\ env'[q] = env[q] /\ call'[q] = call[q] /\ listed'[q] = listed[q]
  /\ loaded'[q] = loaded[q] /\ pending'[q] = pending[q] /\ notes'[q] = notes[q]
  /\ verdict'[q] = verdict[q] /\ reported'[q] = reported[q]

OthersStay(p) == \A q \in Processes \ {p} : SameCall(q)

FilesStay(q) ==
  \A n \in Names :
    /\ files[n] \in Settled => files'[n] = files[n]
    /\ ~ AtRest(q) /\ files[n] # "none" => files'[n] # "none"
    /\ pc[q] = "write" /\ n = NextName(q) => files'[n] = files[n]

\* What a call writes next has a name.
LEMMA NextIsAName ==
  ASSUME StoreTypes, NEW p \in Processes, CallKept(p), pending[p] # <<>>, ~ AtRest(p)
  PROVE  /\ call[p].contract \in Contracts /\ Head(pending[p]) \in Cases /\ NextName(p) \in Names
         /\ Tail(pending[p]) \in Seq(Cases)
  <1>1. pending[p] \in Seq(Cases)
    BY DEF StoreTypes
  <1>2. Head(pending[p]) \in Cases /\ Tail(pending[p]) \in Seq(Cases)
    BY <1>1, OneIsTaken
  <1> QED
    BY <1>2 DEF CallKept, CallIsKnown, NextName, Names

LEMMA CallIsUndisturbed ==
  ASSUME StoreTypes, StoreTypes', NEW q \in Processes, CallKept(q), SameCall(q), FilesStay(q)
  PROVE  CallKept(q)'
  <1> USE DEF SameCall
  <1>1. CallIsKnown(q)'
    BY DEF CallKept, CallIsKnown, AtRest
  <1>2. ListedStay(q)'
    <2>1. \A l \in listed[q] : l[1] \in Names
      BY DEF StoreTypes
    <2> QED
      BY <2>1 DEF CallKept, ListedStay, FilesStay
  <1>3. LoadedWhole(q)'
    <2>1. \A l \in listed[q] : l[1] \in Names
      BY DEF StoreTypes
    <2>2. \A n \in loaded[q].entries : n \in Names
      BY DEF StoreTypes
    <2>3. Entries \subseteq Settled /\ "later" \in Settled
      BY DEF Settled
    <2>4. CASE Looked(q)
      <3>1. \A l \in listed[q] : files'[l[1]] = files[l[1]]
        BY <2>1, <2>4 DEF CallKept, LoadedWhole, FilesStay
      <3>2. \A n \in loaded[q].entries : files'[n] = files[n]
        BY <2>2, <2>3, <2>4 DEF CallKept, LoadedWhole, FilesStay
      <3> QED
        BY <2>4, <3>1, <3>2 DEF CallKept, LoadedWhole
    <2> QED
      BY <2>4 DEF LoadedWhole, Looked
  <1>4. PassesHonestly(q)'
    <2>1. ASSUME verdict[q] = "pass" PROVE \A n \in loaded[q].entries : files'[n] = files[n]
      <3>1. Looked(q)
        BY <2>1 DEF CallKept, PassesHonestly, Looked
      <3>2. \A n \in loaded[q].entries : n \in Names /\ files[n] \in Settled
        BY <3>1 DEF CallKept, LoadedWhole, Settled, StoreTypes
      <3> QED
        BY <3>2 DEF FilesStay
    <2>2. StoredFails(q)' <=> StoredFails(q)
      BY DEF StoredFails
    <2>3. ASSUME verdict[q] = "pass", NEW n \in loaded[q].entries
          PROVE  ValuesDiffer(q, n)' <=> ValuesDiffer(q, n)
      BY <2>1, <2>3 DEF ValuesDiffer, EntryFor
    <2> QED
      BY <2>2, <2>3 DEF CallKept, PassesHonestly
  <1>5. ReportedIsKept(q)'
    <2>1. ASSUME NEW x \in reported[q] PROVE ~ AtRest(q) /\ <<call[q].contract, x>> \in Names
      BY <2>1 DEF CallKept, CallIsKnown, AtRest, StoreTypes, Names
    <2>2. \A x \in reported[q] : files[<<call[q].contract, x>>] # "none"
                                   => files'[<<call[q].contract, x>>] # "none"
      BY <2>1 DEF FilesStay
    <2> QED
      BY <2>2 DEF CallKept, ReportedIsKept, Writes
  <1>6. WritesThePartial(q)'
    <2>1. CASE pc[q] = "write"
      <3>1. pending[q] # <<>> /\ files[NextName(q)] = "partial" /\ ~ AtRest(q)
        BY <2>1 DEF CallKept, WritesThePartial, AtRest
      <3>2. NextName(q) \in Names
        BY <3>1, NextIsAName
      <3> QED
        BY <2>1, <3>1, <3>2 DEF WritesThePartial, FilesStay, NextName
    <2> QED
      BY <2>1 DEF WritesThePartial
  <1> QED
    BY <1>1, <1>2, <1>3, <1>4, <1>5, <1>6 DEF CallKept

\* A step of a process that leaves the files alone.
LEMMA ProcessStep ==
  ASSUME StoreInductive, StoreTypes', NEW p \in Processes, OthersStay(p), UNCHANGED files,
         CallKept(p)', pc'[p] # "write"
  PROVE  StoreInductive'
  <1>1. ASSUME NEW q \in Processes PROVE FilesStay(q)
    BY DEF FilesStay
  <1>2. ASSUME NEW q \in Processes PROVE CallKept(q)'
    BY <1>1, CallIsUndisturbed DEF StoreInductive, OthersStay
  <1>3. OneWriter'
    BY DEF StoreInductive, OneWriter, OthersStay, SameCall, NextName
  <1> QED
    BY <1>2, <1>3 DEF StoreInductive

-----------------------------------------------------------------------------
(***************************************************************************)
(* The steps of a call.                                                    *)
(***************************************************************************)
\* Between the calls of a test nothing is left of a call.
LEMMA NothingIsLeft ==
  ASSUME StoreTypes', NEW p \in Processes, AtRest(p)', listed'[p] = {}, loaded'[p].entries = {},
         pending'[p] = <<>>, reported'[p] = {}, verdict'[p] = "none"
  PROVE  CallKept(p)'
  BY DEF AtRest, CallKept, CallIsKnown, ListedStay, LoadedWhole, Looked, PassesHonestly,
         ReportedIsKept, WritesThePartial

LEMMA CallEnds ==
  ASSUME StoreInductive, NEW p \in Processes, Ends(p), UNCHANGED <<files, env, claims, calls>>
  PROVE  StoreInductive'
  <1>1. StoreTypes /\ NoCall \in PropertyCalls
    BY DEF StoreInductive, NoCall, PropertyCalls
  <1>2. StoreTypes'
    BY <1>1 DEF StoreTypes, Ends, Fresh, CallSteps
  <1>3. OthersStay(p)
    BY <1>1 DEF StoreTypes, Ends, Fresh, OthersStay, SameCall
  <1>4. /\ pc'[p] = "test" /\ listed'[p] = {} /\ loaded'[p].entries = {} /\ pending'[p] = <<>>
        /\ reported'[p] = {}
        /\ verdict'[p] = "none"
    BY <1>1 DEF StoreTypes, Ends, Fresh
  <1>5. CallKept(p)'
    BY <1>2, <1>4, NothingIsLeft DEF AtRest
  <1> QED
    BY <1>2, <1>3, <1>4, <1>5, ProcessStep

LEMMA TestIsLeft ==
  ASSUME StoreInductive, NEW p \in Processes, Leaves(p), UNCHANGED <<files, calls>>
  PROVE  StoreInductive'
  <1>1. StoreTypes
    BY DEF StoreInductive
  <1>2. NoEnv \in AnyEnvironment /\ NoCall \in PropertyCalls
    BY DEF NoEnv, NoCall, AnyEnvironment, PropertyCalls
  <1>3. StoreTypes'
    BY <1>1, <1>2 DEF StoreTypes, Leaves, Fresh, CallSteps
  <1>4. OthersStay(p)
    BY <1>1 DEF StoreTypes, Leaves, Fresh, OthersStay, SameCall
  <1>5. /\ pc'[p] = "idle" /\ listed'[p] = {} /\ loaded'[p].entries = {} /\ pending'[p] = <<>>
        /\ reported'[p] = {}
        /\ verdict'[p] = "none"
    BY <1>1 DEF StoreTypes, Leaves, Fresh
  <1>6. CallKept(p)'
    BY <1>3, <1>5, NothingIsLeft DEF AtRest
  <1> QED
    BY <1>3, <1>4, <1>5, <1>6, ProcessStep

LEMMA TestStarts ==
  ASSUME StoreInductive, NEW p \in Processes, StartTest(p)
  PROVE  StoreInductive'
  <1>1. StoreTypes
    BY DEF StoreInductive
  <1>2. StoreTypes'
    BY <1>1, EnvironmentsAssumption DEF StoreTypes, StartTest, CallSteps
  <1>3. OthersStay(p) /\ pc'[p] = "test"
    BY <1>1 DEF StoreTypes, StartTest, OthersStay, SameCall
  <1>4. /\ listed'[p] = {} /\ loaded'[p].entries = {} /\ pending'[p] = <<>> /\ reported'[p] = {}
        /\ verdict'[p] = "none"
    BY DEF StoreInductive, CallKept, CallIsKnown, AtRest, StartTest
  <1>5. CallKept(p)'
    BY <1>2, <1>3, <1>4, NothingIsLeft DEF AtRest
  <1> QED
    BY <1>2, <1>3, <1>5, ProcessStep DEF StartTest

\* A call begins with nothing of the one before.
LEMMA CallBegins ==
  ASSUME StoreInductive, NEW p \in Processes, BeginCall(p)
  PROVE  StoreInductive'
  <1>1. StoreTypes
    BY DEF StoreInductive
  <1>2. /\ listed[p] = {} /\ loaded[p].entries = {} /\ pending[p] = <<>> /\ reported[p] = {}
        /\ verdict[p] = "none" /\ pc[p] = "test"
    BY DEF StoreInductive, CallKept, CallIsKnown, AtRest, BeginCall
  <1>3. PICK kind \in Kinds, c \in Contracts, m \in ModesOf(p), s \in BOOLEAN :
          IF kind # "input" /\ s /\ Claimed(p, c)
          THEN UNCHANGED <<pc, claims, call>>
          ELSE /\ call' = [call EXCEPT ![p] =
                             [kind |-> kind, contract |-> c, mode |-> m, store |-> s]]
               /\ claims' = [claims EXCEPT ![p] = IF kind # "input" /\ s THEN @ \cup {c} ELSE @]
               /\ pc' = [pc EXCEPT ![p] = IF kind = "input" \/ m = "replay" \/ ~s
                                          THEN "work" ELSE "list"]
    BY DEF BeginCall
  <1>4. UNCHANGED <<files, env, listed, loaded, pending, notes, verdict, reported>>
    BY DEF BeginCall
  <1>5. m \in {"replay", "run", "campaign"}
    BY DEF ModesOf
  <1>6. [kind |-> kind, contract |-> c, mode |-> m, store |-> s] \in PropertyCalls
    BY <1>5 DEF PropertyCalls
  <1>7. /\ pc' \in [Processes -> CallSteps] /\ claims' \in [Processes -> SUBSET Contracts]
        /\ call' \in [Processes -> PropertyCalls]
        /\ (pc'[p] = "test" \/ (pc'[p] \in {"work", "list"} /\ call'[p].contract = c))
        /\ \A q \in Processes \ {p} : pc'[q] = pc[q] /\ call'[q] = call[q]
    <2>1. CASE kind # "input" /\ s /\ Claimed(p, c)
      BY <1>1, <1>2, <1>3, <2>1 DEF StoreTypes
    <2>2. CASE ~ (kind # "input" /\ s /\ Claimed(p, c))
      <3> DEFINE mine == IF kind # "input" /\ s THEN claims[p] \cup {c} ELSE claims[p]
                 next == IF kind = "input" \/ m = "replay" \/ ~s THEN "work" ELSE "list"
                 this == [kind |-> kind, contract |-> c, mode |-> m, store |-> s]
      <3>1. /\ claims' = [claims EXCEPT ![p] = mine] /\ pc' = [pc EXCEPT ![p] = next]
            /\ call' = [call EXCEPT ![p] = this]
        BY <1>3, <2>2
      <3>2. next \in {"work", "list"} /\ next \in CallSteps /\ this \in PropertyCalls
            /\ this.contract = c
        BY <1>6 DEF CallSteps
      <3>3. mine \in SUBSET Contracts
        BY <1>1 DEF StoreTypes
      <3> HIDE DEF mine, next, this
      <3> QED
        BY <1>1, <3>1, <3>2, <3>3 DEF StoreTypes
    <2> QED
      BY <2>1, <2>2
  <1>8. StoreTypes'
    BY <1>1, <1>4, <1>7 DEF StoreTypes
  <1>9. OthersStay(p)
    BY <1>4, <1>7 DEF OthersStay, SameCall
  <1>10. CallKept(p)'
    BY <1>2, <1>4, <1>7, <1>8 DEF CallKept, CallIsKnown, AtRest, ListedStay, LoadedWhole,
       Looked, PassesHonestly, ReportedIsKept, WritesThePartial
  <1>11. pc'[p] # "write"
    BY <1>7
  <1> QED
    BY <1>4, <1>8, <1>9, <1>10, <1>11, ProcessStep

\* The list of a directory is what it holds.
LEMMA DirectoryIsListed ==
  ASSUME StoreInductive, NEW p \in Processes, List(p)
  PROVE  StoreInductive'
  <1>1. StoreTypes
    BY DEF StoreInductive
  <1>2. CASE Ends(p)
    BY <1>2, CallEnds DEF List
  <1>3. CASE ~ Ends(p)
    <2> DEFINE there == {<<n, files[n]>> : n \in {m \in Names : files[m] # "none"}}
    <2>1. /\ pc[p] = "list" /\ listed' = [listed EXCEPT ![p] = there]
          /\ pc' = [pc EXCEPT ![p] = "load"]
          /\ UNCHANGED <<call, loaded, pending, notes, verdict, reported, files, env, claims, calls>>
      BY <1>3 DEF List
    <2>2. there \in SUBSET (Names \X FileStates)
      BY <1>1 DEF StoreTypes
    <2>3. \A l \in there : files[l[1]] = l[2]
      OBVIOUS
    <2> HIDE DEF there
    <2>4. StoreTypes'
      BY <1>1, <2>1, <2>2 DEF StoreTypes, CallSteps
    <2>5. OthersStay(p) /\ listed'[p] = there /\ pc'[p] = "load"
      BY <1>1, <2>1 DEF StoreTypes, OthersStay, SameCall
    <2>6. CallKept(p)
      BY DEF StoreInductive
    <2>7. CallKept(p)'
      BY <2>1, <2>3, <2>5, <2>6 DEF CallKept, CallIsKnown, AtRest, ListedStay, LoadedWhole,
         Looked, PassesHonestly, ReportedIsKept, WritesThePartial, Writes
    <2> QED
      BY <2>1, <2>4, <2>5, <2>7, ProcessStep
  <1> QED
    BY <1>2, <1>3

\* The files that a call loads are whole, and those for its contract are its entries.
LEMMA DirectoryIsLoaded ==
  ASSUME StoreInductive, NEW p \in Processes, Load(p)
  PROVE  StoreInductive'
  <1>1. StoreTypes
    BY DEF StoreInductive
  <1> DEFINE with(v) == {n \in {l[1] : l \in listed[p]} : Verdict(n, call[p].contract) = v}
  <1>2. CASE with("damaged") # {}
    BY <1>2, CallEnds DEF Load
  <1>3. CASE with("damaged") = {}
    <2> DEFINE found == [entries |-> with("replay"), skipped |-> with("skip")]
    <2>1. /\ pc[p] = "load" /\ loaded' = [loaded EXCEPT ![p] = found]
          /\ pc' = [pc EXCEPT ![p] = "work"]
          /\ UNCHANGED <<call, listed, pending, notes, verdict, reported, files, env, claims, calls>>
      BY <1>3 DEF Load
    <2>2. \A l \in listed[p] : l[1] \in Names /\ l[2] \in FileStates
      BY <1>1 DEF StoreTypes
    <2>3. found \in [entries : SUBSET Names, skipped : SUBSET Names]
      BY <2>2
    <2>4. found.entries = with("replay") /\ found.skipped = with("skip")
      OBVIOUS
    <2>5. \A l \in listed[p] :
            /\ files[l[1]] \in Settled
            /\ files[l[1]] = "later" => l[1] \in found.skipped
            /\ files[l[1]] \in Entries /\ l[1][1] = call[p].contract => l[1] \in found.entries
      BY <1>3, <2>4 DEF Verdict, Settled, Entries
    <2>6. \A n \in found.entries : files[n] \in Entries
      BY <2>4 DEF Verdict
    <2> HIDE DEF found, with
    <2>7. StoreTypes'
      BY <1>1, <2>1, <2>3 DEF StoreTypes, CallSteps
    <2>8. OthersStay(p) /\ loaded'[p] = found /\ pc'[p] = "work"
      BY <1>1, <2>1 DEF StoreTypes, OthersStay, SameCall
    <2>9. CallKept(p)
      BY DEF StoreInductive
    <2>10. CallIsKnown(p)' /\ ListedStay(p)' /\ WritesThePartial(p)'
      BY <2>1, <2>8, <2>9 DEF CallKept, CallIsKnown, AtRest, ListedStay, WritesThePartial
    <2>11. LoadedWhole(p)'
      BY <2>1, <2>5, <2>6, <2>8 DEF LoadedWhole
    <2>12. PassesHonestly(p)' /\ ReportedIsKept(p)'
      BY <2>1, <2>8, <2>9 DEF CallKept, PassesHonestly, ReportedIsKept, Writes
    <2> QED
      BY <2>1, <2>7, <2>8, <2>10, <2>11, <2>12, ProcessStep DEF CallKept
  <1> QED
    BY <1>2, <1>3

\* A conclusion reports failures and has them to write, unless nobody writes them.
LEMMA CallConcludes ==
  ASSUME StoreInductive, NEW p \in Processes, Conclude(p)
  PROVE  StoreInductive'
  <1>1. StoreTypes /\ CallKept(p) /\ pc[p] = "work"
    BY DEF StoreInductive, Conclude
  <1>2. PICK f \in Conclusions(p) :
          \E order \in SetToSeqs(f) :
            /\ reported' = [reported EXCEPT ![p] = @ \cup f]
            /\ pending' = [pending EXCEPT ![p] = IF Writes(p) THEN order ELSE <<>>]
    BY DEF Conclude
  <1>0. PICK order \in SetToSeqs(f) :
          /\ reported' = [reported EXCEPT ![p] = @ \cup f]
          /\ pending' = [pending EXCEPT ![p] = IF Writes(p) THEN order ELSE <<>>]
    BY <1>2
  <1> DEFINE told   == reported[p] \cup f
             writes == IF Writes(p) THEN order ELSE <<>>
  <1>3. f \in SUBSET Cases /\ IsFiniteSet(f)
    BY <1>1 DEF Conclusions, StoreTypes, AnyEnvironment
  <1>4. order \in Seq(f) /\ \A x \in f : \E i \in DOMAIN order : order[i] = x
    BY <1>3, AllInSequence
  <1>5. order \in Seq(Cases)
    BY <1>3, <1>4
  <1>6. told \in SUBSET Cases /\ writes \in Seq(Cases)
    BY <1>1, <1>3, <1>5 DEF StoreTypes
  <1>7. /\ reported' = [reported EXCEPT ![p] = told] /\ pending' = [pending EXCEPT ![p] = writes]
        /\ verdict' = [verdict EXCEPT ![p] = "fail"] /\ pc' = [pc EXCEPT ![p] = "save"]
        /\ UNCHANGED <<files, env, claims, call, listed, loaded, notes, calls>>
    BY <1>0 DEF Conclude
  <1>8. Writes(p) => \A x \in told : x \in reported[p] \/ \E i \in DOMAIN writes : writes[i] = x
    BY <1>4
  <1> HIDE DEF told, writes
  <1>9. StoreTypes'
    BY <1>1, <1>6, <1>7 DEF StoreTypes, CallSteps
  <1>10. /\ OthersStay(p) /\ reported'[p] = told /\ pending'[p] = writes /\ verdict'[p] = "fail"
         /\ pc'[p] = "save"
    BY <1>1, <1>7 DEF StoreTypes, OthersStay, SameCall
  <1>11. CallIsKnown(p)' /\ ListedStay(p)' /\ LoadedWhole(p)' /\ PassesHonestly(p)' /\ WritesThePartial(p)'
    BY <1>1, <1>7, <1>10 DEF CallKept, CallIsKnown, AtRest, ListedStay, LoadedWhole, Looked,
       PassesHonestly, WritesThePartial
  <1>12. ReportedIsKept(p)'
    <2>1. pending[p] = <<>>
      BY <1>1 DEF CallKept, ReportedIsKept
    <2>2. Writes(p) /\ call[p].mode # "replay" =>
            \A x \in reported[p] : \/ files[<<call[p].contract, x>>] # "none"
                                   \/ <<call[p].contract, x>> \in notes[p]
      BY <1>1, <2>1 DEF CallKept, ReportedIsKept
    <2> QED
      BY <1>7, <1>8, <1>10, <2>2 DEF ReportedIsKept, Writes
  <1> QED
    BY <1>7, <1>9, <1>10, <1>11, <1>12, ProcessStep DEF CallKept

\* A case that is reported as it was found has its file, unless it is that of a token.
LEMMA CallFailsAsFound ==
  ASSUME StoreInductive, NEW p \in Processes, FailAsFound(p)
  PROVE  StoreInductive'
  <1>1. StoreTypes /\ CallKept(p) /\ pc[p] = "work"
    BY DEF StoreInductive, FailAsFound
  <1>2. PICK x \in env[p].fails :
          /\ \/ call[p].kind = "fuzz" /\ <<call[p].contract, x>> \in loaded[p].entries
             \/ call[p].mode = "replay"
          /\ reported' = [reported EXCEPT ![p] = @ \cup {x}]
    BY DEF FailAsFound
  <1>3. /\ verdict' = [verdict EXCEPT ![p] = "fail"] /\ pc' = [pc EXCEPT ![p] = "notes"]
        /\ UNCHANGED <<files, env, claims, call, listed, loaded, pending, notes, calls>>
    BY DEF FailAsFound
  <1>4. env[p].fails \subseteq Cases /\ x \in Cases
    BY <1>1 DEF StoreTypes, AnyEnvironment
  <1>5. call[p].mode # "replay" => files[<<call[p].contract, x>>] # "none"
    BY <1>1, <1>2 DEF CallKept, LoadedWhole, Looked, Entries
  <1>6. StoreTypes'
    BY <1>1, <1>2, <1>3, <1>4 DEF StoreTypes, CallSteps
  <1>7. /\ OthersStay(p) /\ verdict'[p] = "fail" /\ pc'[p] = "notes"
        /\ reported'[p] = reported[p] \cup {x}
    BY <1>1, <1>2, <1>3 DEF StoreTypes, OthersStay, SameCall
  <1>8. CallIsKnown(p)' /\ ListedStay(p)' /\ LoadedWhole(p)' /\ PassesHonestly(p)' /\ WritesThePartial(p)'
    BY <1>1, <1>3, <1>7 DEF CallKept, CallIsKnown, AtRest, ListedStay, LoadedWhole, Looked,
       PassesHonestly, WritesThePartial
  <1>9. ReportedIsKept(p)'
    BY <1>1, <1>3, <1>5, <1>7 DEF CallKept, ReportedIsKept, Writes
  <1> QED
    BY <1>3, <1>6, <1>7, <1>8, <1>9, ProcessStep DEF CallKept

\* A call that fails without a case to write, or skips, keeps what it has.
LEMMA CallEndsWithoutCase ==
  ASSUME StoreInductive, NEW p \in Processes, FailUnwritten(p) \/ Skip(p)
  PROVE  StoreInductive'
  <1>1. /\ StoreTypes /\ CallKept(p) /\ pc[p] = "work"
        /\ UNCHANGED <<files, env, claims, call, listed, loaded, pending, notes, reported, calls>>
    BY DEF StoreInductive, FailUnwritten, Skip
  <1>2. PICK v \in {"fail", "skip"}, step \in {"save", "notes"} :
          verdict' = [verdict EXCEPT ![p] = v] /\ pc' = [pc EXCEPT ![p] = step]
    BY DEF FailUnwritten, Skip
  <1>3. StoreTypes'
    BY <1>1, <1>2 DEF StoreTypes, CallSteps
  <1>4. OthersStay(p) /\ verdict'[p] # "pass" /\ pc'[p] \in {"save", "notes"}
    BY <1>1, <1>2 DEF StoreTypes, OthersStay, SameCall
  <1>5. CallIsKnown(p)' /\ ListedStay(p)' /\ LoadedWhole(p)' /\ PassesHonestly(p)' /\ WritesThePartial(p)'
    BY <1>1, <1>4 DEF CallKept, CallIsKnown, AtRest, ListedStay, LoadedWhole, Looked,
       PassesHonestly, WritesThePartial
  <1>6. ReportedIsKept(p)'
    BY <1>1, <1>4 DEF CallKept, ReportedIsKept, Writes
  <1> QED
    BY <1>1, <1>3, <1>4, <1>5, <1>6, ProcessStep DEF CallKept

LEMMA CallPasses ==
  ASSUME StoreInductive, NEW p \in Processes, Pass(p)
  PROVE  StoreInductive'
  <1>1. StoreTypes /\ CallKept(p)
    BY DEF StoreInductive
  <1>2. StoreTypes'
    BY <1>1 DEF StoreTypes, Pass, CallSteps
  <1>3. OthersStay(p) /\ verdict'[p] = "pass" /\ pc'[p] = "notes"
    BY <1>1 DEF StoreTypes, Pass, OthersStay, SameCall
  <1>4. pc[p] = "work" /\ ~ StoredFails(p)
        /\ UNCHANGED <<files, env, claims, call, listed, loaded, pending, notes, reported, calls>>
    BY DEF Pass
  <1>5. CallIsKnown(p)' /\ ListedStay(p)' /\ LoadedWhole(p)' /\ WritesThePartial(p)'
    BY <1>1, <1>3, <1>4 DEF CallKept, CallIsKnown, AtRest, ListedStay, LoadedWhole, Looked,
       WritesThePartial
  <1>6. PassesHonestly(p)' /\ ReportedIsKept(p)'
    BY <1>1, <1>3, <1>4 DEF CallKept, PassesHonestly, StoredFails, ReportedIsKept, Writes
  <1> QED
    BY <1>2, <1>3, <1>4, <1>5, <1>6, ProcessStep DEF CallKept

-----------------------------------------------------------------------------
(***************************************************************************)
(* The steps that write.                                                   *)
(***************************************************************************)
\* A step of a process that changes one file, which is not yet whole and which no other
\* process writes.
LEMMA WriterStep ==
  ASSUME StoreInductive, StoreTypes', NEW p \in Processes, OthersStay(p), CallKept(p)',
         NEW name \in Names, NEW content, files' = [files EXCEPT ![name] = content],
         content # "none", files[name] \notin Settled,
         \A q \in Processes \ {p} : pc[q] = "write" => NextName(q) # name,
         pc'[p] = "write" => NextName(p)' = name
  PROVE  StoreInductive'
  <1>1. StoreTypes
    BY DEF StoreInductive
  <1>2. /\ files'[name] = content
        /\ \A n \in Names : n # name => files'[n] = files[n]
    BY <1>1 DEF StoreTypes
  <1>3. ASSUME NEW q \in Processes, q # p PROVE FilesStay(q)
    BY <1>2, <1>3 DEF FilesStay
  <1>4. ASSUME NEW q \in Processes PROVE CallKept(q)'
    BY <1>1, <1>3, CallIsUndisturbed DEF StoreInductive, OthersStay
  <1>5. ASSUME NEW q \in Processes, q # p
        PROVE  NextName(q)' = NextName(q) /\ pc'[q] = pc[q]
    BY <1>5 DEF OthersStay, SameCall, NextName
  <1>6. OneWriter'
    BY <1>5 DEF StoreInductive, OneWriter
  <1> QED
    BY <1>4, <1>6 DEF StoreInductive

\* What is pending is written, or noted, the first one first.
LEMMA FailureIsDealtWith ==
  ASSUME StoreInductive, NEW p \in Processes, pending[p] # <<>>, ~ AtRest(p), StoreTypes',
         pending' = [pending EXCEPT ![p] = Tail(@)], UNCHANGED <<env, call, reported>>,
         files'[NextName(p)] # "none" \/ NextName(p) \in notes'[p],
         notes[p] \subseteq notes'[p],
         \A n \in Names : files[n] # "none" => files'[n] # "none",
         pc'[p] = "save"
  PROVE  ReportedIsKept(p)'
  <1>1. StoreTypes /\ CallKept(p)
    BY DEF StoreInductive
  <1>2. pending[p] \in Seq(Cases) /\ pending'[p] = Tail(pending[p])
    BY <1>1 DEF StoreTypes
  <1>3. \A x : (\E i \in DOMAIN pending[p] : pending[p][i] = x)
                 => x = Head(pending[p]) \/ \E i \in DOMAIN pending'[p] : pending'[p][i] = x
    <2>1. \A x : (\E i \in DOMAIN pending[p] : pending[p][i] = x)
                   => \/ x = Head(pending[p])
                      \/ \E i \in DOMAIN Tail(pending[p]) : Tail(pending[p])[i] = x
      BY <1>2, OneIsTaken
    <2> QED
      BY <1>2, <2>1
  <1>4. call[p].contract \in Contracts
    BY <1>1 DEF CallKept, CallIsKnown
  <1>5. ASSUME NEW x \in reported[p], Writes(p), call[p].mode # "replay"
        PROVE  \/ files'[<<call[p].contract, x>>] # "none"
               \/ <<call[p].contract, x>> \in notes'[p]
               \/ \E i \in DOMAIN pending'[p] : pending'[p][i] = x
    <2>1. x \in Cases /\ <<call[p].contract, x>> \in Names
      BY <1>1, <1>4 DEF StoreTypes, Names
    <2>2. CASE files[<<call[p].contract, x>>] # "none" \/ <<call[p].contract, x>> \in notes[p]
      BY <2>1, <2>2
    <2>3. CASE \E i \in DOMAIN pending[p] : pending[p][i] = x
      BY <1>3, <2>3 DEF NextName
    <2> QED
      BY <1>1, <1>5, <2>2, <2>3 DEF CallKept, ReportedIsKept
  <1> QED
    BY <1>5 DEF ReportedIsKept, Writes

LEMMA FileIsCreated ==
  ASSUME StoreInductive, NEW p \in Processes, Create(p)
  PROVE  StoreInductive'
  <1> DEFINE n == NextName(p)
  <1>1. /\ StoreTypes /\ CallKept(p) /\ pc[p] = "save" /\ pending[p] # <<>> /\ ~ AtRest(p)
        /\ UNCHANGED <<env, claims, call, listed, loaded, verdict, reported, calls>>
    BY DEF StoreInductive, Create, AtRest
  <1>2. n \in Names /\ Tail(pending[p]) \in Seq(Cases)
    BY <1>1, NextIsAName
  <1>3. \/ /\ Creates(n) /\ files' = [files EXCEPT ![n] = "partial"]
           /\ pc' = [pc EXCEPT ![p] = "write"]
           /\ UNCHANGED <<pending, notes>>
        \/ /\ pending' = [pending EXCEPT ![p] = Tail(@)]
           /\ \/ ~Creates(n) /\ UNCHANGED notes
              \/ notes' = [notes EXCEPT ![p] = @ \cup {n}]
           /\ UNCHANGED <<files, pc>>
    BY DEF Create, NextName
  <1> HIDE DEF n
  <1>4. CASE /\ Creates(n) /\ files' = [files EXCEPT ![n] = "partial"]
             /\ pc' = [pc EXCEPT ![p] = "write"]
             /\ UNCHANGED <<pending, notes>>
    <2>1. StoreTypes'
      BY <1>1, <1>2, <1>4 DEF StoreTypes, CallSteps, FileStates
    <2>2. OthersStay(p) /\ pc'[p] = "write" /\ NextName(p)' = n
      BY <1>1, <1>4 DEF StoreTypes, OthersStay, SameCall, NextName, n
    <2>3. /\ files[n] = "none" /\ files'[n] = "partial" /\ files[n] \notin Settled
          /\ \A m \in Names : m # n => files'[m] = files[m]
      BY <1>1, <1>2, <1>4 DEF Creates, StoreTypes, Settled, Entries
    <2>4. CallIsKnown(p)' /\ PassesHonestly(p)' /\ WritesThePartial(p)'
      BY <1>1, <1>4, <2>2, <2>3 DEF CallKept, CallIsKnown, AtRest, PassesHonestly, WritesThePartial
    <2>5. \A m \in Names : files[m] \in Settled => files'[m] = files[m]
      BY <2>3
    <2>6. ListedStay(p)'
      <3>1. \A l \in listed[p] : l[1] \in Names
        BY <1>1 DEF StoreTypes
      <3> QED
        BY <1>1, <2>5, <3>1 DEF CallKept, ListedStay
    <2>7. LoadedWhole(p)'
      <3>1. (\A l \in listed[p] : l[1] \in Names) /\ (\A m \in loaded[p].entries : m \in Names)
        BY <1>1 DEF StoreTypes
      <3>2. Looked(p) /\ Entries \subseteq Settled
        BY <1>1 DEF Looked, Settled
      <3>3. \A l \in listed[p] : files'[l[1]] = files[l[1]]
        BY <1>1, <2>5, <3>1, <3>2 DEF CallKept, LoadedWhole
      <3>4. \A m \in loaded[p].entries : files'[m] = files[m]
        BY <1>1, <2>5, <3>1, <3>2 DEF CallKept, LoadedWhole
      <3> QED
        BY <1>1, <3>2, <3>3, <3>4 DEF CallKept, LoadedWhole
    <2>8. ReportedIsKept(p)'
      <3>1. \A x \in reported[p] : files[<<call[p].contract, x>>] # "none"
                                     => files'[<<call[p].contract, x>>] # "none"
        <4>1. \A x \in reported[p] : <<call[p].contract, x>> \in Names
          BY <1>1 DEF CallKept, CallIsKnown, StoreTypes, Names
        <4> QED
          BY <2>3, <4>1
      <3> QED
        BY <1>1, <1>4, <2>2, <3>1 DEF CallKept, ReportedIsKept, Writes
    <2>9. ASSUME NEW q \in Processes \ {p}, pc[q] = "write" PROVE NextName(q) # n
      BY <2>3, <2>9 DEF StoreInductive, CallKept, WritesThePartial
    <2> QED
      BY <1>2, <1>4, <2>1, <2>2, <2>3, <2>4, <2>6, <2>7, <2>8, <2>9, WriterStep DEF CallKept
  <1>5. CASE /\ pending' = [pending EXCEPT ![p] = Tail(@)]
             /\ \/ ~Creates(n) /\ UNCHANGED notes
                \/ notes' = [notes EXCEPT ![p] = @ \cup {n}]
             /\ UNCHANGED <<files, pc>>
    <2>1. notes' \in [Processes -> SUBSET Names]
      <3>1. notes \in [Processes -> SUBSET Names] /\ notes[p] \cup {n} \in SUBSET Names
        BY <1>1, <1>2 DEF StoreTypes
      <3> QED
        BY <1>5, <3>1
    <2>2. StoreTypes'
      BY <1>1, <1>2, <1>5, <2>1 DEF StoreTypes
    <2>3. \A q \in Processes \ {p} : notes'[q] = notes[q]
      BY <1>1, <1>5 DEF StoreTypes
    <2>4. OthersStay(p)
      BY <1>1, <1>5, <2>3 DEF StoreTypes, OthersStay, SameCall
    <2>5. notes[p] \subseteq notes'[p] /\ (files[n] # "none" \/ n \in notes'[p])
      BY <1>1, <1>5 DEF StoreTypes, Creates
    <2>6. ReportedIsKept(p)'
      BY <1>1, <1>5, <2>2, <2>5, FailureIsDealtWith DEF n
    <2>7. CallIsKnown(p)' /\ ListedStay(p)' /\ LoadedWhole(p)' /\ PassesHonestly(p)' /\ WritesThePartial(p)'
      BY <1>1, <1>5 DEF CallKept, CallIsKnown, AtRest, ListedStay, LoadedWhole, Looked,
         PassesHonestly, WritesThePartial
    <2> QED
      BY <1>1, <1>5, <2>2, <2>4, <2>6, <2>7, ProcessStep DEF CallKept
  <1> QED
    BY <1>3, <1>4, <1>5

LEMMA FileIsWritten ==
  ASSUME StoreInductive, NEW p \in Processes, WriteEntry(p)
  PROVE  StoreInductive'
  <1> DEFINE n == NextName(p)
  <1>1. /\ StoreTypes /\ CallKept(p) /\ pc[p] = "write" /\ ~ AtRest(p)
        /\ UNCHANGED <<env, claims, call, listed, loaded, verdict, reported, calls>>
        /\ pending' = [pending EXCEPT ![p] = Tail(@)] /\ pc' = [pc EXCEPT ![p] = "save"]
        /\ notes' = notes \/ notes' = [notes EXCEPT ![p] = @ \cup {n}]
    BY DEF StoreInductive, WriteEntry, AtRest, NextName
  <1>2. pending[p] # <<>> /\ files[n] = "partial"
    BY <1>1 DEF CallKept, WritesThePartial
  <1>3. n \in Names /\ Tail(pending[p]) \in Seq(Cases)
    BY <1>1, <1>2, NextIsAName
  <1>4. PICK entry \in FileStates \ {"none"} : files' = [files EXCEPT ![n] = entry]
    <2>1. files' = files \/ files' = [files EXCEPT ![n] = EntryFor(env[p].generators)]
      BY DEF WriteEntry, NextName
    <2>2. files = [files EXCEPT ![n] = "partial"]
      BY <1>1, <1>2, <1>3 DEF StoreTypes
    <2> QED
      BY <2>1, <2>2 DEF EntryFor, Entries, FileStates
  <1>5. StoreTypes'
    <2>1. notes' \in [Processes -> SUBSET Names]
      <3>1. notes \in [Processes -> SUBSET Names] /\ notes[p] \cup {n} \in SUBSET Names
        BY <1>1, <1>3 DEF StoreTypes
      <3> HIDE DEF n
      <3> QED
        BY <1>1, <3>1
    <2> QED
      BY <1>1, <1>3, <1>4, <2>1 DEF StoreTypes, CallSteps
  <1>6. OthersStay(p) /\ pc'[p] = "save" /\ notes[p] \subseteq notes'[p]
    BY <1>1 DEF StoreTypes, OthersStay, SameCall
  <1>7. /\ files'[n] = entry /\ files[n] \notin Settled
        /\ \A m \in Names : m # n => files'[m] = files[m]
    BY <1>1, <1>2, <1>3, <1>4 DEF StoreTypes, Settled, Entries
  <1>8. \A m \in Names : /\ files[m] \in Settled => files'[m] = files[m]
                         /\ files[m] # "none" => files'[m] # "none"
    BY <1>4, <1>7
  <1>9. ReportedIsKept(p)'
    BY <1>1, <1>2, <1>4, <1>5, <1>6, <1>7, <1>8, FailureIsDealtWith
  <1>10. CallIsKnown(p)' /\ PassesHonestly(p)' /\ WritesThePartial(p)'
    BY <1>1, <1>6 DEF CallKept, CallIsKnown, AtRest, PassesHonestly, WritesThePartial
  <1>11. ListedStay(p)'
    <2>1. \A l \in listed[p] : l[1] \in Names
      BY <1>1 DEF StoreTypes
    <2> QED
      BY <1>1, <1>8, <2>1 DEF CallKept, ListedStay
  <1>12. LoadedWhole(p)'
    <2>1. (\A l \in listed[p] : l[1] \in Names) /\ (\A m \in loaded[p].entries : m \in Names)
      BY <1>1 DEF StoreTypes
    <2>2. Looked(p) /\ Entries \subseteq Settled
      BY <1>1 DEF Looked, Settled
    <2>3. \A l \in listed[p] : files'[l[1]] = files[l[1]]
      BY <1>1, <1>8, <2>1, <2>2 DEF CallKept, LoadedWhole
    <2>4. \A m \in loaded[p].entries : files'[m] = files[m]
      BY <1>1, <1>8, <2>1, <2>2 DEF CallKept, LoadedWhole
    <2> QED
      BY <1>1, <2>2, <2>3, <2>4 DEF CallKept, LoadedWhole
  <1>13. ASSUME NEW q \in Processes \ {p}, pc[q] = "write" PROVE NextName(q) # n
    BY <1>1, <1>13 DEF StoreInductive, OneWriter
  <1> QED
    BY <1>1, <1>3, <1>4, <1>5, <1>6, <1>7, <1>9, <1>10, <1>11, <1>12, <1>13, WriterStep DEF CallKept

LEMMA WritingEnds ==
  ASSUME StoreInductive, NEW p \in Processes, Saved(p)
  PROVE  StoreInductive'
  <1>1. /\ StoreTypes /\ CallKept(p) /\ pc[p] = "save" /\ pending[p] = <<>>
        /\ UNCHANGED <<files, env, claims, call, listed, loaded, pending, notes, verdict, reported,
                       calls>>
    BY DEF StoreInductive, Saved
  <1>2. pc' = [pc EXCEPT ![p] = "work"] \/ pc' = [pc EXCEPT ![p] = "notes"]
    BY DEF Saved
  <1>3. StoreTypes'
    BY <1>1, <1>2 DEF StoreTypes, CallSteps
  <1>4. OthersStay(p) /\ pc'[p] \in {"work", "notes"}
    BY <1>1, <1>2 DEF StoreTypes, OthersStay, SameCall
  <1>5. CallIsKnown(p)' /\ ListedStay(p)' /\ LoadedWhole(p)' /\ WritesThePartial(p)'
    BY <1>1, <1>4 DEF CallKept, CallIsKnown, AtRest, ListedStay, LoadedWhole, Looked, WritesThePartial
  <1>6. PassesHonestly(p)' /\ ReportedIsKept(p)'
    BY <1>1, <1>4 DEF CallKept, PassesHonestly, ReportedIsKept, Writes
  <1> QED
    BY <1>1, <1>3, <1>4, <1>5, <1>6, ProcessStep DEF CallKept

LEMMA CallNotes ==
  ASSUME StoreInductive, NEW p \in Processes, Note(p)
  PROVE  StoreInductive'
  <1>1. /\ StoreTypes /\ CallKept(p) /\ pc[p] = "notes" /\ pc' = [pc EXCEPT ![p] = "reported"]
        /\ UNCHANGED <<files, env, claims, call, listed, loaded, pending, verdict, reported, calls>>
    BY DEF StoreInductive, Note
  <1>2. PICK replayed \in SUBSET loaded[p].entries :
          /\ verdict[p] = "pass" => replayed = loaded[p].entries
          /\ notes' = [notes EXCEPT ![p] =
                         @ \cup loaded[p].skipped \cup {n \in replayed : ValuesDiffer(p, n)}]
    BY DEF Note
  <1> DEFINE told == notes[p] \cup loaded[p].skipped \cup {n \in replayed : ValuesDiffer(p, n)}
  <1>3. told \in SUBSET Names /\ notes[p] \subseteq told /\ loaded[p].skipped \subseteq told
    BY <1>1, <1>2 DEF StoreTypes
  <1>4. verdict[p] = "pass" => \A n \in loaded[p].entries : ValuesDiffer(p, n) => n \in told
    BY <1>2
  <1>5. notes' = [notes EXCEPT ![p] = told]
    BY <1>2
  <1> HIDE DEF told
  <1>6. StoreTypes'
    BY <1>1, <1>3, <1>5 DEF StoreTypes, CallSteps
  <1>7. OthersStay(p) /\ pc'[p] = "reported" /\ notes'[p] = told
    BY <1>1, <1>5 DEF StoreTypes, OthersStay, SameCall
  <1>8. CallIsKnown(p)' /\ ListedStay(p)' /\ LoadedWhole(p)' /\ WritesThePartial(p)'
    BY <1>1, <1>7 DEF CallKept, CallIsKnown, AtRest, ListedStay, LoadedWhole, Looked, WritesThePartial
  <1>9. PassesHonestly(p)'
    BY <1>1, <1>3, <1>4, <1>7 DEF CallKept, PassesHonestly, StoredFails, ValuesDiffer, EntryFor
  <1>10. ReportedIsKept(p)'
    BY <1>1, <1>3, <1>7 DEF CallKept, ReportedIsKept, Writes
  <1> QED
    BY <1>1, <1>6, <1>7, <1>8, <1>9, <1>10, ProcessStep DEF CallKept

\* Another tool removes a damaged file only while no call is under way.
LEMMA DirectoryIsMeddledWith ==
  ASSUME StoreInductive, Meddle
  PROVE  StoreInductive'
  <1>1. /\ StoreTypes
        /\ UNCHANGED <<pc, env, claims, call, listed, loaded, pending, notes, verdict, reported, calls>>
    BY DEF StoreInductive, Meddle
  <1>2. PICK n \in Names :
          \/ /\ n[1] = "other tool" /\ files[n] = "none"
             /\ \E content \in {"later", "broken", "entry of new"} :
                  files' = [files EXCEPT ![n] = content]
          \/ /\ files[n] \in {"partial", "broken"} /\ \A p \in Processes : pc[p] \in {"idle", "test"}
             /\ files' = [files EXCEPT ![n] = "none"]
    BY DEF Meddle
  <1>3. \A m \in Names : m # n => files'[m] = files[m]
    BY <1>1, <1>2 DEF StoreTypes
  <1>4. StoreTypes'
    BY <1>1, <1>2 DEF StoreTypes, FileStates, Entries
  <1>5. ASSUME NEW q \in Processes PROVE CallKept(q)'
    <2>1. SameCall(q)
      BY <1>1 DEF SameCall
    <2>2. CASE files[n] = "none"
      <3>1. pc[q] = "write" => NextName(q) # n
        BY <2>2 DEF StoreInductive, CallKept, WritesThePartial
      <3>2. files[n] \notin Settled
        BY <2>2 DEF Settled, Entries
      <3>3. FilesStay(q)
        BY <1>3, <2>2, <3>1, <3>2 DEF FilesStay
      <3> QED
        BY <1>1, <1>4, <2>1, <3>3, CallIsUndisturbed DEF StoreInductive
    <2>3. CASE files[n] # "none"
      <3>1. AtRest(q) /\ pc[q] # "write" /\ files[n] \notin Settled
        BY <1>2, <2>3 DEF AtRest, Settled, Entries
      <3>2. FilesStay(q)
        BY <1>3, <3>1 DEF FilesStay
      <3> QED
        BY <1>1, <1>4, <2>1, <3>2, CallIsUndisturbed DEF StoreInductive
    <2> QED
      BY <2>2, <2>3
  <1>6. OneWriter'
    BY <1>1 DEF StoreInductive, OneWriter, NextName
  <1> QED
    BY <1>4, <1>5, <1>6 DEF StoreInductive

-----------------------------------------------------------------------------
LEMMA StoreBegins == PropertyInit => StoreInductive
  <1> SUFFICES ASSUME PropertyInit PROVE StoreInductive
    OBVIOUS
  <1>1. NoEnv \in AnyEnvironment /\ NoCall \in PropertyCalls
    BY DEF NoEnv, NoCall, AnyEnvironment, PropertyCalls
  <1>2. StoreTypes
    BY <1>1 DEF PropertyInit, StoreTypes, FileStates, CallSteps
  <1>3. OneWriter
    BY DEF PropertyInit, OneWriter
  <1>4. ASSUME NEW p \in Processes PROVE CallKept(p)
    BY DEF PropertyInit, AtRest, CallKept, CallIsKnown, ListedStay, LoadedWhole, Looked,
       PassesHonestly, ReportedIsKept, WritesThePartial
  <1> QED
    BY <1>2, <1>3, <1>4 DEF StoreInductive

LEMMA StoreGoesOn == StoreInductive /\ [PropertyNext]_propertyVars => StoreInductive'
  <1> SUFFICES ASSUME StoreInductive, [PropertyNext]_propertyVars PROVE StoreInductive'
    OBVIOUS
  <1>1. ASSUME NEW p \in Processes, StartTest(p) \/ BeginCall(p) \/ List(p) \/ Load(p)
        PROVE  StoreInductive'
    BY <1>1, TestStarts, CallBegins, DirectoryIsListed, DirectoryIsLoaded
  <1>2. ASSUME NEW p \in Processes,
               \/ Conclude(p) \/ FailAsFound(p) \/ FailUnwritten(p) \/ Skip(p) \/ Pass(p)
               \/ Fault(p) \/ Report(p)
        PROVE  StoreInductive'
    BY <1>2, CallConcludes, CallFailsAsFound, CallEndsWithoutCase, CallPasses, CallEnds
       DEF Fault, Report
  <1>3. ASSUME NEW p \in Processes, Create(p) \/ WriteEntry(p) \/ Saved(p) \/ Note(p)
        PROVE  StoreInductive'
    BY <1>3, FileIsCreated, FileIsWritten, WritingEnds, CallNotes
  <1>4. ASSUME NEW p \in Processes, EndTest(p) \/ Crash(p)
        PROVE  StoreInductive'
    BY <1>4, TestIsLeft DEF EndTest, Crash
  <1>5. CASE Meddle
    BY <1>5, DirectoryIsMeddledWith
  <1>6. CASE UNCHANGED propertyVars
    <2>1. StoreTypes'
      BY <1>6 DEF StoreInductive, StoreTypes, propertyVars
    <2>2. ASSUME NEW q \in Processes PROVE CallKept(q)'
      BY <1>6, <2>1, CallIsUndisturbed DEF StoreInductive, SameCall, FilesStay, propertyVars
    <2>3. OneWriter'
      BY <1>6 DEF StoreInductive, OneWriter, NextName, propertyVars
    <2> QED
      BY <2>1, <2>2, <2>3 DEF StoreInductive
  <1> QED
    BY <1>1, <1>2, <1>3, <1>4, <1>5, <1>6 DEF PropertyNext

\* No step changes the text of an entry of the store.
LEMMA EntriesAreNotRewritten ==
  ASSUME StoreInductive, [PropertyNext]_propertyVars
  PROVE  \A n \in DOMAIN files : files[n] \in Entries => files'[n] = files[n]
  <1>1. StoreTypes /\ DOMAIN files = Names
    BY DEF StoreInductive, StoreTypes
  <1>2. ASSUME NEW p \in Processes, Create(p)
        PROVE  \A n \in Names : files[n] \in Entries => files'[n] = files[n]
    <2>1. \/ UNCHANGED files
          \/ Creates(NextName(p)) /\ files' = [files EXCEPT ![NextName(p)] = "partial"]
      BY <1>2 DEF Create, NextName
    <2> QED
      BY <1>1, <2>1 DEF StoreTypes, Creates, Entries
  <1>3. ASSUME NEW p \in Processes, WriteEntry(p)
        PROVE  \A n \in Names : files[n] \in Entries => files'[n] = files[n]
    <2>1. files[NextName(p)] = "partial"
      BY <1>3 DEF StoreInductive, CallKept, WritesThePartial, WriteEntry
    <2>2. \/ files' = files
          \/ files' = [files EXCEPT ![NextName(p)] = EntryFor(env[p].generators)]
      BY <1>3 DEF WriteEntry, NextName
    <2> QED
      BY <1>1, <2>1, <2>2 DEF StoreTypes, Entries
  <1>4. CASE Meddle
    BY <1>1, <1>4 DEF Meddle, StoreTypes, Entries
  <1>5. ASSUME NEW p \in Processes,
               \/ StartTest(p) \/ BeginCall(p) \/ List(p) \/ Load(p) \/ Conclude(p)
               \/ FailAsFound(p) \/ FailUnwritten(p) \/ Skip(p) \/ Pass(p) \/ Fault(p)
               \/ Saved(p) \/ Note(p) \/ Report(p) \/ EndTest(p) \/ Crash(p)
        PROVE  UNCHANGED files
    BY <1>5 DEF StartTest, BeginCall, List, Load, Conclude, FailAsFound, FailUnwritten, Skip,
       Pass, Fault, Saved, Note, Report, EndTest, Crash
  <1>6. CASE UNCHANGED propertyVars
    BY <1>6 DEF propertyVars
  <1> QED
    BY <1>1, <1>2, <1>3, <1>4, <1>5, <1>6 DEF PropertyNext

LEMMA FailuresAreHere == StoreInductive => StoreKeepsFailures
  <1> SUFFICES ASSUME StoreInductive PROVE StoreKeepsFailures
    OBVIOUS
  <1>1. ASSUME NEW p \in Processes, Over(p)
        PROVE  CallKept(p) /\ pc[p] = "reported" /\ Looked(p)
    BY <1>1 DEF StoreInductive, Over, Looked
  <1>2. FailuresReturn
    <2>1. ASSUME NEW p \in Processes, Over(p), verdict[p] = "pass", NEW l \in listed[p]
          PROVE  /\ l[2] \in Entries /\ l[1][1] = call[p].contract => l[1][2] \notin env[p].fails
                 /\ files[l[1]] # "partial"
      <3>1. files[l[1]] \in Settled
        BY <1>1, <2>1 DEF CallKept, LoadedWhole
      <3>2. ASSUME l[2] \in Entries, l[1][1] = call[p].contract PROVE l[1] \in loaded[p].entries
        BY <1>1, <2>1, <3>2 DEF CallKept, ListedStay, LoadedWhole, Settled
      <3>3. \A n \in loaded[p].entries : n[2] \notin env[p].fails
        BY <1>1, <2>1 DEF CallKept, PassesHonestly, StoredFails
      <3> QED
        BY <3>1, <3>2, <3>3 DEF Settled, Entries
    <2> QED
      BY <2>1 DEF FailuresReturn
  <1>3. FailuresAreKept
    BY <1>1 DEF CallKept, ReportedIsKept, FailuresAreKept
  <1>4. NotesAreTold
    <2>1. ASSUME NEW p \in Processes, Over(p), NEW l \in listed[p], l[2] = "later"
          PROVE  l[1] \in notes[p]
      <3>1. files[l[1]] = "later"
        BY <1>1, <2>1 DEF CallKept, ListedStay, Settled
      <3> QED
        BY <1>1, <2>1, <3>1 DEF CallKept, LoadedWhole, PassesHonestly
    <2>2. ASSUME NEW p \in Processes, Over(p), verdict[p] = "pass", NEW l \in listed[p],
                 l[1] \in loaded[p].entries, l[2] \in Entries \ {EntryFor(env[p].generators)}
          PROVE  l[1] \in notes[p]
      <3>1. files[l[1]] = l[2]
        BY <1>1, <2>2 DEF CallKept, ListedStay, Settled
      <3> QED
        BY <1>1, <2>2, <3>1 DEF CallKept, PassesHonestly, ValuesDiffer
    <2> QED
      BY <2>1, <2>2 DEF NotesAreTold
  <1> QED
    BY <1>2, <1>3, <1>4 DEF StoreKeepsFailures

\* The files of the store, what each call listed and loaded, and what it has yet to write
\* agree in every state, whichever process died before.
THEOREM StoreInvariantHolds == PropertySpec => []StoreInductive
  BY StoreBegins, StoreGoesOn, PTL DEF PropertySpec

\* A failure that was written returns until it is mended, no failure that is reported is
\* lost without a note, and no call rewrites an entry of the store.
THEOREM FailuresAreNeverLost == PropertySpec => StoreIsKept
  <1>1. StoreInductive /\ StoreInductive' /\ [PropertyNext]_propertyVars =>
          [/\ StoreKeepsFailures'
           /\ \A n \in DOMAIN files : files[n] \in Entries => files'[n] = files[n]]_propertyVars
    <2>1. StoreInductive' => StoreKeepsFailures'
      BY FailuresAreHere, PTL
    <2> QED
      BY <2>1, EntriesAreNotRewritten
  <1> QED
    BY <1>1, StoreInvariantHolds, PTL DEF PropertySpec, StoreIsKept

-----------------------------------------------------------------------------
(***************************************************************************)
(* Proofs about the calls that wait (Waiting): for any durations, threads  *)
(* and works, on a clock that others move too.                             *)
(***************************************************************************)
Givens == [assertion : {"eventually", "eventually-true", "no-task-leaks"},
           controlled : BOOLEAN, timeout : Timeouts, interval : Pauses, before : SUBSET Works]

WaitTypes ==
  /\ given \in Givens
  /\ now \in Nat /\ deadline \in Nat /\ attempts \in Nat /\ pause \in Nat /\ left \in Nat
  /\ stage \in {"start", "attempt", "judge", "wait", "scan", "weigh", "done"}
  /\ trial \in [met : BOOLEAN, at : Nat]
  /\ judged \in {"none", "pass", "fail", "fault"}
  /\ asleep \in [Sleepers -> [until : Nat, waits : BOOLEAN]]
  /\ alive \in SUBSET Works

\* Each assertion has steps of its own, and a verdict ends the call.
StagesAreOwn ==
  /\ stage \in {"attempt", "judge", "wait"} => Retries
  /\ stage \in {"scan", "weigh"} => ~ Retries
  /\ judged # "none" <=> stage = "done"

\* A try is judged at a time when it has ended.
TriedBefore == trial.at <= now /\ (stage \in {"judge", "wait"} => attempts >= 1)

\* A wait has a length, and only another thread makes a sleeper wait on a real clock.
WaitsHaveALength ==
  /\ stage \in {"attempt", "judge", "wait"} => pause >= 1
  /\ ~ given.controlled => \A s \in Sleepers : asleep[s].until = 0 /\ ~ asleep[s].waits

WaitInductive == WaitTypes /\ StagesAreOwn /\ TriedBefore /\ WaitsHaveALength /\ WaitsEndInTime

\* The longest wait is at least the shortest.
LEMMA CapIsAWait ==
  ASSUME WaitTypes
  PROVE  Cap \in Nat /\ Cap >= 1
  <1>1. given.timeout \in Nat
    BY WaitAssumption DEF WaitTypes, Givens
  <1>2. given.timeout \div 4 \in Nat
    BY <1>1
  <1> QED
    BY <1>2 DEF Cap, AtLeast, MinWait

\* The clock goes on, and who sleeps past its time is awake.
LEMMA ClockGoesOn ==
  ASSUME WaitTypes, NEW by \in Nat, Advance(by), SleepersWake
  PROVE  /\ now' = now + by /\ asleep' \in [Sleepers -> [until : Nat, waits : BOOLEAN]]
         /\ SleepersWake'
  <1>1. now' = now + by
    BY DEF Advance
  <1>2. CASE by = 0
    BY <1>1, <1>2 DEF Advance, WaitTypes, SleepersWake
  <1>3. CASE by # 0
    <2>1. asleep' = [s \in Sleepers |-> [asleep[s] EXCEPT !.waits = FALSE]]
      BY <1>3 DEF Advance
    <2>2. ASSUME NEW s \in Sleepers
          PROVE  asleep'[s] \in [until : Nat, waits : BOOLEAN] /\ ~ asleep'[s].waits
      BY <2>1 DEF WaitTypes
    <2> QED
      BY <1>1, <2>1, <2>2 DEF SleepersWake
  <1> QED
    BY <1>2, <1>3

\* The time that passes on a real clock.
LEMMA TimePasses ==
  ASSUME WaitTypes, NEW t \in Later
  PROVE  t \in Nat /\ t >= now /\ (given.controlled => t = now)
  BY WaitAssumption DEF Later, WaitTypes

LEMMA WaitBegins == WaitInit => WaitInductive
  <1> SUFFICES ASSUME WaitInit PROVE WaitInductive
    OBVIOUS
  <1>1. WaitTypes
    BY DEF WaitInit, WaitTypes, Givens
  <1>2. StagesAreOwn /\ TriedBefore /\ WaitsHaveALength
    BY DEF WaitInit, StagesAreOwn, TriedBefore, WaitsHaveALength
  <1>3. VerdictIsInTime /\ LeaksAreReal /\ SleepersWake
    BY DEF WaitInit, VerdictIsInTime, LeaksAreReal, SleepersWake
  <1> QED
    BY <1>1, <1>2, <1>3 DEF WaitInductive, WaitsEndInTime

LEMMA WaitGoesOn == WaitInductive /\ [WaitNext]_waitVars => WaitInductive'
  <1> SUFFICES ASSUME WaitInductive, [WaitNext]_waitVars PROVE WaitInductive'
    OBVIOUS
  <1>1. /\ WaitTypes /\ StagesAreOwn /\ TriedBefore /\ WaitsHaveALength
        /\ VerdictIsInTime /\ LeaksAreReal /\ SleepersWake
    BY DEF WaitInductive, WaitsEndInTime
  <1> USE <1>1
  <1>2. SUFFICES /\ WaitTypes' /\ StagesAreOwn' /\ TriedBefore' /\ WaitsHaveALength'
                 /\ VerdictIsInTime' /\ LeaksAreReal' /\ SleepersWake'
    BY DEF WaitInductive, WaitsEndInTime
  <1>3. CASE AdvanceByOther
    <2>1. PICK by \in Advances : now + by <= MaxTime /\ Advance(by)
      BY <1>3 DEF AdvanceByOther
    <2>2. by \in Nat
      BY WaitAssumption
    <2>3. given.controlled
          /\ UNCHANGED <<given, stage, deadline, attempts, pause, left, trial, judged, alive>>
      BY <1>3 DEF AdvanceByOther
    <2>4. /\ now' = now + by /\ asleep' \in [Sleepers -> [until : Nat, waits : BOOLEAN]]
          /\ SleepersWake'
      BY <2>1, <2>2, ClockGoesOn
    <2>5. WaitTypes' /\ now' >= now
      BY <2>2, <2>3, <2>4 DEF WaitTypes
    <2>6. StagesAreOwn' /\ TriedBefore' /\ WaitsHaveALength'
      BY <2>3, <2>5 DEF WaitTypes, StagesAreOwn, TriedBefore, WaitsHaveALength, Retries
    <2>7. LeaksAreReal'
      BY <2>3 DEF LeaksAreReal, Retries
    <2>8. now \in Nat /\ now' \in Nat /\ deadline \in Nat
      BY <2>5 DEF WaitTypes
    <2>9. VerdictIsInTime'
      BY <2>3, <2>5, <2>8 DEF VerdictIsInTime, Retries
    <2> QED
      BY <2>4, <2>5, <2>6, <2>7, <2>9
  <1>4. ASSUME NEW s \in Sleepers, Sleep(s) \/ Recheck(s)
        PROVE  /\ WaitTypes' /\ StagesAreOwn' /\ TriedBefore' /\ WaitsHaveALength'
               /\ VerdictIsInTime' /\ LeaksAreReal' /\ SleepersWake'
    <2>1. UNCHANGED <<given, now, stage, deadline, attempts, pause, left, trial, judged, alive>>
      BY <1>4 DEF Sleep, Recheck
    <2>2. /\ asleep' \in [Sleepers -> [until : Nat, waits : BOOLEAN]] /\ SleepersWake'
          /\ ~ given.controlled =>
               \A u \in Sleepers : asleep'[u].until = 0 /\ ~ asleep'[u].waits
      <3>1. CASE Sleep(s)
        <4>1. PICK duration \in Naps :
                asleep' = [asleep EXCEPT ![s] = [until |-> now + duration, waits |-> duration > 0]]
          BY <3>1 DEF Sleep
        <4>2. duration \in Nat /\ given.controlled
          BY <3>1, WaitAssumption DEF Sleep
        <4> DEFINE long == duration > 0
                   nap  == [until |-> now + duration, waits |-> long]
        <4> HIDE DEF long
        <4>3. nap \in [until : Nat, waits : BOOLEAN] /\ nap.until = now + duration
          <5>1. long \in BOOLEAN
            BY DEF long
          <5> QED
            BY <4>2, <5>1 DEF WaitTypes
        <4>4. nap.waits => duration > 0
          BY DEF long
        <4>5. asleep' = [asleep EXCEPT ![s] = nap]
          BY <4>1 DEF long
        <4> HIDE DEF nap
        <4>6. asleep' \in [Sleepers -> [until : Nat, waits : BOOLEAN]]
          BY <4>3, <4>5 DEF WaitTypes
        <4>7. SleepersWake'
          BY <2>1, <4>2, <4>3, <4>5, <4>4 DEF WaitTypes, SleepersWake
        <4> QED
          BY <4>2, <4>6, <4>7
      <3>2. CASE Recheck(s)
        <4>1. /\ asleep' = [asleep EXCEPT ![s].waits = TRUE] /\ now < asleep[s].until
          BY <3>2 DEF Recheck
        <4>2. asleep[s].until # 0
          BY <4>1 DEF WaitTypes
        <4>3. given.controlled
          BY <4>2 DEF WaitsHaveALength
        <4> QED
          BY <2>1, <4>1, <4>3 DEF WaitTypes, SleepersWake
      <3> QED
        BY <1>4, <3>1, <3>2
    <2>3. WaitTypes'
      BY <2>1, <2>2 DEF WaitTypes
    <2>4. StagesAreOwn' /\ TriedBefore' /\ WaitsHaveALength'
      BY <2>1, <2>2 DEF StagesAreOwn, TriedBefore, WaitsHaveALength, Retries
    <2>5. VerdictIsInTime' /\ LeaksAreReal'
      BY <2>1 DEF VerdictIsInTime, LeaksAreReal, Retries
    <2> QED
      BY <2>2, <2>3, <2>4, <2>5
  <1>5. CASE BeginWait
    <2>1. /\ stage = "start" /\ Retries /\ deadline' = now + given.timeout /\ stage' = "attempt"
          /\ pause' = IF given.assertion = "eventually" THEN AtLeast(given.interval, MinWait)
                     ELSE MinWait
          /\ UNCHANGED <<given, now, attempts, left, trial, judged, asleep, alive>>
      BY <1>5 DEF BeginWait, Retries
    <2>2. given.timeout \in Nat /\ given.interval \in Nat
      BY WaitAssumption DEF WaitTypes, Givens
    <2>3. pause' \in Nat /\ pause' >= 1
      BY <2>1, <2>2 DEF AtLeast, MinWait
    <2>4. WaitTypes'
      BY <2>1, <2>2, <2>3 DEF WaitTypes
    <2>5. StagesAreOwn' /\ TriedBefore' /\ WaitsHaveALength'
      BY <2>1, <2>3 DEF StagesAreOwn, TriedBefore, WaitsHaveALength, Retries
    <2>6. VerdictIsInTime' /\ LeaksAreReal' /\ SleepersWake'
      BY <2>1 DEF StagesAreOwn, VerdictIsInTime, LeaksAreReal, SleepersWake, Retries
    <2> QED
      BY <2>4, <2>5, <2>6
  <1>6. CASE Attempt
    <2>1. PICK t \in Later, met \in BOOLEAN : now' = t /\ trial' = [met |-> met, at |-> t]
      BY <1>6 DEF Attempt
    <2>2. t \in Nat /\ t >= now /\ (given.controlled => t = now)
      BY TimePasses
    <2>3. /\ stage = "attempt" /\ attempts' = attempts + 1 /\ stage' = "judge"
          /\ UNCHANGED <<given, deadline, pause, left, judged, asleep, alive>>
      BY <1>6 DEF Attempt
    <2>4. WaitTypes' /\ trial'.at = t
      BY <2>1, <2>2, <2>3 DEF WaitTypes
    <2>5. StagesAreOwn' /\ TriedBefore' /\ WaitsHaveALength'
      BY <2>1, <2>2, <2>3, <2>4 DEF WaitTypes, StagesAreOwn, TriedBefore, WaitsHaveALength, Retries
    <2>6. VerdictIsInTime' /\ LeaksAreReal'
      BY <2>3 DEF StagesAreOwn, VerdictIsInTime, LeaksAreReal, Retries
    <2>7. SleepersWake'
      BY <2>1, <2>2, <2>3 DEF SleepersWake, WaitsHaveALength
    <2> QED
      BY <2>4, <2>5, <2>6, <2>7
  <1>7. CASE Refuse
    <2>1. /\ stage = "attempt" /\ attempts' = attempts + 1 /\ judged' = "fault" /\ stage' = "done"
          /\ UNCHANGED <<given, deadline, pause, left, trial, asleep, alive>>
      BY <1>7 DEF Refuse
    <2>2. now' \in Nat /\ now' >= now /\ (given.controlled => now' = now)
      BY <1>7, TimePasses DEF Refuse
    <2>3. WaitTypes'
      BY <2>1, <2>2 DEF WaitTypes
    <2>4. StagesAreOwn' /\ TriedBefore' /\ WaitsHaveALength'
      BY <2>1, <2>2 DEF WaitTypes, StagesAreOwn, TriedBefore, WaitsHaveALength, Retries
    <2>5. VerdictIsInTime' /\ LeaksAreReal'
      BY <2>1 DEF VerdictIsInTime, LeaksAreReal, Retries
    <2>6. SleepersWake'
      BY <2>1, <2>2 DEF SleepersWake, WaitsHaveALength
    <2> QED
      BY <2>3, <2>4, <2>5, <2>6
  <1>8. CASE JudgeAttempt
    <2>1. PICK t \in Later :
            /\ now' = t
            /\ IF Passes
               THEN judged' = "pass" /\ stage' = "done" /\ UNCHANGED left
               ELSE IF t < deadline
               THEN stage' = "wait" /\ left' = AtMost(pause, deadline - t) /\ UNCHANGED judged
               ELSE judged' = "fail" /\ stage' = "done" /\ UNCHANGED left
      BY <1>8 DEF JudgeAttempt
    <2>2. t \in Nat /\ t >= now /\ (given.controlled => t = now)
      BY TimePasses
    <2>3. /\ stage = "judge" /\ UNCHANGED <<given, deadline, attempts, pause, trial, asleep, alive>>
      BY <1>8 DEF JudgeAttempt
    <2>4. pause >= 1 /\ Retries /\ attempts >= 1 /\ judged = "none"
      BY <2>3 DEF WaitsHaveALength, StagesAreOwn, TriedBefore
    <2>5. ASSUME t < deadline
          PROVE  AtMost(pause, deadline - t) \in Nat /\ AtMost(pause, deadline - t) >= 1
                 /\ t + AtMost(pause, deadline - t) <= deadline
      BY <2>2, <2>4, <2>5 DEF AtMost, WaitTypes
    <2>6. SleepersWake' /\ WaitsHaveALength'
      BY <2>1, <2>2, <2>3, <2>4 DEF SleepersWake, WaitsHaveALength
    <2>7. CASE Passes
      <3>1. trial.met /\ now <= deadline /\ judged' = "pass" /\ stage' = "done" /\ left' = left
        BY <2>1, <2>7 DEF Passes, WaitTypes
      <3>2. WaitTypes'
        BY <2>1, <2>2, <2>3, <3>1 DEF WaitTypes
      <3>3. StagesAreOwn' /\ TriedBefore'
        BY <2>1, <2>2, <2>3, <3>1 DEF WaitTypes, StagesAreOwn, TriedBefore, Retries
      <3>4. VerdictIsInTime' /\ LeaksAreReal'
        BY <2>3, <2>4, <3>1 DEF WaitTypes, TriedBefore, VerdictIsInTime, LeaksAreReal, Retries
      <3> QED
        BY <2>6, <3>2, <3>3, <3>4
    <2>8. CASE ~ Passes /\ t < deadline
      <3>1. stage' = "wait" /\ left' = AtMost(pause, deadline - t) /\ judged' = judged
        BY <2>1, <2>8
      <3>2. WaitTypes'
        BY <2>1, <2>2, <2>3, <2>5, <2>8, <3>1 DEF WaitTypes
      <3>3. StagesAreOwn' /\ TriedBefore'
        BY <2>1, <2>2, <2>3, <2>4, <3>1 DEF WaitTypes, StagesAreOwn, TriedBefore, Retries
      <3>4. VerdictIsInTime' /\ LeaksAreReal'
        BY <2>1, <2>3, <2>4, <2>5, <2>8, <3>1 DEF VerdictIsInTime, LeaksAreReal, Retries
      <3> QED
        BY <2>6, <3>2, <3>3, <3>4
    <2>9. CASE ~ Passes /\ ~ (t < deadline)
      <3>1. stage' = "done" /\ left' = left /\ judged' = "fail" /\ t >= deadline
        BY <2>1, <2>2, <2>9 DEF WaitTypes
      <3>2. WaitTypes'
        BY <2>1, <2>2, <2>3, <3>1 DEF WaitTypes
      <3>3. StagesAreOwn' /\ TriedBefore'
        BY <2>1, <2>2, <2>3, <3>1 DEF WaitTypes, StagesAreOwn, TriedBefore, Retries
      <3>4. trial.met => t > deadline
        BY <2>2, <2>9 DEF Passes, WaitTypes
      <3>5. VerdictIsInTime' /\ LeaksAreReal'
        BY <2>1, <2>3, <2>4, <3>1, <3>4 DEF VerdictIsInTime, LeaksAreReal, Retries
      <3> QED
        BY <2>6, <3>2, <3>3, <3>5
    <2> QED
      BY <2>7, <2>8, <2>9
  <1>9. CASE Wait
    <2>1. /\ stage = "wait" /\ Retries /\ attempts >= 1 /\ pause >= 1 /\ judged = "none" /\ left >= 1
          /\ UNCHANGED <<given, deadline, attempts, left, trial, alive>>
      BY <1>9 DEF Wait, StagesAreOwn, TriedBefore, WaitsHaveALength, VerdictIsInTime
    <2>2. /\ now' \in Nat /\ now' >= now
          /\ asleep' \in [Sleepers -> [until : Nat, waits : BOOLEAN]] /\ SleepersWake'
          /\ ~ given.controlled => asleep' = asleep
      <3>1. CASE given.controlled
        <4>1. Advance(left)
          BY <1>9, <3>1 DEF Wait
        <4>2. left \in Nat
          BY DEF WaitTypes
        <4> QED
          BY <3>1, <4>1, <4>2, ClockGoesOn DEF WaitTypes
      <3>2. CASE ~ given.controlled
        <4>1. now' \in Later /\ asleep' = asleep
          BY <1>9, <3>2 DEF Wait
        <4>2. now' \in Nat /\ now' >= now
          BY <4>1, TimePasses
        <4> QED
          BY <3>2, <4>1, <4>2 DEF WaitTypes, SleepersWake, WaitsHaveALength
      <3> QED
        BY <3>1, <3>2
    <2>3. /\ given.timeout \in Nat /\ Cap \in Nat /\ Cap >= 1
      BY CapIsAWait, WaitAssumption DEF WaitTypes, Givens
    <2>4. CASE now' > deadline
      <3>1. stage' = "done" /\ judged' = "fail" /\ pause' = pause
        BY <1>9, <2>4 DEF Wait
      <3>2. WaitTypes'
        BY <2>1, <2>2, <3>1 DEF WaitTypes
      <3>3. StagesAreOwn' /\ TriedBefore' /\ WaitsHaveALength'
        BY <2>1, <2>2, <3>1 DEF WaitTypes, StagesAreOwn, TriedBefore, WaitsHaveALength, Retries
      <3>4. now' >= deadline
        BY <2>2, <2>4 DEF WaitTypes
      <3>5. VerdictIsInTime' /\ LeaksAreReal'
        BY <2>1, <2>4, <3>1, <3>4 DEF VerdictIsInTime, LeaksAreReal, Retries
      <3> QED
        BY <2>2, <3>2, <3>3, <3>5
    <2>5. CASE ~ (now' > deadline)
      <3>1. stage' = "attempt" /\ judged' = judged
            /\ pause' = IF given.assertion = "eventually" THEN pause ELSE AtMost(2 * pause, Cap)
        BY <1>9, <2>5 DEF Wait
      <3>2. pause' \in Nat /\ pause' >= 1
        BY <2>1, <2>3, <3>1 DEF AtMost, WaitTypes
      <3>3. WaitTypes'
        BY <2>1, <2>2, <3>1, <3>2 DEF WaitTypes
      <3>4. StagesAreOwn' /\ TriedBefore' /\ WaitsHaveALength'
        BY <2>1, <2>2, <3>1, <3>2 DEF WaitTypes, StagesAreOwn, TriedBefore, WaitsHaveALength, Retries
      <3>5. VerdictIsInTime' /\ LeaksAreReal'
        BY <2>1, <3>1 DEF VerdictIsInTime, LeaksAreReal, Retries
      <3> QED
        BY <2>2, <3>3, <3>4, <3>5
    <2> QED
      BY <2>4, <2>5
  <1>10. CASE Check
    <2>1. /\ ~ Retries /\ stage = "start" /\ deadline' = now + Grace /\ stage' = "scan"
          /\ UNCHANGED <<given, now, attempts, pause, left, trial, judged, asleep, alive>>
      BY <1>10 DEF Check, Retries
    <2>2. WaitTypes'
      BY <2>1, WaitAssumption DEF WaitTypes
    <2>3. StagesAreOwn' /\ TriedBefore' /\ WaitsHaveALength'
      BY <2>1 DEF StagesAreOwn, TriedBefore, WaitsHaveALength, Retries
    <2>4. VerdictIsInTime' /\ LeaksAreReal' /\ SleepersWake'
      BY <2>1 DEF StagesAreOwn, VerdictIsInTime, LeaksAreReal, SleepersWake, Retries
    <2> QED
      BY <2>2, <2>3, <2>4
  <1>11. CASE Scan
    <2> DEFINE clean == alive \subseteq given.before
    <2>1. /\ stage = "scan" /\ ~ Retries /\ judged = "none" /\ stage' = "weigh"
          /\ trial' = [met |-> clean, at |-> now]
          /\ UNCHANGED <<given, now, deadline, attempts, pause, left, judged, asleep, alive>>
      BY <1>11 DEF Scan, StagesAreOwn
    <2> HIDE DEF clean
    <2>2. clean \in BOOLEAN
      BY DEF clean
    <2>3. trial'.at = now /\ trial' \in [met : BOOLEAN, at : Nat]
      BY <2>1, <2>2 DEF WaitTypes
    <2>4. WaitTypes' /\ StagesAreOwn' /\ TriedBefore' /\ WaitsHaveALength'
      BY <2>1, <2>3 DEF WaitTypes, StagesAreOwn, TriedBefore, WaitsHaveALength, Retries
    <2>5. VerdictIsInTime' /\ LeaksAreReal' /\ SleepersWake'
      BY <2>1 DEF VerdictIsInTime, LeaksAreReal, SleepersWake, Retries
    <2> QED
      BY <2>4, <2>5
  <1>14. CASE Weigh
    <2>1. PICK t \in Later :
            /\ now' = t
            /\ stage' = IF trial.met \/ GivesUp(t) THEN "done" ELSE "scan"
            /\ judged' = IF trial.met THEN "pass" ELSE IF GivesUp(t) THEN "fail" ELSE judged
      BY <1>14 DEF Weigh
    <2>2. t \in Nat /\ t >= now /\ (given.controlled => t = now)
      BY TimePasses
    <2>3. /\ stage = "weigh" /\ ~ Retries /\ judged = "none"
          /\ UNCHANGED <<given, deadline, attempts, pause, left, trial, asleep, alive>>
      BY <1>14 DEF Weigh, StagesAreOwn
    <2>4. SleepersWake' /\ WaitsHaveALength'
      BY <2>1, <2>2, <2>3 DEF SleepersWake, WaitsHaveALength, StagesAreOwn
    <2>5. /\ stage' \in {"scan", "done"} /\ (judged' # "none" <=> stage' = "done")
          /\ judged' \in {"none", "pass", "fail"}
          /\ judged' = "pass" => trial.met
          /\ judged' = "fail" => ~ trial.met /\ t >= deadline
      BY <2>1, <2>2, <2>3 DEF GivesUp
    <2>6. WaitTypes'
      BY <2>1, <2>2, <2>3, <2>5 DEF WaitTypes
    <2>7. StagesAreOwn' /\ TriedBefore'
      BY <2>1, <2>2, <2>3, <2>5 DEF WaitTypes, StagesAreOwn, TriedBefore, Retries
    <2>8. VerdictIsInTime' /\ LeaksAreReal'
      BY <2>1, <2>3, <2>5 DEF VerdictIsInTime, LeaksAreReal, Retries
    <2> QED
      BY <2>4, <2>6, <2>7, <2>8
  <1>12. CASE StartWork \/ EndWork
    <2>1. UNCHANGED <<given, now, stage, deadline, attempts, pause, left, trial, judged, asleep>>
      BY <1>12 DEF StartWork, EndWork
    <2>2. alive' \in SUBSET Works
      BY <1>12 DEF StartWork, EndWork, WaitTypes
    <2>3. WaitTypes'
      BY <2>1, <2>2 DEF WaitTypes
    <2>4. StagesAreOwn' /\ TriedBefore' /\ WaitsHaveALength'
      BY <2>1 DEF StagesAreOwn, TriedBefore, WaitsHaveALength, Retries
    <2>5. VerdictIsInTime' /\ LeaksAreReal' /\ SleepersWake'
      BY <2>1 DEF VerdictIsInTime, LeaksAreReal, SleepersWake, Retries
    <2> QED
      BY <2>3, <2>4, <2>5
  <1>13. CASE UNCHANGED waitVars
    <2>1. WaitTypes' /\ StagesAreOwn' /\ TriedBefore' /\ WaitsHaveALength'
      BY <1>13 DEF waitVars, WaitTypes, StagesAreOwn, TriedBefore, WaitsHaveALength, Retries
    <2>2. VerdictIsInTime' /\ LeaksAreReal' /\ SleepersWake'
      BY <1>13 DEF waitVars, VerdictIsInTime, LeaksAreReal, SleepersWake, Retries
    <2> QED
      BY <2>1, <2>2
  <1> QED
    BY <1>3, <1>4, <1>5, <1>6, <1>7, <1>8, <1>9, <1>10, <1>11, <1>12, <1>13, <1>14 DEF WaitNext

\* The steps of a call that waits, its times and its verdict agree in every state.
THEOREM WaitInvariantHolds == WaitSpec => []WaitInductive
  BY WaitBegins, WaitGoesOn, PTL DEF WaitSpec

\* A call that waits passes on a try that ended in time and gives up no sooner than its
\* deadline, a scope fails for a work of its own, and who slept its time is woken.
THEOREM WaitsAreInTime == WaitSpec => []WaitsEndInTime
  <1>1. WaitInductive => WaitsEndInTime
    BY DEF WaitInductive
  <1> QED
    BY <1>1, WaitInvariantHolds, PTL

-----------------------------------------------------------------------------
(***************************************************************************)
(* Proofs about the seats of a test and their cleanups (Seats): for any    *)
(* number of calls and cleanups, whatever an other thread does.            *)
(***************************************************************************)
Phases == {"test", "body", "finish", "first", "second", "flush", "recorder", "done"}

Fns == [seat : SeatIds \ {"standard"}, over : BOOLEAN, begun : BOOLEAN]

SeatTypes ==
  /\ switch \in BOOLEAN /\ closed \in BOOLEAN /\ other \in BOOLEAN
  /\ phase \in Phases
  /\ fns \in [SeatIds -> Seq(Nat)] /\ kept \in [SeatIds -> Seq(Nat)]
  /\ running \in Nat /\ fatal \in Nat /\ count \in Nat
  /\ inner \in {"none", "error", "skip"}
  /\ ending \in {"none", "returned", "raised", "skipped"}
  /\ result \in [verdict : {"none", "passed", "failed", "skipped"}, failures : Seq(Nat)]
  /\ made \in Seq(Fns) /\ ran \in Seq(Nat) /\ seen \in SUBSET Nat

\* The body is entered once, and an ending, a result and a running cleanup have their time.
PhasesFollow ==
  /\ phase \in {"body", "finish"} => ~ closed
  /\ phase \in {"test", "body", "finish"} => ending = "none"
  /\ result.verdict = "none" <=> phase \notin {"recorder", "done"}
  /\ running # 0 => /\ running \in DOMAIN made /\ Draining
                    /\ made[running].seat = Drained
  /\ fns["body"] # <<>> => phase \in {"body", "finish"}

InStack(f) == \E i \in DOMAIN fns[made[f].seat] : fns[made[f].seat][i] = f
HasRun(f)  == \E i \in DOMAIN ran : ran[i] = f

\* The cleanups of a seat are in the order of their registration.
StacksRise ==
  \A s \in SeatIds :
    /\ \A i \in DOMAIN fns[s] : fns[s][i] \in DOMAIN made /\ made[fns[s][i]].seat = s
    /\ \A i, j \in DOMAIN fns[s] : i < j => fns[s][i] < fns[s][j]

\* A cleanup waits, runs or ran, and ran once.
FnsHaveAPlace ==
  /\ \A f \in DOMAIN made : /\ InStack(f) \/ running = f \/ HasRun(f)
                            /\ ~ (InStack(f) /\ running = f)
                            /\ ~ (HasRun(f) /\ (InStack(f) \/ running = f))
  /\ \A i \in DOMAIN ran : ran[i] \in DOMAIN made
  /\ \A i, j \in DOMAIN ran : ran[i] = ran[j] => i = j

\* Of the cleanups that a seat had when it began, the later ones run before.
LaterRunFirst ==
  \A f, g \in DOMAIN made :
    f < g /\ made[f].seat = made[g].seat /\ ~ made[g].begun =>
      /\ running = f => HasRun(g)
      /\ HasRun(f) => RanBefore(g, f)

\* No cleanup runs before its seat begins, and a seat that is over keeps only late ones.
SeatsInTurn ==
  \A f \in DOMAIN made :
    /\ HasRun(f) \/ running = f => HasBegun(made[f].seat)
    /\ made[f].begun => HasBegun(made[f].seat)
    /\ made[f].over => IsOver(made[f].seat)
    /\ InStack(f) /\ IsOver(made[f].seat) => made[f].over

Rises(s, top) == /\ \A i \in DOMAIN s : s[i] <= top
                 /\ \A i, j \in DOMAIN s : i < j => s[i] < s[j]

\* The failures that a seat keeps, and those that flush raised, are in their order.
FailuresRise == (\A s \in SeatIds : Rises(kept[s], count)) /\ Rises(result.failures, count)

\* A failure that the result owes is kept, or ends the test, until the result is there.
SeenIsTold ==
  /\ result.verdict = "none" /\ seen # {} =>
       \/ kept["first"] # <<>> \/ kept["second"] # <<>>
       \/ ending \in {"raised", "skipped"}
       \/ phase = "finish" /\ inner = "error"
  /\ result.verdict = "passed" => seen = {}
  /\ result.verdict = "failed" => ending = "raised" \/ result.failures # <<>>

SeatsInductive ==
  /\ SeatTypes /\ PhasesFollow /\ StacksRise /\ FnsHaveAPlace /\ LaterRunFirst /\ SeatsInTurn
  /\ FailuresRise /\ SeenIsTold

-----------------------------------------------------------------------------
(***************************************************************************)
(* The order of the seats.                                                 *)
(***************************************************************************)
Collects == SeatIds \ {"standard"}

LEMMA PhasesAreOrdered ==
  /\ At("test") = 1 /\ At("first") = 2 /\ At("second") = 3
  /\ At("flush") = 4 /\ At("recorder") = 5 /\ At("done") = 6
  <1>1. /\ DOMAIN Order = 1 .. 6
        /\ Order[1] = "test" /\ Order[2] = "first" /\ Order[3] = "second"
        /\ Order[4] = "flush" /\ Order[5] = "recorder" /\ Order[6] = "done"
    BY DEF Order
  <1>2. ASSUME NEW p, NEW k \in 1 .. 6, Order[k] = p PROVE At(p) = k
    <2>1. \A i \in 1 .. 6 : Order[i] = p => i = k
      BY <1>1, <1>2
    <2>2. At(p) \in DOMAIN Order /\ Order[At(p)] = p
      BY <1>1, <1>2 DEF At
    <2> QED
      BY <1>1, <2>1, <2>2
  <1> QED
    BY <1>1, <1>2

\* Which seats are over, and which have begun.
Turns ==
  /\ IsOver("body") <=> closed
  /\ IsOver("first") <=> phase \in {"second", "flush", "recorder", "done"}
  /\ IsOver("second") <=> phase \in {"flush", "recorder", "done"}
  /\ IsOver("recorder") <=> phase = "done"
  /\ HasBegun("body") <=> closed \/ phase = "finish"
  /\ HasBegun("first") <=> phase \in {"first", "second", "flush", "recorder", "done"}
  /\ HasBegun("second") <=> phase \in {"second", "flush", "recorder", "done"}
  /\ HasBegun("recorder") <=> phase \in {"recorder", "done"}

LEMMA SeatsTurns == phase \in Phases => Turns
  <1> SUFFICES ASSUME phase \in Phases PROVE Turns
    OBVIOUS
  <1>1. phase \in {"test", "first", "second", "flush", "recorder", "done"}
          => At(phase) \in 1 .. 6
    BY PhasesAreOrdered
  <1> QED
    BY <1>1, PhasesAreOrdered DEF Turns, Phases, IsOver, HasBegun, Stage, InTest

\* A step that keeps the seats that have begun and those that are over.
SeatsGoOn ==
  \A s \in Collects :
    /\ HasBegun(s) => HasBegun(s)'
    /\ IsOver(s) => IsOver(s)'
    /\ IsOver(s)' /\ ~ IsOver(s) => fns[s] = <<>>

\* A step between two phases that follow one another.
PhaseGoesOn ==
  \/ phase' = phase /\ closed' = closed
  \/ /\ phase \in {"test", "body", "finish"} /\ phase' \in {"test", "body", "finish", "first"}
     /\ \/ closed' = closed /\ (phase = "finish" => phase' = "finish")
        \/ closed' = TRUE /\ fns["body"] = <<>>
  \/ phase = "first" /\ phase' = "second" /\ closed' = closed /\ fns["first"] = <<>>
  \/ phase = "second" /\ phase' = "flush" /\ closed' = closed /\ fns["second"] = <<>>
  \/ phase = "flush" /\ phase' = "recorder" /\ closed' = closed
  \/ phase = "recorder" /\ phase' = "done" /\ closed' = closed /\ fns["recorder"] = <<>>

LEMMA SeatsGoOnWithThePhase ==
  ASSUME SeatTypes, SeatTypes', PhaseGoesOn
  PROVE  SeatsGoOn
  <1>1. Turns /\ closed \in BOOLEAN
    BY SeatsTurns DEF SeatTypes
  <1>2. (phase \in Phases)'
    BY DEF SeatTypes
  <1>3. Turns'
    BY <1>2, SeatsTurns, PTL
  <1>4. Collects = {"first", "second", "recorder", "body"}
    BY DEF Collects, SeatIds
  <1> QED
    BY <1>1, <1>3, <1>4 DEF SeatsGoOn, PhaseGoesOn, Turns

-----------------------------------------------------------------------------
(***************************************************************************)
(* The cleanups.                                                           *)
(***************************************************************************)
\* The cleanup that runs may end; nothing else happens to any.
FnsGoOn ==
  /\ UNCHANGED <<fns, made>>
  /\ \/ UNCHANGED <<running, ran>>
     \/ running # 0 /\ running' = 0 /\ ran' = Append(ran, running)

FnsOrdered == StacksRise /\ FnsHaveAPlace /\ LaterRunFirst /\ SeatsInTurn

LEMMA MadeIsKnown ==
  ASSUME SeatTypes
  PROVE  /\ Len(made) \in Nat /\ DOMAIN made = 1 .. Len(made)
         /\ \A f \in DOMAIN made : made[f] \in Fns /\ made[f].seat \in Collects
  <1>1. made \in Seq(Fns)
    BY DEF SeatTypes
  <1>2. Len(made) \in Nat /\ DOMAIN made = 1 .. Len(made)
    BY <1>1
  <1>3. \A f \in DOMAIN made : made[f] \in Fns
    BY <1>1
  <1> QED
    BY <1>2, <1>3 DEF Fns, Collects

\* A cleanup that ends.
LEMMA RunIsAppended ==
  ASSUME SeatTypes, NEW n \in Nat, ran' = Append(ran, n)
  PROVE  /\ Len(ran) \in Nat /\ DOMAIN ran = 1 .. Len(ran) /\ DOMAIN ran' = 1 .. Len(ran) + 1
         /\ \A i \in 1 .. Len(ran) : ran'[i] = ran[i]
         /\ ran'[Len(ran) + 1] = n
         /\ \A f : HasRun(f)' <=> HasRun(f) \/ f = n
         /\ \A f, g : RanBefore(g, f) => RanBefore(g, f)'
         /\ \A g : HasRun(g) => RanBefore(g, n)'
  <1>1. /\ Len(ran) \in Nat /\ DOMAIN ran = 1 .. Len(ran) /\ DOMAIN ran' = 1 .. Len(ran) + 1
        /\ \A i \in 1 .. Len(ran) : ran'[i] = ran[i]
        /\ ran'[Len(ran) + 1] = n
    BY DEF SeatTypes
  <1>2. \A f : HasRun(f)' <=> HasRun(f) \/ f = n
    BY <1>1 DEF HasRun
  <1>3. \A f, g : RanBefore(g, f) => RanBefore(g, f)'
    BY <1>1 DEF RanBefore
  <1>4. ASSUME NEW g, HasRun(g) PROVE RanBefore(g, n)'
    <2>1. PICK i \in 1 .. Len(ran) : ran[i] = g
      BY <1>1, <1>4 DEF HasRun
    <2>2. i \in DOMAIN ran' /\ Len(ran) + 1 \in DOMAIN ran' /\ i < Len(ran) + 1
          /\ ran'[i] = g /\ ran'[Len(ran) + 1] = n
      BY <1>1, <2>1
    <2> QED
      BY <2>2 DEF RanBefore
  <1> QED
    BY <1>1, <1>2, <1>3, <1>4

LEMMA FnsKeepTheirOrder ==
  ASSUME SeatTypes, PhasesFollow, FnsOrdered, FnsGoOn, SeatsGoOn
  PROVE  FnsOrdered'
  <1>1. \A f \in DOMAIN made : made[f].seat \in Collects
    BY MadeIsKnown
  <1>2. /\ \A f : InStack(f)' <=> InStack(f)
        /\ fns' = fns /\ made' = made
    BY DEF FnsGoOn, InStack
  <1>3. StacksRise'
    BY <1>2 DEF FnsOrdered, StacksRise
  <1>4. ASSUME NEW f \in DOMAIN made, InStack(f), IsOver(made[f].seat)' PROVE made[f].over
    <2>1. fns[made[f].seat] # <<>>
      BY <1>4 DEF InStack
    <2>2. IsOver(made[f].seat)
      <3>1. PICK s \in Collects : s = made[f].seat
        BY <1>1
      <3>2. IsOver(s)'
        BY <1>2, <1>4, <3>1
      <3>3. IsOver(s)
        BY <2>1, <3>1, <3>2 DEF SeatsGoOn
      <3> QED
        BY <3>1, <3>3
    <2> QED
      BY <1>4, <2>2 DEF FnsOrdered, SeatsInTurn
  <1>5. CASE UNCHANGED <<running, ran>>
    <2>1. \A f : HasRun(f)' <=> HasRun(f)
      BY <1>5 DEF HasRun
    <2>2. \A f, g : RanBefore(f, g)' <=> RanBefore(f, g)
      BY <1>5 DEF RanBefore
    <2>3. FnsHaveAPlace'
      BY <1>2, <1>5, <2>1 DEF FnsOrdered, FnsHaveAPlace
    <2>4. LaterRunFirst'
      BY <1>2, <1>5, <2>1, <2>2 DEF FnsOrdered, LaterRunFirst
    <2>5. SeatsInTurn'
      BY <1>1, <1>2, <1>4, <1>5, <2>1 DEF FnsOrdered, SeatsInTurn, SeatsGoOn
    <2> QED
      BY <1>3, <2>3, <2>4, <2>5 DEF FnsOrdered
  <1>6. CASE running # 0 /\ running' = 0 /\ ran' = Append(ran, running)
    <2>1. running \in DOMAIN made /\ running \in Nat /\ 0 \notin DOMAIN made
      BY <1>6, MadeIsKnown DEF PhasesFollow, SeatTypes
    <2>2. PICK n \in Nat : n = running
      BY <2>1
    <2>3. /\ Len(ran) \in Nat /\ DOMAIN ran = 1 .. Len(ran)
          /\ DOMAIN ran' = 1 .. Len(ran) + 1
          /\ \A i \in 1 .. Len(ran) : ran'[i] = ran[i]
          /\ ran'[Len(ran) + 1] = n
          /\ \A f : HasRun(f)' <=> HasRun(f) \/ f = n
          /\ \A f, g : RanBefore(g, f) => RanBefore(g, f)'
          /\ \A g : HasRun(g) => RanBefore(g, n)'
      BY <1>6, <2>2, RunIsAppended
    <2>4. ~ HasRun(running) /\ ~ InStack(running)
      BY <2>1 DEF FnsOrdered, FnsHaveAPlace
    <2>5. FnsHaveAPlace'
      <3>1. \A f \in DOMAIN made : /\ InStack(f)' \/ running' = f \/ HasRun(f)'
                                   /\ ~ (InStack(f)' /\ running' = f)
                                   /\ ~ (HasRun(f)' /\ (InStack(f)' \/ running' = f))
        BY <1>2, <1>6, <2>2, <2>1, <2>3, <2>4 DEF FnsOrdered, FnsHaveAPlace
      <3>2. \A i \in DOMAIN ran' : ran'[i] \in DOMAIN made
        BY <2>2, <2>1, <2>3 DEF FnsOrdered, FnsHaveAPlace
      <3>3. \A i \in 1 .. Len(ran) : ran[i] # running
        BY <2>2, <2>3, <2>4 DEF HasRun
      <3>4. \A i, j \in DOMAIN ran' : ran'[i] = ran'[j] => i = j
        BY <2>2, <2>3, <3>3 DEF FnsOrdered, FnsHaveAPlace
      <3> QED
        BY <1>2, <3>1, <3>2, <3>4 DEF FnsHaveAPlace
    <2>6. LaterRunFirst'
      <3>1. ASSUME NEW f \in DOMAIN made, NEW g \in DOMAIN made, HasRun(f)',
                   f < g, made[f].seat = made[g].seat, ~ made[g].begun
            PROVE  RanBefore(g, f)'
        BY <2>2, <2>3, <3>1 DEF FnsOrdered, LaterRunFirst
      <3>2. \A f \in DOMAIN made : running' # f
        BY <1>6, <2>1
      <3> QED
        BY <1>2, <3>1, <3>2 DEF LaterRunFirst
    <2>7. SeatsInTurn'
      BY <1>1, <1>2, <1>4, <1>6, <2>2, <2>1, <2>3 DEF FnsOrdered, SeatsInTurn, SeatsGoOn
    <2> QED
      BY <1>3, <2>5, <2>6, <2>7 DEF FnsOrdered
  <1> QED
    BY <1>5, <1>6 DEF FnsGoOn

\* The next cleanup is the last of its seat.
LEMMA NextFnIsTheLast ==
  ASSUME SeatTypes, PhasesFollow, FnsOrdered, NextFn
  PROVE  FnsOrdered' /\ running' \in DOMAIN made /\ made[running'].seat = Drained
  <1> DEFINE d == Drained
             stack == fns[d]
             n == Len(stack)
  <1>1. d \in SeatIds /\ HasBegun(d) /\ d \in Collects
    <2>1. d \in {"body", "first", "second", "recorder"} /\ phase = Stage(d)
      BY DEF NextFn, Draining, Drained, Stage
    <2> QED
      BY <2>1 DEF HasBegun, SeatIds, Collects
  <1>2. /\ stack \in Seq(Nat) /\ stack # <<>> /\ running = 0
        /\ running' = Last(stack) /\ fns' = [fns EXCEPT ![d] = Front(stack)]
        /\ UNCHANGED <<switch, phase, closed, made, ran>>
    BY <1>1 DEF SeatTypes, NextFn, Take, InFn
  <1>3. /\ n \in Nat /\ n > 0 /\ DOMAIN stack = 1 .. n
        /\ Last(stack) = stack[n] /\ DOMAIN Front(stack) = 1 .. n - 1
        /\ \A i \in 1 .. n - 1 : Front(stack)[i] = stack[i]
    BY <1>2 DEF Last, Front
  <1>4. /\ fns'[d] = Front(stack)
        /\ \A s \in SeatIds : s # d => fns'[s] = fns[s]
    BY <1>1, <1>2 DEF SeatTypes
  <1> HIDE DEF d, stack, n
  <1>5. running' = stack[n] /\ running' \in DOMAIN made /\ made[running'].seat = d
    BY <1>1, <1>2, <1>3 DEF FnsOrdered, StacksRise, stack
  <1>6. \A i \in 1 .. n - 1 : stack[i] < stack[n]
    BY <1>1, <1>3 DEF FnsOrdered, StacksRise, stack
  <1>7. \A f \in DOMAIN made : made[f].seat \in SeatIds /\ made[f].seat \in Collects
    BY MadeIsKnown DEF Collects
  <1>8. \A f : HasRun(f)' <=> HasRun(f)
    BY <1>2 DEF HasRun
  <1>9. \A f, g : RanBefore(f, g)' <=> RanBefore(f, g)
    BY <1>2 DEF RanBefore
  <1>10. DOMAIN made \subseteq Nat /\ 0 \notin DOMAIN made
    BY MadeIsKnown
  <1>11. ASSUME NEW f \in DOMAIN made
         PROVE  InStack(f)' <=> InStack(f) /\ f # running'
    <2>1. CASE made[f].seat # d
      BY <1>2, <1>4, <1>5, <1>7, <2>1 DEF InStack
    <2>2. CASE made[f].seat = d
      <3>1. InStack(f) <=> \E i \in 1 .. n : stack[i] = f
        BY <1>3, <2>2 DEF InStack, stack
      <3>2. InStack(f)' <=> \E i \in 1 .. n - 1 : stack[i] = f
        BY <1>2, <1>3, <1>4, <2>2 DEF InStack
      <3>3. \A i \in 1 .. n - 1 : stack[i] # stack[n]
        BY <1>1, <1>3, <1>6 DEF SeatTypes, stack
      <3>4. \A i \in 1 .. n : i \in 1 .. n - 1 \/ i = n
        BY <1>3
      <3>5. n \in 1 .. n /\ \A i \in 1 .. n - 1 : i \in 1 .. n
        BY <1>3
      <3> QED
        BY <1>5, <3>1, <3>2, <3>3, <3>4, <3>5
    <2> QED
      BY <2>1, <2>2
  <1>12. InStack(running')
    BY <1>3, <1>5 DEF InStack, stack
  <1>13. StacksRise'
    <2>1. ASSUME NEW s \in SeatIds
          PROVE  /\ \A i \in DOMAIN fns'[s] : fns'[s][i] \in DOMAIN made /\ made[fns'[s][i]].seat = s
                 /\ \A i, j \in DOMAIN fns'[s] : i < j => fns'[s][i] < fns'[s][j]
      <3>1. CASE s = d
        <4>1. \A i \in 1 .. n - 1 : i \in 1 .. n
          BY <1>3
        <4> QED
          BY <1>3, <1>4, <3>1, <4>1 DEF FnsOrdered, StacksRise, stack
      <3>2. CASE s # d
        BY <1>4, <3>2 DEF FnsOrdered, StacksRise
      <3> QED
        BY <3>1, <3>2
    <2> QED
      BY <1>2, <2>1 DEF StacksRise
  <1>14. FnsHaveAPlace'
    BY <1>2, <1>5, <1>8, <1>10, <1>11, <1>12 DEF FnsOrdered, FnsHaveAPlace
  <1>15. LaterRunFirst'
    <2>1. ASSUME NEW g \in DOMAIN made, running' < g, made[g].seat = d
          PROVE  HasRun(g)
      <3>1. ~ InStack(g)
        <4>1. \A i \in 1 .. n : stack[i] # g
          <5>1. ASSUME NEW i \in 1 .. n PROVE stack[i] # g
            <6>1. i \in 1 .. n - 1 \/ i = n
              BY <1>3
            <6> QED
              BY <1>5, <1>6, <1>10, <2>1, <6>1
          <5> QED
            BY <5>1
        <4> QED
          BY <1>3, <2>1, <4>1 DEF InStack, stack
      <3>2. running # g
        BY <1>2, <1>10
      <3> QED
        BY <3>1, <3>2 DEF FnsOrdered, FnsHaveAPlace
    <2> QED
      BY <1>2, <1>5, <1>8, <1>9, <2>1 DEF FnsOrdered, LaterRunFirst
  <1>16. SeatsInTurn'
    <2>1. \A s : (HasBegun(s)' <=> HasBegun(s)) /\ (IsOver(s)' <=> IsOver(s))
      BY <1>2 DEF HasBegun, IsOver, InTest
    <2> QED
      BY <1>1, <1>2, <1>5, <1>8, <1>11, <2>1 DEF FnsOrdered, SeatsInTurn
  <1> QED
    BY <1>5, <1>13, <1>14, <1>15, <1>16 DEF FnsOrdered, d

\* A cleanup that is registered is the last of its seat, or runs at once.
LEMMA RegisterIsTheLast ==
  ASSUME SeatTypes, PhasesFollow, FnsOrdered, NEW s \in SeatIds, Register(s)
  PROVE  FnsOrdered' /\ made' \in Seq(Fns) /\ fns' \in [SeatIds -> Seq(Nat)] /\ ran' \in Seq(Nat)
  <1> DEFINE new == [seat |-> s, over |-> IsOver(s), begun |-> HasBegun(s)]
  <1>1. /\ new \in Fns /\ new.seat = s
        /\ new.over <=> IsOver(s)
        /\ new.begun <=> HasBegun(s)
    <2> DEFINE o == IsOver(s)
               b == HasBegun(s)
    <2>1. o \in BOOLEAN
      BY DEF IsOver, SeatTypes
    <2>2. b \in BOOLEAN
      BY DEF HasBegun
    <2>3. s \in SeatIds \ {"standard"}
      BY DEF Register
    <2> HIDE DEF o, b
    <2>4. /\ [seat |-> s, over |-> o, begun |-> b] \in Fns
          /\ [seat |-> s, over |-> o, begun |-> b].seat = s
          /\ [seat |-> s, over |-> o, begun |-> b].over = o
          /\ [seat |-> s, over |-> o, begun |-> b].begun = b
      BY <2>1, <2>2, <2>3 DEF Fns
    <2> QED
      BY <2>4 DEF o, b
  <1>2. made' = Append(made, new)
    BY DEF Register
  <1> HIDE DEF new
  <1>3. PICK m \in Nat : m = Len(made) + 1
    BY MadeIsKnown
  <1>4. /\ DOMAIN made = 1 .. m - 1 /\ DOMAIN made' = 1 .. m /\ made'[m] = new
        /\ \A f \in 1 .. m - 1 : made'[f] = made[f]
        /\ made' \in Seq(Fns) /\ m > 0
    BY <1>1, <1>2, <1>3 DEF SeatTypes
  <1>5. \A f \in 1 .. m : f \in 1 .. m - 1 \/ f = m
    BY <1>3
  <1>6. /\ \A f \in 1 .. m - 1 : f \in Nat /\ f < m /\ f # m /\ f \in 1 .. m
        /\ m \in 1 .. m /\ m \notin DOMAIN made
    BY <1>3, <1>4
  <1>7. /\ running' = running /\ running # m
        /\ \A x \in Collects : (HasBegun(x)' <=> HasBegun(x)) /\ (IsOver(x)' <=> IsOver(x))
        /\ s \in Collects
    BY <1>4, <1>6 DEF Register, HasBegun, IsOver, InTest, PhasesFollow, Collects
  <1>8. ~ HasRun(m) /\ \A x \in SeatIds : \A i \in DOMAIN fns[x] : fns[x][i] # m
    BY <1>6 DEF FnsOrdered, FnsHaveAPlace, StacksRise, HasRun
  <1>9. \A f \in 1 .. m - 1 : made[f].seat \in Collects /\ made[f].seat \in SeatIds
    BY <1>4, MadeIsKnown DEF Collects
  \* What both cases share.
  <1>10. ASSUME \A f \in 1 .. m - 1 : (InStack(f)' <=> InStack(f)) /\ (HasRun(f)' <=> HasRun(f)),
                InStack(m)' <=> ~ (s = "body" /\ closed),
                HasRun(m)' <=> s = "body" /\ closed,
                \A f, g : RanBefore(g, f) => RanBefore(g, f)'
         PROVE  /\ LaterRunFirst' /\ SeatsInTurn'
                /\ \A f \in DOMAIN made' : /\ InStack(f)' \/ running' = f \/ HasRun(f)'
                                           /\ ~ (InStack(f)' /\ running' = f)
                                           /\ ~ (HasRun(f)' /\ (InStack(f)' \/ running' = f))
    <2>1. \A f \in DOMAIN made' : /\ InStack(f)' \/ running' = f \/ HasRun(f)'
                                  /\ ~ (InStack(f)' /\ running' = f)
                                  /\ ~ (HasRun(f)' /\ (InStack(f)' \/ running' = f))
      BY <1>4, <1>5, <1>7, <1>10 DEF FnsOrdered, FnsHaveAPlace
    <2>2. ASSUME NEW f \in DOMAIN made', NEW g \in DOMAIN made', f < g,
                 made'[f].seat = made'[g].seat, ~ made'[g].begun
          PROVE  /\ running' = f => HasRun(g)'
                 /\ HasRun(f)' => RanBefore(g, f)'
      <3>1. f \in 1 .. m - 1
        BY <1>3, <1>4, <2>2
      <3>2. CASE g \in 1 .. m - 1
        BY <1>4, <1>7, <1>10, <2>2, <3>1, <3>2 DEF FnsOrdered, LaterRunFirst
      <3>3. CASE g = m
        <4>1. made[f].seat = s /\ ~ HasBegun(s)
          BY <1>1, <1>4, <2>2, <3>1, <3>3
        <4>2. ~ HasRun(f) /\ running # f
          BY <1>4, <3>1, <4>1 DEF FnsOrdered, SeatsInTurn
        <4> QED
          BY <1>7, <1>10, <3>1, <4>2
      <3> QED
        BY <1>4, <1>5, <2>2, <3>2, <3>3
    <2>3. LaterRunFirst'
      BY <2>2 DEF LaterRunFirst
    <2>4. ASSUME NEW f \in DOMAIN made', NEW x \in Collects, x = made'[f].seat
          PROVE  /\ HasRun(f)' \/ running' = f => HasBegun(x)
                 /\ made'[f].begun => HasBegun(x)
                 /\ made'[f].over => IsOver(x)
                 /\ InStack(f)' /\ IsOver(x) => made'[f].over
      <3>1. CASE f \in 1 .. m - 1
        BY <1>4, <1>7, <1>10, <2>4, <3>1 DEF FnsOrdered, SeatsInTurn
      <3>2. CASE f = m
        <4>1. x = s
          BY <1>1, <1>4, <2>4, <3>2
        <4>2. HasRun(f)' => HasBegun(x)
          BY <1>10, <3>2, <4>1 DEF HasBegun, IsOver
        <4> QED
          BY <1>1, <1>4, <1>7, <3>2, <4>1, <4>2
      <3> QED
        BY <1>4, <1>5, <3>1, <3>2
    <2>5. ASSUME NEW f \in DOMAIN made' PROVE made'[f].seat \in Collects
      BY <1>1, <1>4, <1>5, <1>7, <1>9
    <2>6. SeatsInTurn'
      <3>1. ASSUME NEW f \in DOMAIN made'
            PROVE  /\ HasRun(f)' \/ running' = f => HasBegun(made[f].seat)'
                   /\ made'[f].begun => HasBegun(made[f].seat)'
                   /\ made'[f].over => IsOver(made[f].seat)'
                   /\ InStack(f)' /\ IsOver(made[f].seat)' => made'[f].over
        <4>1. PICK x \in Collects : x = made'[f].seat
          BY <2>5
        <4>2. /\ HasBegun(made[f].seat)' <=> HasBegun(x)
              /\ IsOver(made[f].seat)' <=> IsOver(x)
          BY <1>7, <4>1
        <4> QED
          BY <2>4, <4>1, <4>2
      <3> QED
        BY <3>1 DEF SeatsInTurn
    <2> QED
      BY <2>1, <2>3, <2>6
  <1>11. CASE s = "body" /\ closed
    <2>1. fns' = fns /\ ran' = Append(ran, m)
      BY <1>3, <1>11 DEF Register
    <2>2. /\ Len(ran) \in Nat /\ DOMAIN ran = 1 .. Len(ran)
          /\ DOMAIN ran' = 1 .. Len(ran) + 1
          /\ \A i \in 1 .. Len(ran) : ran'[i] = ran[i]
          /\ ran'[Len(ran) + 1] = m
          /\ \A f : HasRun(f)' <=> HasRun(f) \/ f = m
          /\ \A f, g : RanBefore(g, f) => RanBefore(g, f)'
      BY <1>3, <2>1, RunIsAppended
    <2>3. \A f \in 1 .. m - 1 : InStack(f)' <=> InStack(f)
      BY <1>4, <2>1 DEF InStack
    <2>4. ~ InStack(m)'
      BY <1>1, <1>4, <1>8, <2>1 DEF InStack
    <2>5. /\ LaterRunFirst' /\ SeatsInTurn'
          /\ \A f \in DOMAIN made' : /\ InStack(f)' \/ running' = f \/ HasRun(f)'
                                     /\ ~ (InStack(f)' /\ running' = f)
                                     /\ ~ (HasRun(f)' /\ (InStack(f)' \/ running' = f))
      BY <1>6, <1>10, <1>11, <2>2, <2>3, <2>4
    <2>6. StacksRise'
      BY <1>4, <1>6, <2>1 DEF FnsOrdered, StacksRise
    <2>7. \A i \in DOMAIN ran' : ran'[i] \in DOMAIN made'
      BY <1>4, <1>6, <2>2 DEF FnsOrdered, FnsHaveAPlace
    <2>8. \A i \in 1 .. Len(ran) : ran[i] # m
      BY <1>8, <2>2 DEF HasRun
    <2>9. \A i, j \in DOMAIN ran' : ran'[i] = ran'[j] => i = j
      BY <2>2, <2>8 DEF FnsOrdered, FnsHaveAPlace
    <2>10. ran' \in Seq(Nat) /\ fns' \in [SeatIds -> Seq(Nat)]
      BY <1>3, <2>1 DEF SeatTypes
    <2> QED
      BY <1>4, <2>5, <2>6, <2>7, <2>9, <2>10 DEF FnsOrdered, FnsHaveAPlace
  <1>12. CASE ~ (s = "body" /\ closed)
    <2>1. ran' = ran /\ fns' = [fns EXCEPT ![s] = Append(fns[s], m)]
      BY <1>3, <1>12 DEF Register
    <2>2. /\ \A x \in SeatIds : x # s => fns'[x] = fns[x]
          /\ fns'[s] = Append(fns[s], m) /\ fns[s] \in Seq(Nat)
          /\ fns' \in [SeatIds -> Seq(Nat)] /\ ran' \in Seq(Nat)
      BY <1>3, <2>1 DEF SeatTypes
    <2>3. PICK n \in Nat : n = Len(fns[s])
      BY <2>2
    <2>4. /\ DOMAIN fns[s] = 1 .. n /\ DOMAIN fns'[s] = 1 .. n + 1 /\ fns'[s][n + 1] = m
          /\ \A i \in 1 .. n : fns'[s][i] = fns[s][i]
      BY <1>3, <2>2, <2>3
    <2>5. \A i \in 1 .. n + 1 : i \in 1 .. n \/ i = n + 1
      BY <2>3
    <2>6. \A i \in 1 .. n : i \in 1 .. n + 1
      BY <2>3
    <2>7. n + 1 \in 1 .. n + 1
      BY <2>3
    <2>8. ASSUME NEW f \in 1 .. m - 1 PROVE InStack(f)' <=> InStack(f)
      <3>1. CASE made[f].seat = s
        BY <1>4, <1>6, <2>4, <2>5, <2>6, <3>1 DEF InStack
      <3>2. CASE made[f].seat # s
        BY <1>4, <1>9, <2>2, <3>2 DEF InStack
      <3> QED
        BY <3>1, <3>2
    <2>9. InStack(m)'
      BY <1>1, <1>4, <2>4, <2>7 DEF InStack
    <2>10. \A f : HasRun(f)' <=> HasRun(f)
      BY <2>1 DEF HasRun
    <2>11. \A f, g : RanBefore(g, f) => RanBefore(g, f)'
      BY <2>1 DEF RanBefore
    <2>12. /\ LaterRunFirst' /\ SeatsInTurn'
           /\ \A f \in DOMAIN made' : /\ InStack(f)' \/ running' = f \/ HasRun(f)'
                                      /\ ~ (InStack(f)' /\ running' = f)
                                      /\ ~ (HasRun(f)' /\ (InStack(f)' \/ running' = f))
      BY <1>8, <1>10, <1>12, <2>8, <2>9, <2>10, <2>11
    <2>13. ASSUME NEW x \in SeatIds
           PROVE  /\ \A i \in DOMAIN fns'[x] : fns'[x][i] \in DOMAIN made' /\ made'[fns'[x][i]].seat = x
                  /\ \A i, j \in DOMAIN fns'[x] : i < j => fns'[x][i] < fns'[x][j]
      <3>1. CASE x = s
        <4>1. \A i \in 1 .. n : fns[s][i] \in 1 .. m - 1 /\ made[fns[s][i]].seat = s
          BY <1>4, <2>4 DEF FnsOrdered, StacksRise
        <4>2. \A i \in 1 .. n : fns'[s][i] \in DOMAIN made' /\ made'[fns'[s][i]].seat = s
                                /\ fns'[s][i] < m
          BY <1>4, <1>6, <2>4, <4>1
        <4>3. m \in DOMAIN made' /\ made'[m].seat = s
          BY <1>1, <1>4, <1>6
        <4>4. \A i, j \in 1 .. n : i < j => fns'[s][i] < fns'[s][j]
          BY <2>4 DEF FnsOrdered, StacksRise
        <4>5. \A i, j \in 1 .. n + 1 : i < j => i \in 1 .. n
          BY <2>3
        <4>6. ASSUME NEW i \in 1 .. n + 1, NEW j \in 1 .. n + 1, i < j
              PROVE  fns'[s][i] < fns'[s][j]
          <5>1. i \in 1 .. n /\ (j \in 1 .. n \/ j = n + 1)
            BY <2>5, <4>5, <4>6
          <5> QED
            BY <2>4, <4>2, <4>4, <4>6, <5>1
        <4>7. \A i \in 1 .. n + 1 : fns'[s][i] \in DOMAIN made' /\ made'[fns'[s][i]].seat = s
          BY <2>4, <2>5, <4>2, <4>3
        <4> QED
          BY <2>4, <3>1, <4>6, <4>7
      <3>2. CASE x # s
        <4>1. \A i \in DOMAIN fns[x] : fns[x][i] \in 1 .. m - 1 /\ made[fns[x][i]].seat = x
          BY <1>4 DEF FnsOrdered, StacksRise
        <4>2. \A i \in DOMAIN fns[x] : fns[x][i] \in DOMAIN made' /\ made'[fns[x][i]].seat = x
          BY <1>4, <1>6, <4>1
        <4>3. \A i, j \in DOMAIN fns[x] : i < j => fns[x][i] < fns[x][j]
          BY DEF FnsOrdered, StacksRise
        <4> QED
          BY <2>2, <3>2, <4>2, <4>3
      <3> QED
        BY <3>1, <3>2
    <2>14. StacksRise'
      BY <2>13 DEF StacksRise
    <2>15. /\ \A i \in DOMAIN ran' : ran'[i] \in DOMAIN made'
           /\ \A i, j \in DOMAIN ran' : ran'[i] = ran'[j] => i = j
      BY <1>4, <1>6, <2>1 DEF FnsOrdered, FnsHaveAPlace
    <2> QED
      BY <1>4, <2>2, <2>12, <2>14, <2>15 DEF FnsOrdered, FnsHaveAPlace
  <1> QED
    BY <1>11, <1>12

-----------------------------------------------------------------------------
(***************************************************************************)
(* The failures.                                                           *)
(***************************************************************************)
Collected == kept["first"] # <<>> \/ kept["second"] # <<>>

\* A step that forgets no failure.
KeptGrows ==
  /\ kept' \in [SeatIds -> Seq(Nat)] /\ count' \in Nat /\ count <= count'
  /\ \A s \in SeatIds : Rises(kept'[s], count')
  /\ Collected => Collected'

LEMMA KeptIsAppended ==
  ASSUME SeatTypes, FailuresRise, count' = count + 1, NEW s \in SeatIds,
         kept' = [kept EXCEPT ![s] = Append(@, count')]
  PROVE  KeptGrows /\ (s \in Collectors => Collected')
  <1>1. /\ kept' = [kept EXCEPT ![s] = Append(kept[s], count + 1)]
        /\ kept \in [SeatIds -> Seq(Nat)] /\ count \in Nat
    BY DEF SeatTypes
  <1>2. /\ kept' \in [SeatIds -> Seq(Nat)]
        /\ kept'[s] = Append(kept[s], count + 1) /\ kept[s] \in Seq(Nat)
        /\ \A x \in SeatIds : x # s => kept'[x] = kept[x]
    BY <1>1
  <1>3. PICK n \in Nat : n = Len(kept[s])
    BY <1>2
  <1>4. /\ DOMAIN kept[s] = 1 .. n /\ DOMAIN kept'[s] = 1 .. n + 1
        /\ kept'[s][n + 1] = count + 1 /\ \A i \in 1 .. n : kept'[s][i] = kept[s][i]
        /\ \A i \in 1 .. n : kept[s][i] \in Nat
    BY <1>1, <1>2, <1>3
  <1>5. Rises(kept'[s], count')
    <2>1. /\ \A i \in 1 .. n : kept[s][i] <= count
          /\ \A i, j \in 1 .. n : i < j => kept[s][i] < kept[s][j]
      BY <1>4 DEF FailuresRise, Rises
    <2>2. \A i \in 1 .. n + 1 : i \in 1 .. n \/ i = n + 1
      BY <1>3
    <2>3. \A i \in 1 .. n + 1 : kept'[s][i] <= count + 1
      BY <1>1, <1>4, <2>1, <2>2
    <2>4. ASSUME NEW i \in 1 .. n + 1, NEW j \in 1 .. n + 1, i < j
          PROVE  kept'[s][i] < kept'[s][j]
      <3>1. i \in 1 .. n /\ (j \in 1 .. n \/ j = n + 1)
        BY <1>3, <2>4
      <3>2. CASE j \in 1 .. n
        BY <1>4, <2>1, <2>4, <3>1, <3>2
      <3>3. CASE j = n + 1
        BY <1>1, <1>4, <2>1, <3>1, <3>3
      <3> QED
        BY <3>1, <3>2, <3>3
    <2> QED
      BY <1>4, <2>3, <2>4 DEF Rises
  <1>6. \A x \in SeatIds : Rises(kept[x], count) => Rises(kept[x], count')
    BY <1>1 DEF Rises
  <1>7. \A x \in SeatIds : Rises(kept'[x], count')
    BY <1>2, <1>5, <1>6 DEF FailuresRise
  <1>8. kept'[s] # <<>>
    BY <1>2
  <1>9. /\ Collected => Collected'
        /\ s \in Collectors => Collected'
    BY <1>2, <1>8 DEF Collected, Collectors, SeatIds
  <1> QED
    BY <1>1, <1>2, <1>7, <1>9 DEF KeptGrows

LEMMA KeptIsTheSame ==
  ASSUME SeatTypes, FailuresRise, count' = count \/ count' = count + 1, kept' = kept
  PROVE  KeptGrows
  <1>1. kept \in [SeatIds -> Seq(Nat)] /\ count \in Nat /\ count' \in Nat /\ count <= count'
    BY DEF SeatTypes
  <1>2. ASSUME NEW s \in SeatIds PROVE Rises(kept[s], count')
    <2>1. kept[s] \in Seq(Nat)
      BY <1>1
    <2>2. \A i \in DOMAIN kept[s] : kept[s][i] \in Nat
      BY <2>1
    <2> QED
      BY <1>1, <2>2 DEF FailuresRise, Rises
  <1> QED
    BY <1>1, <1>2 DEF KeptGrows, Collected

\* What a step shows that neither registers a cleanup nor starts one.
LEMMA SeatsStayInductive ==
  ASSUME SeatsInductive, SeatTypes', PhasesFollow', PhaseGoesOn, FnsGoOn, KeptGrows,
         result' = result, SeenIsTold'
  PROVE  SeatsInductive'
  <1>1. FnsOrdered'
    BY FnsKeepTheirOrder, SeatsGoOnWithThePhase DEF SeatsInductive, FnsOrdered
  <1>2. Rises(result'.failures, count')
    <2>1. result.failures \in Seq(Nat) /\ count \in Nat /\ count' \in Nat /\ count <= count'
      BY DEF SeatsInductive, SeatTypes, KeptGrows
    <2>2. \A i \in DOMAIN result.failures : result.failures[i] \in Nat
      BY <2>1
    <2> QED
      BY <2>1, <2>2 DEF SeatsInductive, FailuresRise, Rises
  <1>3. FailuresRise'
    BY <1>2 DEF FailuresRise, KeptGrows
  <1> QED
    BY <1>1, <1>3 DEF SeatsInductive, FnsOrdered

-----------------------------------------------------------------------------
(***************************************************************************)
(* The calls.                                                              *)
(***************************************************************************)
Effects == {"none", "keep", "fatal", "end", "raise", "skip"}

\* What an effect says of its seat.
LEMMA EffectsAreKnown ==
  ASSUME SeatTypes, NEW s \in SeatIds, NEW mode \in CallModes, NEW word \in Verdicts
  PROVE  /\ EffectOf(s, mode, word) \in Effects
         /\ EffectOf(s, mode, word) = "end" => s = "body"
         /\ EffectOf(s, mode, word) = "keep" => s # "standard"
  BY DEF SeatTypes, SeatIds, EffectOf, End, Fails, Records, TakesFaults, Effects

LEMMA KeepIsKept ==
  ASSUME SeatTypes, FailuresRise, NEW s \in SeatIds, NEW effect \in Effects,
         count' = count + 1, Keep(s, effect)
  PROVE  /\ KeptGrows /\ fatal' \in Nat
         /\ effect = "keep" /\ s \in Collectors => Collected'
  <1>1. CASE effect \in {"keep", "end"}
    BY <1>1, KeptIsAppended DEF Keep, SeatTypes
  <1>2. CASE effect \notin {"keep", "end"}
    BY <1>2, KeptIsTheSame DEF Keep, SeatTypes
  <1> QED
    BY <1>1, <1>2

\* The failure of a cleanup.
LEMMA FnRaisesIsTold ==
  ASSUME SeatTypes, PhasesFollow, FailuresRise, count' = count + 1, InFn, FnRaises
  PROVE  /\ KeptGrows /\ inner' \in {"none", "error", "skip"}
         /\ IF phase = "finish" THEN inner' = "error" ELSE inner' = inner
         /\ phase # "finish" => phase \in {"first", "second", "recorder"}
         /\ phase \in {"first", "second"} => Collected'
  <1>1. /\ running \in DOMAIN made /\ Draining /\ made[running].seat = Drained
        /\ made[running].seat \in SeatIds
    BY MadeIsKnown DEF PhasesFollow, InFn, Collects
  <1>2. CASE phase = "finish"
    BY <1>2, KeptIsTheSame DEF FnRaises
  <1>3. CASE phase # "finish"
    <2>1. phase \in {"first", "second", "recorder"} /\ made[running].seat = phase
      BY <1>1, <1>3 DEF Draining, Drained
    <2>2. KeptGrows /\ (phase \in Collectors => Collected')
      <3>1. phase \in SeatIds /\ kept' = [kept EXCEPT ![phase] = Append(@, count')]
        BY <1>1, <1>3, <2>1 DEF FnRaises
      <3>2. PICK s \in SeatIds : s = phase
        BY <3>1
      <3> QED
        BY <3>1, <3>2, KeptIsAppended
    <2> QED
      BY <1>3, <2>1, <2>2 DEF FnRaises, SeatTypes, Collectors
  <1> QED
    BY <1>2, <1>3

LEMMA CallOnMainIsSound ==
  ASSUME SeatsInductive, NEW s \in SeatIds, NEW mode \in CallModes, NEW word \in Verdicts,
         CallOnMain(s, mode, word)
  PROVE  SeatsInductive'
  <1> DEFINE e == EffectOf(s, mode, word)
  <1>1. /\ SeatTypes /\ PhasesFollow /\ FailuresRise /\ SeenIsTold
        /\ (InTest \/ InFn) /\ Usable(s) /\ count' = count + 1
        /\ seen' = IF e \in {"raise", "keep"} /\ Owes(s) THEN seen \cup {count'} ELSE seen
        /\ \/ Goes(s, e) \/ EndsBody(s, e) \/ RaisesInFn(e) \/ RaisesInBody(e)
           \/ RaisesInTest(e)
        /\ UNCHANGED <<switch, fns, closed, result, other, made>>
    BY DEF SeatsInductive, CallOnMain
  <1>2. PICK effect \in Effects : effect = e
    BY <1>1, EffectsAreKnown
  <1>3. /\ effect = "end" => s = "body"
        /\ effect = "keep" => s # "standard"
    BY <1>1, <1>2, EffectsAreKnown
  <1> HIDE DEF e
  <1>4. count' \in Nat /\ seen' \in SUBSET Nat
    BY <1>1 DEF SeatTypes
  <1>5. Owes(s) => phase # "recorder" /\ (s \in Collectors \/ s = "standard")
    BY DEF Owes, Class, SeatIds
  <1>6. InFn => /\ phase \in {"finish", "first", "second", "recorder"}
                /\ running \in Nat
    BY <1>1 DEF InFn, PhasesFollow, Draining, SeatTypes
  <1>7. CASE Goes(s, effect)
    <2>1. /\ Keep(s, effect) /\ effect \in {"none", "keep", "fatal"}
          /\ UNCHANGED <<phase, running, inner, ending, ran>>
      BY <1>7 DEF Goes
    <2>2. /\ KeptGrows /\ fatal' \in Nat
          /\ effect = "keep" /\ s \in Collectors => Collected'
      BY <1>1, <2>1, KeepIsKept
    <2>3. SeatTypes'
      BY <1>1, <1>4, <2>1, <2>2 DEF SeatTypes, KeptGrows
    <2>4. PhasesFollow'
      BY <1>1, <2>1 DEF PhasesFollow, Draining, Drained
    <2>5. PhaseGoesOn /\ FnsGoOn
      BY <1>1, <2>1 DEF PhaseGoesOn, FnsGoOn
    <2>6. SeenIsTold'
      <3>1. CASE seen' = seen
        BY <1>1, <2>1, <2>2, <3>1 DEF SeenIsTold, KeptGrows, Collected
      <3>2. CASE seen' # seen
        <4>1. phase # "recorder" /\ Collected'
          BY <1>1, <1>2, <1>3, <1>5, <2>1, <2>2, <3>2
        <4>2. phase # "done"
          BY <1>1, <1>6 DEF InTest
        <4> QED
          BY <1>1, <2>1, <4>1, <4>2 DEF SeenIsTold, Collected, PhasesFollow
      <3> QED
        BY <3>1, <3>2
    <2> QED
      BY <1>1, <2>2, <2>3, <2>4, <2>5, <2>6, SeatsStayInductive
  <1>8. CASE EndsBody(s, effect)
    <2>1. /\ Keep(s, effect) /\ effect = "end" /\ s = "body"
          /\ phase' = "finish" /\ running' = 0
          /\ ran' = IF InFn THEN Append(ran, running) ELSE ran
          /\ UNCHANGED <<inner, ending>> /\ phase \in {"body", "finish"}
      BY <1>1, <1>3, <1>8 DEF EndsBody, Usable
    <2>2. KeptGrows /\ fatal' \in Nat
      BY <1>1, <2>1, KeepIsKept
    <2>3. SeatTypes'
      BY <1>1, <1>4, <1>6, <2>1, <2>2 DEF SeatTypes, KeptGrows, Phases
    <2>4. PhasesFollow'
      BY <1>1, <2>1 DEF PhasesFollow
    <2>5. PhaseGoesOn
      BY <1>1, <2>1 DEF PhaseGoesOn
    <2>6. FnsGoOn
      BY <1>1, <2>1 DEF FnsGoOn, InFn
    <2>7. seen' = seen
      BY <1>1, <1>2, <2>1
    <2>8. SeenIsTold'
      BY <1>1, <2>1, <2>2, <2>7 DEF SeenIsTold, KeptGrows, Collected, PhasesFollow
    <2> QED
      BY <1>1, <2>2, <2>3, <2>4, <2>5, <2>6, <2>8, SeatsStayInductive
  <1>9. CASE RaisesInFn(effect)
    <2>1. /\ InFn /\ FnRaises /\ running' = 0 /\ ran' = Append(ran, running)
          /\ UNCHANGED <<phase, ending, fatal>>
      BY <1>9 DEF RaisesInFn
    <2>2. /\ KeptGrows /\ inner' \in {"none", "error", "skip"}
          /\ IF phase = "finish" THEN inner' = "error" ELSE inner' = inner
          /\ phase # "finish" => phase \in {"first", "second", "recorder"}
          /\ phase \in {"first", "second"} => Collected'
      BY <1>1, <2>1, FnRaisesIsTold
    <2>3. SeatTypes'
      BY <1>1, <1>4, <1>6, <2>1, <2>2 DEF SeatTypes, KeptGrows
    <2>4. PhasesFollow'
      BY <1>1, <2>1, <2>2 DEF PhasesFollow
    <2>5. PhaseGoesOn /\ FnsGoOn
      BY <1>1, <2>1 DEF PhaseGoesOn, FnsGoOn, InFn
    <2>6. SeenIsTold'
      <3>1. CASE seen' = seen
        BY <1>1, <2>1, <2>2, <3>1 DEF SeenIsTold, KeptGrows, Collected
      <3>2. CASE seen' # seen
        <4>1. phase \in {"first", "second", "finish"}
          BY <1>1, <1>5, <2>2, <3>2
        <4> QED
          BY <1>1, <2>1, <2>2, <4>1 DEF SeenIsTold, Collected, PhasesFollow
      <3> QED
        BY <3>1, <3>2
    <2> QED
      BY <1>1, <2>2, <2>3, <2>4, <2>5, <2>6, SeatsStayInductive
  <1>10. CASE RaisesInBody(effect)
    <2>1. /\ effect \in {"raise", "skip"} /\ phase = "body" /\ phase' = "finish"
          /\ inner' = IF effect = "skip" THEN "skip" ELSE "error"
          /\ UNCHANGED <<running, ending, kept, fatal, ran>>
      BY <1>10 DEF RaisesInBody
    <2>2. KeptGrows
      BY <1>1, <2>1, KeptIsTheSame
    <2>3. SeatTypes'
      BY <1>1, <1>4, <2>1 DEF SeatTypes, Phases
    <2>4. PhasesFollow'
      BY <1>1, <2>1 DEF PhasesFollow, Draining
    <2>5. PhaseGoesOn
      BY <1>1, <2>1 DEF PhaseGoesOn
    <2>6. FnsGoOn
      BY <1>1, <2>1 DEF FnsGoOn
    <2>7. SeenIsTold'
      BY <1>1, <1>2, <2>1 DEF SeenIsTold, PhasesFollow
    <2> QED
      BY <1>1, <2>2, <2>3, <2>4, <2>5, <2>6, <2>7, SeatsStayInductive
  <1>11. CASE RaisesInTest(effect)
    <2>1. /\ effect \in {"raise", "skip"} /\ phase = "test" /\ phase' = "first"
          /\ ending' = IF effect = "skip" THEN "skipped" ELSE "raised"
          /\ UNCHANGED <<running, inner, kept, fatal, ran>>
      BY <1>11 DEF RaisesInTest
    <2>2. KeptGrows
      BY <1>1, <2>1, KeptIsTheSame
    <2>3. SeatTypes'
      BY <1>1, <1>4, <2>1 DEF SeatTypes, Phases
    <2>4. PhasesFollow'
      BY <1>1, <2>1 DEF PhasesFollow, Draining
    <2>5. PhaseGoesOn
      BY <1>1, <2>1 DEF PhaseGoesOn
    <2>6. FnsGoOn
      BY <1>1, <2>1 DEF FnsGoOn
    <2>7. SeenIsTold'
      BY <1>1, <2>1 DEF SeenIsTold, PhasesFollow
    <2> QED
      BY <1>1, <2>2, <2>3, <2>4, <2>5, <2>6, <2>7, SeatsStayInductive
  <1> QED
    BY <1>1, <1>2, <1>7, <1>8, <1>9, <1>10, <1>11

LEMMA CallOnOtherIsSound ==
  ASSUME SeatsInductive, NEW s \in SeatIds, NEW mode \in CallModes, NEW word \in Verdicts,
         CallOnOther(s, mode, word)
  PROVE  SeatsInductive'
  <1> DEFINE e == EffectOf(s, mode, word)
  <1>1. /\ SeatTypes /\ PhasesFollow /\ FailuresRise /\ SeenIsTold /\ count' = count + 1
        /\ Keep(s, e) /\ other' = (e \in {"none", "keep", "fatal"})
        /\ UNCHANGED <<switch, phase, fns, running, closed, inner, ending, result, made, ran,
                       seen>>
    BY DEF SeatsInductive, CallOnOther
  <1>2. PICK effect \in Effects : effect = e
    BY <1>1, EffectsAreKnown
  <1> HIDE DEF e
  <1>3. KeptGrows /\ fatal' \in Nat
    BY <1>1, <1>2, KeepIsKept
  <1>4. SeatTypes'
    BY <1>1, <1>3 DEF SeatTypes, KeptGrows
  <1>5. PhasesFollow'
    BY <1>1 DEF PhasesFollow, Draining, Drained
  <1>6. PhaseGoesOn /\ FnsGoOn
    BY <1>1 DEF PhaseGoesOn, FnsGoOn
  <1>7. SeenIsTold'
    BY <1>1, <1>3 DEF SeenIsTold, KeptGrows, Collected
  <1> QED
    BY <1>1, <1>3, <1>4, <1>5, <1>6, <1>7, SeatsStayInductive

-----------------------------------------------------------------------------
(***************************************************************************)
(* The other actions.                                                      *)
(***************************************************************************)
LEMMA RegisterIsSound ==
  ASSUME SeatsInductive, NEW s \in SeatIds, Register(s)
  PROVE  SeatsInductive'
  <1>1. /\ SeatTypes /\ PhasesFollow /\ FnsOrdered /\ FailuresRise /\ SeenIsTold
        /\ UNCHANGED <<switch, phase, running, closed, kept, fatal, inner, ending, result,
                       count, other, seen>>
    BY DEF SeatsInductive, FnsOrdered, Register
  <1>2. FnsOrdered' /\ made' \in Seq(Fns) /\ fns' \in [SeatIds -> Seq(Nat)] /\ ran' \in Seq(Nat)
    BY <1>1, RegisterIsTheLast
  <1>3. SeatTypes'
    BY <1>1, <1>2 DEF SeatTypes
  <1>4. PhasesFollow'
    <2>1. fns'["body"] # <<>> => phase \in {"body", "finish"}
      <3>1. CASE s = "body"
        BY <1>1, <3>1 DEF Register, Usable, PhasesFollow
      <3>2. CASE s # "body"
        BY <1>1, <3>2 DEF Register, PhasesFollow, SeatTypes, SeatIds
      <3> QED
        BY <3>1, <3>2
    <2>2. running # 0 => running \in DOMAIN made' /\ made'[running] = made[running]
      <3>1. made \in Seq(Fns) /\ Len(made) \in Nat
        BY <1>1 DEF SeatTypes
      <3>2. PICK fn : made' = Append(made, fn)
        BY DEF Register
      <3>3. \A f \in DOMAIN made : f \in DOMAIN made' /\ made'[f] = made[f]
        BY <3>1, <3>2
      <3> QED
        BY <1>1, <3>3 DEF PhasesFollow
    <2> QED
      BY <1>1, <2>1, <2>2 DEF PhasesFollow, Draining, Drained
  <1>5. FailuresRise'
    BY <1>1 DEF FailuresRise
  <1>6. SeenIsTold'
    BY <1>1 DEF SeenIsTold
  <1> QED
    BY <1>2, <1>3, <1>4, <1>5, <1>6 DEF SeatsInductive, FnsOrdered

LEMMA NextFnIsSound ==
  ASSUME SeatsInductive, NextFn
  PROVE  SeatsInductive'
  <1>1. /\ SeatTypes /\ PhasesFollow /\ FnsOrdered /\ FailuresRise /\ SeenIsTold
        /\ Draining /\ fns[Drained] # <<>>
        /\ running' = Last(fns[Drained]) /\ fns' = [fns EXCEPT ![Drained] = Front(fns[Drained])]
        /\ UNCHANGED <<switch, phase, closed, kept, fatal, inner, ending, result, count, other,
                       made, ran, seen>>
    BY DEF SeatsInductive, FnsOrdered, NextFn, Take
  <1>2. FnsOrdered' /\ running' \in DOMAIN made /\ made[running'].seat = Drained
    BY <1>1, NextFnIsTheLast
  <1>3. running' \in Nat /\ DOMAIN made \subseteq Nat
    BY <1>1, <1>2, MadeIsKnown
  <1>4. fns' \in [SeatIds -> Seq(Nat)]
    <2>1. PICK d \in SeatIds : d = Drained
      BY <1>1 DEF Drained, Draining, SeatIds
    <2>2. fns[d] \in Seq(Nat) /\ fns[d] # <<>>
      BY <1>1, <2>1 DEF SeatTypes
    <2>3. Front(fns[d]) \in Seq(Nat)
      BY <2>2 DEF Front
    <2> QED
      BY <1>1, <2>1, <2>3 DEF SeatTypes
  <1>5. SeatTypes'
    BY <1>1, <1>3, <1>4 DEF SeatTypes
  <1>6. PhasesFollow'
    <2>1. fns'["body"] # <<>> => phase \in {"body", "finish"}
      BY <1>1 DEF PhasesFollow, Draining, Drained, SeatTypes, SeatIds
    <2> QED
      BY <1>1, <1>2, <2>1 DEF PhasesFollow, Draining, Drained
  <1>7. FailuresRise'
    BY <1>1 DEF FailuresRise
  <1>8. SeenIsTold'
    BY <1>1 DEF SeenIsTold
  <1> QED
    BY <1>2, <1>5, <1>6, <1>7, <1>8 DEF SeatsInductive, FnsOrdered

LEMMA EndFnIsSound ==
  ASSUME SeatsInductive, EndFn
  PROVE  SeatsInductive'
  <1>1. /\ SeatTypes /\ PhasesFollow /\ FailuresRise /\ SeenIsTold
        /\ InFn /\ running' = 0 /\ ran' = Append(ran, running)
        /\ \/ UNCHANGED <<kept, inner, count, seen>>
           \/ /\ count' = count + 1 /\ FnRaises
              /\ seen' = IF Owes(made[running].seat) THEN seen \cup {count'} ELSE seen
        /\ UNCHANGED <<switch, phase, fns, closed, fatal, ending, result, other, made>>
    BY DEF SeatsInductive, EndFn
  <1>2. PhaseGoesOn /\ FnsGoOn /\ running \in Nat
    BY <1>1 DEF PhaseGoesOn, FnsGoOn, InFn, SeatTypes
  <1>3. CASE UNCHANGED <<kept, inner, count, seen>>
    <2>1. KeptGrows
      BY <1>1, <1>3, KeptIsTheSame
    <2>2. SeatTypes'
      BY <1>1, <1>2, <1>3 DEF SeatTypes
    <2>3. PhasesFollow'
      BY <1>1, <1>3 DEF PhasesFollow
    <2>4. SeenIsTold'
      BY <1>1, <1>3 DEF SeenIsTold
    <2> QED
      BY <1>1, <1>2, <2>1, <2>2, <2>3, <2>4, SeatsStayInductive
  <1>4. CASE /\ count' = count + 1 /\ FnRaises
             /\ seen' = IF Owes(made[running].seat) THEN seen \cup {count'} ELSE seen
    <2>1. /\ KeptGrows /\ inner' \in {"none", "error", "skip"}
          /\ IF phase = "finish" THEN inner' = "error" ELSE inner' = inner
          /\ phase # "finish" => phase \in {"first", "second", "recorder"}
          /\ phase \in {"first", "second"} => Collected'
      BY <1>1, <1>4, FnRaisesIsTold
    <2>2. SeatTypes'
      <3>1. count' \in Nat /\ seen' \in SUBSET Nat
        BY <1>1, <1>4 DEF SeatTypes
      <3> QED
        BY <1>1, <1>2, <2>1, <3>1 DEF SeatTypes, KeptGrows
    <2>3. PhasesFollow'
      BY <1>1, <2>1 DEF PhasesFollow
    <2>4. SeenIsTold'
      <3>1. CASE seen' = seen
        BY <1>1, <2>1, <3>1 DEF SeenIsTold, KeptGrows, Collected
      <3>2. CASE seen' # seen
        <4>1. phase \in {"first", "second", "finish"}
          BY <1>4, <2>1, <3>2 DEF Owes
        <4> QED
          BY <1>1, <2>1, <4>1 DEF SeenIsTold, Collected, PhasesFollow
      <3> QED
        BY <3>1, <3>2
    <2> QED
      BY <1>1, <1>2, <2>1, <2>2, <2>3, <2>4, SeatsStayInductive
  <1> QED
    BY <1>1, <1>3, <1>4

\* The body is entered, it or the test ends, and the hook goes on: nothing else happens.
LEMMA PhaseStepsAreSound ==
  ASSUME SeatsInductive, EnterBody \/ LeaveBody \/ LeaveTest \/ EndDrain \/ Teardown
  PROVE  SeatsInductive'
  <1>1. /\ SeatTypes /\ PhasesFollow /\ FailuresRise /\ SeenIsTold
        /\ UNCHANGED <<switch, fns, running, closed, kept, fatal, result, count, other, made,
                       ran, seen>>
    BY DEF SeatsInductive, EnterBody, LeaveBody, LeaveTest, EndDrain, Teardown
  <1>2. /\ \/ phase = "test" /\ phase' = "body" /\ UNCHANGED <<inner, ending>>
           \/ phase = "body" /\ phase' = "finish" /\ inner' \in {"none", "error"}
              /\ ending' = ending
           \/ phase = "test" /\ phase' = "first" /\ inner' = inner
              /\ ending' \in {"returned", "raised"}
           \/ phase = "first" /\ phase' = "second" /\ fns["first"] = <<>>
              /\ UNCHANGED <<inner, ending>>
           \/ phase = "second" /\ phase' = "flush" /\ fns["second"] = <<>>
              /\ UNCHANGED <<inner, ending>>
           \/ phase = "recorder" /\ phase' = "done" /\ fns["recorder"] = <<>>
              /\ UNCHANGED <<inner, ending>>
        /\ running = 0 /\ (phase' = "body" => ~ closed)
    <2>1. /\ Order[At("first") + 1] = "second"
          /\ Order[At("second") + 1] = "flush"
      BY PhasesAreOrdered DEF Order
    <2> QED
      BY <1>1, <2>1
         DEF EnterBody, LeaveBody, LeaveTest, EndDrain, Teardown, InFn, PhasesFollow, Draining
  <1>3. KeptGrows
    BY <1>1, KeptIsTheSame
  <1>4. SeatTypes'
    BY <1>1, <1>2 DEF SeatTypes, Phases
  <1>5. PhasesFollow'
    BY <1>1, <1>2 DEF PhasesFollow
  <1>6. PhaseGoesOn /\ FnsGoOn
    BY <1>1, <1>2 DEF PhaseGoesOn, FnsGoOn
  <1>7. SeenIsTold'
    BY <1>1, <1>2 DEF SeenIsTold, PhasesFollow
  <1> QED
    BY <1>1, <1>3, <1>4, <1>5, <1>6, <1>7, SeatsStayInductive

LEMMA CloseBodyIsSound ==
  ASSUME SeatsInductive, CloseBody
  PROVE  SeatsInductive'
  <1>1. /\ SeatTypes /\ PhasesFollow /\ FailuresRise /\ SeenIsTold
        /\ phase = "finish" /\ running = 0 /\ fns["body"] = <<>> /\ closed' = TRUE
        /\ UNCHANGED <<switch, fns, running, fatal, inner, result, other, made, ran>>
    BY DEF SeatsInductive, CloseBody, InFn
  <1>2. \/ /\ inner # "none" /\ phase' = "first" /\ ending' \in {"skipped", "raised"}
           /\ UNCHANGED <<kept, count, seen>>
        \/ inner = "none" /\ phase' = "test" /\ UNCHANGED <<kept, count, seen, ending>>
        \/ /\ inner = "none" /\ count' = count + 1 /\ seen' = seen \cup {count'}
           /\ \/ /\ phase' = "test" /\ ending' = ending
                 /\ kept' = [kept EXCEPT !["first"] = Append(@, count')]
              \/ phase' = "first" /\ ending' = "raised" /\ kept' = kept
    BY DEF CloseBody
  <1>3. /\ KeptGrows
        /\ \/ seen' = seen \/ Collected'
           \/ phase' = "first" /\ ending' = "raised"
    <2>1. CASE /\ kept' = kept /\ (count' = count \/ count' = count + 1)
               /\ seen' = seen \/ (phase' = "first" /\ ending' = "raised")
      BY <1>1, <2>1, KeptIsTheSame
    <2>2. CASE count' = count + 1 /\ kept' = [kept EXCEPT !["first"] = Append(@, count')]
      <3>1. PICK s \in SeatIds : s = "first" /\ s \in Collectors
        BY DEF SeatIds, Collectors
      <3> QED
        BY <1>1, <2>2, <3>1, KeptIsAppended
    <2> QED
      BY <1>2, <2>1, <2>2
  <1>4. SeatTypes'
    <2>1. count \in Nat /\ seen \in SUBSET Nat
      BY <1>1 DEF SeatTypes
    <2>2. /\ count' = count \/ count' = count + 1
          /\ seen' = seen \/ seen' = seen \cup {count'}
      BY <1>2
    <2>3. count' \in Nat
      BY <2>1, <2>2
    <2>4. seen' \in SUBSET Nat
      BY <2>1, <2>2, <2>3
    <2> QED
      BY <1>1, <1>2, <1>3, <2>3, <2>4 DEF SeatTypes, Phases, KeptGrows
  <1>5. PhasesFollow'
    BY <1>1, <1>2 DEF PhasesFollow
  <1>6. PhaseGoesOn /\ FnsGoOn
    BY <1>1, <1>2 DEF PhaseGoesOn, FnsGoOn
  <1>7. SeenIsTold'
    BY <1>1, <1>2, <1>3 DEF SeenIsTold, PhasesFollow, KeptGrows, Collected
  <1> QED
    BY <1>1, <1>3, <1>4, <1>5, <1>6, <1>7, SeatsStayInductive

LEMMA FlushIsSound ==
  ASSUME SeatsInductive, Flush
  PROVE  SeatsInductive'
  <1> DEFINE c == IF kept["first"] # <<>> THEN "first" ELSE "second"
  <1>1. /\ SeatTypes /\ PhasesFollow /\ FnsOrdered /\ FailuresRise /\ SeenIsTold
        /\ phase = "flush" /\ phase' = "recorder"
        /\ UNCHANGED <<switch, fns, running, closed, fatal, inner, ending, count, other, made,
                       ran, seen>>
    BY DEF SeatsInductive, FnsOrdered, Flush
  <1>2. PICK x \in Collectors : x = c
    BY DEF Collectors
  <1>3. /\ x \in SeatIds /\ kept[x] \in Seq(Nat)
        /\ kept[x] = <<>> => ~ Collected
    BY <1>1, <1>2 DEF Collectors, SeatIds, SeatTypes, Collected
  <1>4. \/ /\ ending # "returned" /\ kept' = kept
           /\ result' = [verdict |-> IF ending = "raised" THEN "failed" ELSE "skipped",
                         failures |-> <<>>]
        \/ /\ ending = "returned" /\ kept[x] = <<>> /\ kept' = kept
           /\ result' = [verdict |-> "passed", failures |-> <<>>]
        \/ /\ ending = "returned" /\ kept[x] # <<>> /\ kept' = [kept EXCEPT ![x] = <<>>]
           /\ result' = [verdict |-> "failed", failures |-> kept[x]]
    BY <1>2 DEF Flush
  <1> HIDE DEF c
  <1>5. Rises(<<>>, count) /\ <<>> \in Seq(Nat)
    BY DEF Rises
  <1>6. /\ result' \in [verdict : {"none", "passed", "failed", "skipped"}, failures : Seq(Nat)]
        /\ result'.verdict # "none" /\ Rises(result'.failures, count)
        /\ result'.verdict = "passed" => ending = "returned" /\ ~ Collected
        /\ result'.verdict = "failed" => ending = "raised" \/ result'.failures # <<>>
    <2>1. Rises(kept[x], count)
      BY <1>1, <1>3 DEF FailuresRise
    <2>2. CASE ending # "returned"
      <3>1. PICK v \in {"failed", "skipped"} :
              /\ v = "failed" => ending = "raised"
              /\ result' = [verdict |-> v, failures |-> <<>>]
        BY <1>4, <2>2
      <3> QED
        BY <1>5, <3>1
    <2>3. CASE ending = "returned" /\ kept[x] = <<>>
      <3>1. result' = [verdict |-> "passed", failures |-> <<>>]
        BY <1>4, <2>3
      <3>2. result' \in [verdict : {"none", "passed", "failed", "skipped"}, failures : Seq(Nat)]
        BY <1>5, <3>1
      <3> QED
        BY <1>3, <1>5, <2>3, <3>1, <3>2
    <2>4. CASE ending = "returned" /\ kept[x] # <<>>
      BY <1>3, <1>4, <2>1, <2>4
    <2> QED
      BY <2>2, <2>3, <2>4
  <1>7. /\ kept' \in [SeatIds -> Seq(Nat)]
        /\ \A s \in SeatIds : kept'[s] = kept[s] \/ kept'[s] = <<>>
    <2>1. kept \in [SeatIds -> Seq(Nat)]
      BY <1>1 DEF SeatTypes
    <2>2. kept' = kept \/ kept' = [kept EXCEPT ![x] = <<>>]
      BY <1>4
    <2> QED
      BY <1>3, <1>5, <2>1, <2>2
  <1>8. SeatTypes'
    BY <1>1, <1>6, <1>7 DEF SeatTypes, Phases
  <1>9. PhasesFollow'
    BY <1>1, <1>6 DEF PhasesFollow, Draining
  <1>10. PhaseGoesOn /\ FnsGoOn
    BY <1>1 DEF PhaseGoesOn, FnsGoOn
  <1>11. FnsOrdered'
    BY <1>1, <1>8, <1>10, FnsKeepTheirOrder, SeatsGoOnWithThePhase
  <1>12. FailuresRise'
    BY <1>1, <1>5, <1>6, <1>7 DEF FailuresRise
  <1>13. SeenIsTold'
    BY <1>1, <1>6 DEF SeenIsTold, PhasesFollow, Collected
  <1> QED
    BY <1>8, <1>9, <1>11, <1>12, <1>13 DEF SeatsInductive, FnsOrdered

LEMMA SeatsInitIsSound == SeatsInit => SeatsInductive
  <1> SUFFICES ASSUME SeatsInit PROVE SeatsInductive
    OBVIOUS
  <1>1. made = <<>> /\ ran = <<>> /\ DOMAIN made = {} /\ DOMAIN ran = {}
    BY DEF SeatsInit
  <1>2. \A s \in SeatIds : /\ fns[s] = <<>> /\ kept[s] = <<>>
                           /\ DOMAIN fns[s] = {} /\ DOMAIN kept[s] = {}
    BY DEF SeatsInit
  <1>3. SeatTypes
    <2>1. fns \in [SeatIds -> Seq(Nat)] /\ kept \in [SeatIds -> Seq(Nat)]
      BY DEF SeatsInit
    <2>2. result \in [verdict : {"none", "passed", "failed", "skipped"}, failures : Seq(Nat)]
      BY DEF SeatsInit
    <2>3. made \in Seq(Fns) /\ ran \in Seq(Nat) /\ seen \in SUBSET Nat
      BY DEF SeatsInit
    <2> QED
      BY <2>1, <2>2, <2>3 DEF SeatsInit, SeatTypes, Phases
  <1>4. PhasesFollow
    BY DEF SeatsInit, PhasesFollow, SeatIds
  <1>5. FnsOrdered
    BY <1>1, <1>2
       DEF FnsOrdered, StacksRise, FnsHaveAPlace, LaterRunFirst, SeatsInTurn
  <1>6. FailuresRise
    BY <1>2 DEF FailuresRise, Rises, SeatsInit
  <1>7. SeenIsTold
    BY DEF SeatsInit, SeenIsTold
  <1> QED
    BY <1>3, <1>4, <1>5, <1>6, <1>7 DEF SeatsInductive, FnsOrdered

\* In every state that the seats reach, a cleanup waits, runs or ran, in the order
\* of its seat, and no failure that the result of the test owes is forgotten (Cleanups,
\* Collector.record, Collector.flush, the hook of the plugin).
THEOREM SeatsInvariantHolds == SeatsSpec => []SeatsInductive
  <1>1. SeatsInit => SeatsInductive
    BY SeatsInitIsSound
  <1>2. SeatsInductive /\ [SeatsNext]_seatVars => SeatsInductive'
    <2> SUFFICES ASSUME SeatsInductive, [SeatsNext]_seatVars PROVE SeatsInductive'
      OBVIOUS
    <2>1. ASSUME NEW s \in SeatIds, NEW m \in CallModes, NEW v \in Verdicts,
                 CallOnMain(s, m, v) \/ CallOnOther(s, m, v)
          PROVE  SeatsInductive'
      BY <2>1, CallOnMainIsSound, CallOnOtherIsSound
    <2>2. ASSUME NEW s \in SeatIds, Register(s) PROVE SeatsInductive'
      BY <2>2, RegisterIsSound
    <2>3. CASE EnterBody \/ LeaveBody \/ LeaveTest \/ EndDrain \/ Teardown
      BY <2>3, PhaseStepsAreSound
    <2>4. CASE NextFn
      BY <2>4, NextFnIsSound
    <2>5. CASE EndFn
      BY <2>5, EndFnIsSound
    <2>6. CASE CloseBody
      BY <2>6, CloseBodyIsSound
    <2>7. CASE Flush
      BY <2>7, FlushIsSound
    <2>8. CASE UNCHANGED seatVars
      <3>1. UNCHANGED <<switch, phase, fns, running, closed, kept, fatal, inner, ending, result,
                        count, other, made, ran, seen>>
        BY <2>8 DEF seatVars
      <3>2. /\ SeatTypes /\ PhasesFollow /\ FailuresRise /\ SeenIsTold
            /\ result' = result
        BY <3>1 DEF SeatsInductive
      <3>3. SeatTypes' /\ PhaseGoesOn /\ FnsGoOn
        BY <3>1, <3>2 DEF SeatTypes, PhaseGoesOn, FnsGoOn
      <3>4. PhasesFollow' /\ SeenIsTold'
        BY <3>1, <3>2 DEF PhasesFollow, Draining, Drained, SeenIsTold
      <3>5. KeptGrows
        BY <3>1, <3>2, KeptIsTheSame
      <3> QED
        BY <3>2, <3>3, <3>4, <3>5, SeatsStayInductive
    <2> QED
      BY <2>1, <2>2, <2>3, <2>4, <2>5, <2>6, <2>7, <2>8 DEF SeatsNext
  <1> QED
    BY <1>1, <1>2, PTL DEF SeatsSpec

\* How often a cleanup ran.
LEMMA TimesAreCounted ==
  ASSUME SeatTypes, FnsHaveAPlace, NEW f \in DOMAIN made
  PROVE  /\ Times(f) <= 1
         /\ Times(f) = 1 <=> HasRun(f)
  <1> DEFINE S == {i \in DOMAIN ran : ran[i] = f}
  <1>1. CASE HasRun(f)
    <2>1. PICK i \in DOMAIN ran : ran[i] = f
      BY <1>1 DEF HasRun
    <2>2. S = {i}
      BY <2>1 DEF FnsHaveAPlace
    <2> QED
      BY <1>1, <2>2, FS_Singleton DEF Times
  <1>2. CASE ~ HasRun(f)
    <2>1. S = {}
      BY <1>2 DEF HasRun
    <2> QED
      BY <1>2, <2>1, FS_EmptySet DEF Times
  <1> QED
    BY <1>1, <1>2

\* A cleanup runs at most once, the last one of a seat first, and once the test is
\* done each one ran that came in time; a test that passes had no failure that its report
\* owes, and a flush reports the failures in their order.
THEOREM SeatsDoTheirWork == SeatsSpec => []SeatsKeepTheirWord
  <1>1. SeatsInductive => SeatsKeepTheirWord
    <2> SUFFICES ASSUME SeatsInductive PROVE SeatsKeepTheirWord
      OBVIOUS
    <2>1. /\ SeatTypes /\ PhasesFollow /\ FnsHaveAPlace /\ LaterRunFirst /\ SeatsInTurn
          /\ FailuresRise /\ SeenIsTold
      BY DEF SeatsInductive
    <2>2. \A f \in DOMAIN made : /\ Times(f) <= 1
                                 /\ Times(f) = 1 <=> HasRun(f)
      BY <2>1, TimesAreCounted
    <2>3. ASSUME phase = "done", NEW f \in DOMAIN made,
                 ~ made[f].over \/ made[f].seat = "body"
          PROVE  HasRun(f)
      <3>1. running = 0 /\ 0 \notin DOMAIN made /\ fns["body"] = <<>>
        BY <2>1, <2>3, MadeIsKnown DEF PhasesFollow, Draining
      <3>2. ~ InStack(f)
        <4>1. CASE made[f].seat = "body"
          BY <3>1, <4>1 DEF InStack
        <4>2. CASE made[f].seat # "body"
          <5>1. made[f].seat \in {"first", "second", "recorder"}
            BY <2>1, <4>2, MadeIsKnown DEF Collects, SeatIds
          <5>2. Turns
            BY <2>1, SeatsTurns DEF SeatTypes
          <5>3. IsOver(made[f].seat)
            BY <2>3, <5>1, <5>2 DEF Turns
          <5> QED
            BY <2>1, <2>3, <4>2, <5>3 DEF SeatsInTurn
        <4> QED
          BY <4>1, <4>2
      <3> QED
        BY <2>1, <3>1, <3>2 DEF FnsHaveAPlace
    <2>4. CleanupsRun
      BY <2>1, <2>2, <2>3 DEF CleanupsRun, LaterRunFirst
    <2>5. TestTellsFailures
      <3>1. result.failures \in Seq(Nat)
        BY <2>1 DEF SeatTypes
      <3>2. \A i \in 2 .. Len(result.failures) :
              /\ i \in DOMAIN result.failures /\ i - 1 \in DOMAIN result.failures
              /\ i - 1 < i
        BY <3>1
      <3> QED
        BY <2>1, <3>2 DEF TestTellsFailures, FailuresRise, Rises, SeenIsTold
    <2> QED
      BY <2>4, <2>5 DEF SeatsKeepTheirWord
  <1> QED
    BY <1>1, SeatsInvariantHolds, PTL
=============================================================================
