------------------------------- MODULE Property -------------------------------
(***************************************************************************)
(* The calls of properties and their store (_prop/property.py, fuzz.py,    *)
(* directory.py, stored.py, environment.py, engine/store.py).              *)
(*                                                                         *)
(* Processes run one test over a directory.  The test calls properties,    *)
(* each of which claims its contract, loads the directory, runs, writes    *)
(* its failures and reports.  A process may die at any step.  The code     *)
(* that is tested, and the generators, may be others in each process.      *)
(* The second part is about the wrapper of a case in one call.             *)
(***************************************************************************)
EXTENDS Naturals, Sequences, SequencesExt, FiniteSets

CONSTANTS Processes, Contracts, Cases,
          Environments, \* what a process may run in
          MaxCalls     \* the bound of the calls of all processes

\* Whether the run is a mutation run, which cases fail, and the generators of the process.
AnyEnvironment == [mutated : BOOLEAN, fails : SUBSET Cases, generators : {"old", "new"}]

ASSUME EnvironmentsAssumption == Environments \subseteq AnyEnvironment

VARIABLES files,       \* the state of each file of the directory
          pc, env,     \* of each process: its step, and what it runs in
          claims,      \* of each process: _CLAIMS
          call,        \* of each process: its call
          listed,      \* the files that the call listed, with what they were
          loaded,      \* the entries of the call, and the files that it skips
          pending,     \* the failures that the call has yet to write
          notes,       \* the faults that the call notes
          verdict, reported,
          calls        \* the calls so far

propertyVars == <<files, pc, env, claims, call, listed, loaded, pending, notes, verdict,
                  reported, calls>>

\* The name of an entry is a hash of its contract and its minimal case (store.name).
Names == (Contracts \X Cases) \cup {<<"other tool", "file">>}

\* The entries of the values of some generators.  A file may also be missing ("none"),
\* created and not written to its end ("partial"), of a later format ("later"), or anything
\* else ("broken").
Entries == {"entry of old", "entry of new"}
EntryFor(generators) == IF generators = "old" THEN "entry of old" ELSE "entry of new"

\* The fields of a call that has not begun, or that nobody reads any more.
Fresh(p) ==
  /\ listed' = [listed EXCEPT ![p] = {}]
  /\ loaded' = [loaded EXCEPT ![p] = [entries |-> {}, skipped |-> {}]]
  /\ pending' = [pending EXCEPT ![p] = <<>>]
  /\ notes' = [notes EXCEPT ![p] = {}] /\ reported' = [reported EXCEPT ![p] = {}]

NoCall == [kind |-> "none", contract |-> "none", mode |-> "none", store |-> FALSE]

NoEnv == [mutated |-> FALSE, fails |-> {}, generators |-> "new"]

PropertyInit ==
  /\ files = [n \in Names |-> "none"]
  /\ pc = [p \in Processes |-> "idle"]
  /\ env = [p \in Processes |-> NoEnv]
  /\ claims = [p \in Processes |-> {}]
  /\ call = [p \in Processes |-> NoCall]
  /\ listed = [p \in Processes |-> {}]
  /\ loaded = [p \in Processes |-> [entries |-> {}, skipped |-> {}]]
  /\ pending = [p \in Processes |-> <<>>]
  /\ notes = [p \in Processes |-> {}]
  /\ verdict = [p \in Processes |-> "none"]
  /\ reported = [p \in Processes |-> {}]
  /\ calls = 0

\* A process starts its test.  A mutation run sets `mutated'.
StartTest(p) ==
  /\ pc[p] = "idle" /\ calls < MaxCalls
  /\ pc' = [pc EXCEPT ![p] = "test"]
  /\ \E e \in Environments : env' = [env EXCEPT ![p] = e]
  /\ UNCHANGED <<files, claims, call, listed, loaded, pending, notes, verdict, reported, calls>>

\* The settings that decide the course of a call: the token of the option or of the
\* environment makes it a replay, and the profile campaign, outside mutation runs, a
\* campaign (token_of, budget_of).
ModesOf(p) == {"replay", "run"} \cup (IF env[p].mutated THEN {} ELSE {"campaign"})

\* The call ends; Property.fault ends it with a fault.
Ends(p) == /\ pc' = [pc EXCEPT ![p] = "test"]
             /\ call' = [call EXCEPT ![p] = NoCall]
             /\ verdict' = [verdict EXCEPT ![p] = "none"]
             /\ Fresh(p)

\* The calls of a property: the run of for_all and its forms (run), the replay of the
\* stored cases of fuzz (replay_stored), and the input of a fuzzer (input).  The option of
\* the token and the budget of a campaign are those of a run.
Kinds == {"for_all", "fuzz", "input"}

\* claim: a contract has one property in a test.
Claimed(p, c) == c \in claims[p]

\* Property.run, replay_stored and input up to the claim of the contract.  The
\* input of a fuzzer neither claims nor loads.
BeginCall(p) ==
  /\ pc[p] = "test" /\ calls < MaxCalls
  /\ calls' = calls + 1
  /\ \E kind \in Kinds, c \in Contracts, m \in ModesOf(p), s \in BOOLEAN :
       /\ kind # "for_all" => m = "run"
       /\ IF kind # "input" /\ s /\ Claimed(p, c)
          THEN UNCHANGED <<pc, claims, call>>
          ELSE /\ call' = [call EXCEPT ![p] =
                             [kind |-> kind, contract |-> c, mode |-> m, store |-> s]]
               /\ claims' = [claims EXCEPT ![p] = IF kind # "input" /\ s THEN @ \cup {c} ELSE @]
               /\ pc' = [pc EXCEPT ![p] = IF kind = "input" \/ m = "replay" \/ ~s
                                          THEN "work" ELSE "list"]
  /\ UNCHANGED <<files, env, listed, loaded, pending, notes, verdict, reported>>

\* _files_of: the names of the files, or a fault when the directory cannot be read.
List(p) ==
  /\ pc[p] = "list"
  /\ \/ /\ listed' = [listed EXCEPT ![p] = {<<n, files[n]>> : n \in {m \in Names : files[m] # "none"}}]
        /\ pc' = [pc EXCEPT ![p] = "load"]
        /\ UNCHANGED <<call, loaded, pending, notes, verdict, reported>>
     \/ Ends(p)
  /\ UNCHANGED <<files, env, claims, calls>>

\* MUTANT: a damaged file of the directory is skipped.
SkipsDamaged(n, c) ==
  IF files[n] \notin Entries THEN "skip" ELSE IF n[1] = c THEN "replay" ELSE "other"

\* store.read: the verdict on a file for the property of a contract.  A file that was
\* removed since the list cannot be read.
Verdict(n, c) ==
  IF files[n] = "later" THEN "skip"
  ELSE IF files[n] \notin Entries THEN "damaged"
  ELSE IF n[1] = c THEN "replay" ELSE "other"

\* load: the entries that the call replays, unless a file is damaged.
Load(p) ==
  /\ pc[p] = "load"
  /\ LET with(v) == {n \in {l[1] : l \in listed[p]} : Verdict(n, call[p].contract) = v}
     IN  IF with("damaged") # {}
         THEN Ends(p)
         ELSE /\ loaded' = [loaded EXCEPT ![p] =
                              [entries |-> with("replay"), skipped |-> with("skip")]]
              /\ pc' = [pc EXCEPT ![p] = "work"]
              /\ UNCHANGED <<call, listed, pending, notes, verdict, reported>>
  /\ UNCHANGED <<files, env, claims, calls>>

\* The failures that a conclusion may have: one, and others beside it.
Conclusions(p) == {f \in SUBSET env[p].fails : f # {} /\ IsFiniteSet(f)}

\* _save writes nothing without a store, or in a mutation run.
Writes(p) == call[p].store /\ ~env[p].mutated

StoredFails(p) == {n \in loaded[p].entries : n[2] \in env[p].fails} # {}

\* A run or an input that ends in a counterexample, replayed and shrunk, has its failures
\* to write.  A campaign may conclude more than once, and writes at each.
Conclude(p) ==
  /\ pc[p] = "work" /\ call[p].kind # "fuzz" /\ call[p].mode # "replay"
  /\ \E f \in Conclusions(p) :
       /\ reported' = [reported EXCEPT ![p] = @ \cup f]
       /\ \E order \in SetToSeqs(f) :
            pending' = [pending EXCEPT ![p] = IF Writes(p) THEN order ELSE <<>>]
  /\ verdict' = [verdict EXCEPT ![p] = "fail"]
  /\ pc' = [pc EXCEPT ![p] = "save"]
  /\ UNCHANGED <<files, env, claims, call, listed, loaded, notes, calls>>

\* A case that is reported as it was found, and never written: the stored case of a fuzz
\* test that fails (run_stored), or the case of a token (_replay_only).
FailAsFound(p) ==
  /\ pc[p] = "work"
  /\ \E x \in env[p].fails :
       /\ \/ call[p].kind = "fuzz" /\ <<call[p].contract, x>> \in loaded[p].entries
          \/ call[p].mode = "replay"
       /\ reported' = [reported EXCEPT ![p] = @ \cup {x}]
  /\ verdict' = [verdict EXCEPT ![p] = "fail"]
  /\ pc' = [pc EXCEPT ![p] = "notes"]
  /\ UNCHANGED <<files, env, claims, call, listed, loaded, pending, notes, calls>>

\* A failure without a case to write: an example of stated values, a replay that differs,
\* too many rejections, no input, or too few cases of a label.
FailUnwritten(p) ==
  /\ pc[p] = "work" /\ call[p].kind # "fuzz"
  /\ verdict' = [verdict EXCEPT ![p] = "fail"]
  /\ pc' = [pc EXCEPT ![p] = "save"]
  /\ UNCHANGED <<files, env, claims, call, listed, loaded, pending, notes, reported, calls>>

\* A case that skips before the first failure ends the call as skipped.  In a fuzz test
\* it is a stored case.
Skip(p) ==
  /\ pc[p] = "work" /\ verdict[p] = "none"
  /\ call[p].kind = "fuzz" => \E n \in loaded[p].entries : n[2] \notin env[p].fails
  /\ verdict' = [verdict EXCEPT ![p] = "skip"]
  /\ pc' = [pc EXCEPT ![p] = "notes"]
  /\ UNCHANGED <<files, env, claims, call, listed, loaded, pending, notes, reported, calls>>

\* A call that passes ran each entry first (_try_known).
Pass(p) ==
  /\ pc[p] = "work" /\ verdict[p] = "none" /\ ~StoredFails(p)
  /\ verdict' = [verdict EXCEPT ![p] = "pass"]
  /\ pc' = [pc EXCEPT ![p] = "notes"]
  /\ UNCHANGED <<files, env, claims, call, listed, loaded, pending, notes, reported, calls>>

Fault(p) ==
  /\ pc[p] = "work"
  /\ Ends(p)
  /\ UNCHANGED <<files, env, claims, calls>>

\* MUTANT: a name that is taken loses the failure that another process writes.
Overwrites(n) == TRUE

\* open("x")
Creates(n) == files[n] = "none"

\* save: it makes the directory and creates the file of the next failure.  A file that
\* exists ends the save quietly; the system may refuse either, which is noted (_save).
Create(p) ==
  /\ pc[p] = "save" /\ pending[p] # <<>>
  /\ LET n == <<call[p].contract, Head(pending[p])>>
     IN  \/ /\ Creates(n)
            /\ files' = [files EXCEPT ![n] = "partial"]
            /\ pc' = [pc EXCEPT ![p] = "write"]
            /\ UNCHANGED <<pending, notes>>
         \/ /\ ~Creates(n)
            /\ pending' = [pending EXCEPT ![p] = Tail(@)]
            /\ UNCHANGED <<files, pc, notes>>
         \/ /\ pending' = [pending EXCEPT ![p] = Tail(@)]
            /\ notes' = [notes EXCEPT ![p] = @ \cup {n}]
            /\ UNCHANGED <<files, pc>>
  /\ UNCHANGED <<env, claims, call, listed, loaded, verdict, reported, calls>>

\* The write and the close of the file.  Either may fail, which leaves the file as far as
\* it was written, and is noted; the call goes on with the next failure.
WriteEntry(p) ==
  /\ pc[p] = "write"
  /\ LET n == <<call[p].contract, Head(pending[p])>>
     IN  \/ /\ files' = [files EXCEPT ![n] = EntryFor(env[p].generators)]
            /\ UNCHANGED notes
         \/ /\ files' \in {files, [files EXCEPT ![n] = EntryFor(env[p].generators)]}
            /\ notes' = [notes EXCEPT ![p] = @ \cup {n}]
  /\ pending' = [pending EXCEPT ![p] = Tail(@)]
  /\ pc' = [pc EXCEPT ![p] = "save"]
  /\ UNCHANGED <<env, claims, call, listed, loaded, verdict, reported, calls>>

\* The next conclusion of a campaign, or the notes of the call.
Saved(p) ==
  /\ pc[p] = "save" /\ pending[p] = <<>>
  /\ \/ call[p].mode = "campaign" /\ pc' = [pc EXCEPT ![p] = "work"]
     \/ pc' = [pc EXCEPT ![p] = "notes"]
  /\ UNCHANGED <<files, env, claims, call, listed, loaded, pending, notes, verdict, reported,
                 calls>>

\* differs: the entry has the values of other generators than those of the process.
ValuesDiffer(p, n) == files[n] # EntryFor(env[p].generators)

\* _store_faults: the files that the call skipped, and the entries that it tested with
\* other values.  A case that fails or skips may end the call before the other entries.
Note(p) ==
  /\ pc[p] = "notes"
  /\ \E replayed \in SUBSET loaded[p].entries :
       /\ verdict[p] = "pass" => replayed = loaded[p].entries
       /\ notes' = [notes EXCEPT ![p] =
                      @ \cup loaded[p].skipped \cup {n \in replayed : ValuesDiffer(p, n)}]
  /\ pc' = [pc EXCEPT ![p] = "reported"]
  /\ UNCHANGED <<files, env, claims, call, listed, loaded, pending, verdict, reported, calls>>

\* _report: the call ends with its verdict.
Report(p) ==
  /\ pc[p] = "reported"
  /\ Ends(p)
  /\ UNCHANGED <<files, env, claims, calls>>

Leaves(p) ==
  /\ pc' = [pc EXCEPT ![p] = "idle"] /\ claims' = [claims EXCEPT ![p] = {}]
  /\ call' = [call EXCEPT ![p] = NoCall] /\ env' = [env EXCEPT ![p] = NoEnv]
  /\ verdict' = [verdict EXCEPT ![p] = "none"]
  /\ Fresh(p)

\* The seat of the test releases the claims.
EndTest(p) ==
  /\ pc[p] = "test"
  /\ Leaves(p)
  /\ UNCHANGED <<files, calls>>

\* The process dies, at any step, and what it holds is lost.
Crash(p) ==
  /\ pc[p] # "idle"
  /\ Leaves(p)
  /\ UNCHANGED <<files, calls>>

\* Another tool puts a file into the directory, or a person removes one that is damaged
\* while no call of a property is under way.
Meddle ==
  /\ \E n \in Names :
       \/ /\ n[1] = "other tool" /\ files[n] = "none"
          /\ \E content \in {"later", "broken", "entry of new"} : files' = [files EXCEPT ![n] = content]
       \/ /\ files[n] \in {"partial", "broken"} /\ \A p \in Processes : pc[p] \in {"idle", "test"}
          /\ files' = [files EXCEPT ![n] = "none"]
  /\ UNCHANGED <<pc, env, claims, call, listed, loaded, pending, notes, verdict, reported, calls>>

PropertyNext ==
  \/ \E p \in Processes :
       \/ StartTest(p) \/ BeginCall(p) \/ List(p) \/ Load(p) \/ Conclude(p) \/ FailAsFound(p)
       \/ FailUnwritten(p) \/ Skip(p) \/ Pass(p) \/ Fault(p) \/ Create(p) \/ WriteEntry(p)
       \/ Saved(p) \/ Note(p) \/ Report(p) \/ EndTest(p) \/ Crash(p)
  \/ Meddle

PropertySpec == PropertyInit /\ [][PropertyNext]_propertyVars

-----------------------------------------------------------------------------
(* Properties *)

Over(p) == pc[p] = "reported"
Loads(p) == call[p].kind \in {"for_all", "fuzz"} /\ call[p].store /\ call[p].mode # "replay"

\* A property does not pass over a case that an earlier run, also of another process,
\* wrote whole before it listed its directory and that fails still; nor over a file that
\* a crash or a failed write left without its end.
FailuresReturn ==
  \A p \in Processes : Over(p) /\ Loads(p) /\ verdict[p] = "pass" =>
    \A l \in listed[p] : /\ l[2] \in Entries /\ l[1][1] = call[p].contract
                              => l[1][2] \notin env[p].fails
                         /\ l[2] # "partial" \/ files[l[1]] # "partial"

\* A property that reports failures leaves a file of each, whole or not yet written to its
\* end by some process, or notes that it could not; unless the process is of a mutation
\* run, or the failure is that of a token.
FailuresAreKept ==
  \A p \in Processes : Over(p) /\ Writes(p) /\ call[p].mode # "replay" =>
    \A x \in reported[p] :
      files[<<call[p].contract, x>>] # "none" \/ <<call[p].contract, x>> \in notes[p]

\* A verdict comes with a note of each file that the call skipped, and one that passes
\* with a note of each entry that it tested with other values.
NotesAreTold ==
  \A p \in Processes : Over(p) /\ Loads(p) =>
    \A l \in listed[p] :
      \/ l[2] = "later"
      \/ /\ verdict[p] = "pass" /\ l[1] \in loaded[p].entries
         /\ l[2] \in Entries \ {EntryFor(env[p].generators)}
      => l[1] \in notes[p]

StoreKeepsFailures == FailuresReturn /\ FailuresAreKept /\ NotesAreTold

\* A failure that was written returns until it is mended, and no call rewrites an entry
\* of the store.
StoreIsKept ==
  [][/\ StoreKeepsFailures'
     /\ \A n \in DOMAIN files : files[n] \in Entries => files'[n] = files[n]]_propertyVars

-----------------------------------------------------------------------------
(***************************************************************************)
(* The wrapper of the option around and the one case that it may run       *)
(* (_Run and _wrapped of _prop/property.py).                               *)
(*                                                                         *)
(* The wrapper calls run on its own thread and gives it to others, which   *)
(* may outlive it.  A call takes the lock of the run once; the case and    *)
(* the end of the call are steps without it.                               *)
(***************************************************************************)
CONSTANTS Others,      \* the threads that the wrapper gives run to
          MaxRunCalls  \* the bound of the calls of run of a thread

VARIABLES counted, started, shut, done, caseEnd,      \* the fields of the run
          caller,      \* the thread that is inside the case, or NoThread
          tried,        \* the calls of run that each thread made
          wrapper,     \* the wrapper and the rest of _wrapped
          outcome,     \* how the case ended for the property
          began        \* how often the case began

aroundVars == <<counted, started, shut, done, caseEnd, caller, tried, wrapper, outcome, began>>

Main == "main"
NoThread == "none"
Threads == Others \cup {Main}
Endings == {"returned", "failed"}

AroundInit ==
  /\ counted = 0 /\ started = FALSE /\ shut = FALSE /\ done = FALSE /\ caseEnd = "none"
  /\ caller = NoThread /\ tried = [t \in Threads |-> 0]
  /\ wrapper = "runs" /\ outcome = "none" /\ began = 0

\* MUTANT: only the calls before this one are looked at, not the close.
RunsAfterClose == counted = 0

\* The call runs the case: the first one, while the wrapper has not returned.
Runs == counted = 0 /\ ~shut

\* __call__ up to the case, with the lock.  A call inside the case counts too.
CallRun(t) ==
  /\ tried[t] < MaxRunCalls
  /\ t = Main => wrapper = "runs"
  /\ counted' = counted + 1 /\ tried' = [tried EXCEPT ![t] = @ + 1]
  /\ IF Runs
     THEN started' = TRUE /\ caller' = t /\ began' = began + 1
     ELSE UNCHANGED <<started, caller, began>>
  /\ UNCHANGED <<shut, done, caseEnd, wrapper, outcome>>

\* The case ends; what it raised is kept, and the call returns to the wrapper.
EndCase ==
  /\ caller # NoThread
  /\ caseEnd' \in Endings /\ done' = TRUE /\ caller' = NoThread
  /\ UNCHANGED <<counted, started, shut, tried, wrapper, outcome, began>>

\* The wrapper returns or raises, once the case is over that its own thread runs.
WrapperEnds ==
  /\ wrapper = "runs" /\ caller # Main
  /\ wrapper' \in {"returned", "raised"}
  /\ UNCHANGED <<counted, started, shut, done, caseEnd, caller, tried, outcome, began>>

\* close: with the lock; then the wait for a case that started.
Close ==
  /\ wrapper \in {"returned", "raised"} /\ ~shut
  /\ shut' = TRUE
  /\ UNCHANGED <<counted, started, done, caseEnd, caller, tried, wrapper, outcome, began>>

\* The rest of _wrapped: a fault, or the ending of the case.
Judge ==
  /\ shut /\ outcome = "none"
  /\ started => done
  /\ outcome' = IF wrapper = "raised" \/ ~started \/ counted > 1 THEN "fault" ELSE caseEnd
  /\ UNCHANGED <<counted, started, shut, done, caseEnd, caller, tried, wrapper, began>>

AroundNext == WrapperEnds \/ EndCase \/ Close \/ Judge \/ \E t \in Threads : CallRun(t)

\* A case runs at most once, none is inside the case after the property went on, and the
\* property sees the ending of a case that ran once in a wrapper that returned.
CaseRunsInItsWrapper ==
  /\ began <= 1
  /\ outcome # "none" => caller = NoThread /\ (outcome # "fault" => began = 1 /\ outcome = caseEnd)

\* Why it does: the counter of the calls and the two flags of the run agree with what its
\* threads did, and a case that started after the wrapper returned has been waited for.
FlagsAgree ==
  /\ counted \in Nat /\ shut \in BOOLEAN /\ started \in BOOLEAN /\ done \in BOOLEAN
  /\ caseEnd \in {"none"} \cup Endings
  /\ began = IF started THEN 1 ELSE 0
  /\ started => counted > 0
  /\ done => started /\ caseEnd \in Endings
  /\ caller # NoThread => started /\ ~done

JudgedLast ==
  /\ outcome # "none" => shut /\ (started => done)
  /\ outcome \notin {"none", "fault"} => started /\ outcome = caseEnd

AroundInductive == FlagsAgree /\ JudgedLast

AroundSpec == AroundInit /\ [][AroundNext]_aroundVars
=============================================================================
