------------------------------- MODULE MCCalls -------------------------------
(***************************************************************************)
(* Instances of the calls of a test: properties and their store in two     *)
(* processes, the wrapper of a case, the records of calls, the seats of a  *)
(* test, the calls that wait, and the trees and golden files of a test.    *)
(* Each runs on its own.                                                   *)
(***************************************************************************)
EXTENDS Property, Records, Seats, Waiting, Files, TLC

VARIABLE use           \* the component that runs

treeVars == <<fileVars, recorded, match>>

\* A case fails with the old generators and with the new ones, is mended, or fails in a
\* mutation run.
Failing == [mutated |-> FALSE, fails |-> Cases, generators |-> "new"]
MCEnvironments == {[Failing EXCEPT !.generators = "old"], Failing, [Failing EXCEPT !.fails = {}],
                   [Failing EXCEPT !.mutated = TRUE]}

\* A test that records, one with late threads, a recorder, and a seat that only observes.
MCModes == {[state |-> "writing", observed |-> FALSE, late |-> TRUE],
            [state |-> "keeping", observed |-> TRUE, late |-> FALSE],
            [state |-> "off", observed |-> TRUE, late |-> FALSE]}

\* The entries that the trees below name.
File(c) == EntryOf("file", c)
Program(c) == [File(c) EXCEPT !.executable = TRUE]
Link(c) == EntryOf("link", c)
Folder(bits) == [Directory EXCEPT !.mode = bits]
ReadOnly(c) == [File(c) EXCEPT !.mode = {"r"}]

\* The second name of a file system that folds names is another one of the first entry.
MCFold(name) == IF name = 4 THEN 3 ELSE name

\* The scrubber forgets what differs between two runs.
MCScrub(c) == IF c = 12 THEN 11 ELSE c

\* An implied directory, modes that stop a write, two paths of one entry, and a file
\* above a file.
MCAsked == {<<3, 5>> :> File(11),
            <<3>> :> Folder({"r", "x"}) @@ <<3, 5>> :> ReadOnly(12) @@ <<5>> :> Link(1),
            <<3>> :> Program(11) @@ <<5>> :> Folder({}),
            <<3>> :> File(11) @@ <<4>> :> File(12),
            <<3>> :> File(11) @@ <<3, 5>> :> File(12)}

\* The entries of the disks below.
Open(name) == Node(name, "directory", 0, Bits)
Plain(name, c) == Node(name, "file", c, {"r", "w"})
LinkAt(name) == Node(name, "link", 1, Bits)

\* Nothing, an empty workspace, a full one, and two that differ from their golden trees.
MCDisks ==
  {<<>>,
   <<1>> :> Open(1),
   <<1>> :> Open(1) @@ <<1, 3>> :> Open(3) @@ <<1, 3, 5>> :> Plain(5, 11) @@ <<1, 5>> :> LinkAt(5),
   <<1>> :> Open(1) @@ <<1, 3>> :> Plain(3, 11)
     @@ <<2>> :> Open(2) @@ <<2, 3>> :> Open(3) @@ <<2, 3, 5>> :> Plain(5, 12),
   <<1>> :> Open(1) @@ <<1, 3>> :> Open(3) @@ <<1, 3, 5>> :> Plain(5, 12)
     @@ <<2>> :> Open(2) @@ <<2, 3>> :> Plain(3, 11) @@ <<2, 5>> :> LinkAt(5)}

\* The code under test writes, makes, removes and locks entries; it makes directories,
\* links and pipes only in a small workspace without a golden tree.
MCChangesOf(d) ==
  LET root == IF <<1>> \in DOMAIN d THEN d ELSE Effect(d, Make(<<1>>, "directory", 0, Bits))
      mine == {p \in DOMAIN d : p[1] = 1}
      news == {p \in {<<1, 3>>, <<1, 3, 5>>, <<1, 5>>} : Enterable(root, p) /\ p \notin DOMAIN root}
      rare == {p \in news : <<2>> \notin DOMAIN d /\ Cardinality(mine) <= 2}
  IN {Effect(d, Fill(q, 12)) : q \in {p \in mine : d[p].kind = "file"}}
     \cup {Effect(root, Make(p, "file", 11, {"r", "w"})) : p \in news}
     \cup {Effect(d, Discard(q)) : q \in mine \ {<<1>>}}
     \cup {Effect(d, Chmod(q, {"r"})) : q \in {p \in mine : d[p].kind # "link"}}
     \cup {Effect(root, Make(p, "directory", 0, bits)) : p \in rare, bits \in {{"r", "x"}, Bits}}
     \cup {Effect(root, Make(p, kind, 1, Bits)) : p \in rare, kind \in {"link", "other"}}

NoRecords == RecordsInit /\ state = "off"
NoSeats   == SeatsInit /\ ~switch
NoWaiting == /\ WaitInit
             /\ given = [assertion |-> "eventually", controlled |-> FALSE, timeout |-> 0,
                         interval |-> 0, before |-> {}]
NoTrees   == disk = <<>> /\ task = Idle /\ tasks = 0 /\ recorded = NoMatch.before /\ match = NoMatch

MCInit ==
  \/ use = "property" /\ PropertyInit /\ AroundInit /\ NoRecords /\ NoSeats /\ NoWaiting /\ NoTrees
  \/ use = "around" /\ AroundInit /\ PropertyInit /\ NoRecords /\ NoSeats /\ NoWaiting /\ NoTrees
  \/ use = "records" /\ RecordsInit /\ PropertyInit /\ AroundInit /\ NoSeats /\ NoWaiting /\ NoTrees
  \/ use = "seats" /\ SeatsInit /\ PropertyInit /\ AroundInit /\ NoRecords /\ NoWaiting /\ NoTrees
  \/ use = "waiting" /\ WaitInit /\ PropertyInit /\ AroundInit /\ NoRecords /\ NoSeats /\ NoTrees
  \/ /\ use \in {"trees", "golden"} /\ GoldenInit
     /\ PropertyInit /\ AroundInit /\ NoRecords /\ NoSeats /\ NoWaiting

MCNext ==
  /\ UNCHANGED use
  /\ \/ use = "property" /\ PropertyNext
        /\ UNCHANGED <<aroundVars, recordVars, seatVars, waitVars, treeVars>>
     \/ use = "around" /\ AroundNext
        /\ UNCHANGED <<propertyVars, recordVars, seatVars, waitVars, treeVars>>
     \/ use = "records" /\ RecordsNext
        /\ UNCHANGED <<propertyVars, aroundVars, seatVars, waitVars, treeVars>>
     \/ use = "seats" /\ SeatsNext
        /\ UNCHANGED <<propertyVars, aroundVars, recordVars, waitVars, treeVars>>
     \/ use = "waiting" /\ WaitNext
        /\ UNCHANGED <<propertyVars, aroundVars, recordVars, seatVars, treeVars>>
     \/ use = "trees" /\ TreesNext
        /\ UNCHANGED <<propertyVars, aroundVars, recordVars, seatVars, waitVars>>
     \/ use = "golden" /\ GoldenNext
        /\ UNCHANGED <<propertyVars, aroundVars, recordVars, seatVars, waitVars>>

MCSpec ==
  MCInit /\ [][MCNext]_<<use, propertyVars, aroundVars, recordVars, seatVars, waitVars, treeVars>>

Symmetry == Permutations(Processes)
=============================================================================
