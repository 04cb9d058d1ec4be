-------------------------------- MODULE Files --------------------------------
(***************************************************************************)
(* Trees of files of a test (files.py, _files): the rules of a tree, the   *)
(* reads of a directory, the differences of two trees, and the writes,     *)
(* each a plan of calls of the operating system of which any may fail.     *)
(*                                                                         *)
(* A name is a number and a path is a tuple of names; 0 is a name that no  *)
(* path may have.  The order of paths is that of their tuples: a directory *)
(* comes before the entries below it.  The disk maps the folded path of    *)
(* each entry to its node: a file system may map two names to one entry.   *)
(* The permission bits are those of the owner.                             *)
(***************************************************************************)
EXTENDS Integers, Sequences, FiniteSetsExt, SequencesExt

CONSTANTS Fold(_),      \* the name under which the file system looks a name up
          Recorded,     \* the bits that the file system records
          Root,         \* the name of the directory of the test
          Asked,        \* the trees that a test writes
          Disks,        \* the entries below Root before a call, by folded path
          FileCalls,        \* the calls of a test: create, overwrite, unchanged
          ChangesOf(_), \* the disks that the code under test makes of a disk
          MaxTasks      \* a bound on the calls and the changes

VARIABLES disk,   \* the file system
          task,   \* the call in progress: its plan, the disk before it, how it ended
          tasks   \* the calls and the changes so far

fileVars == <<disk, task, tasks>>

Bits == {"r", "w", "x"}
NoMode == {"no mode"}

-----------------------------------------------------------------------------
(* Entries and trees *)

EntryOf(kind, content) == [kind |-> kind, content |-> content, executable |-> FALSE, mode |-> NoMode]
Directory == EntryOf("directory", 0)

BitsOf(e) == IF e.mode # NoMode THEN e.mode ELSE IF e.executable THEN {"x"} ELSE {}

Unstated(e) == [e EXCEPT !.executable = e.kind = "file" /\ "x" \in BitsOf(e), !.mode = NoMode]

\* The mode that a write sets.
ModeOf(e) ==
  IF e.mode # NoMode THEN e.mode
  ELSE IF e.kind = "directory" \/ e.executable THEN Bits ELSE {"r", "w"}

ParentsOf(path) == {SubSeq(path, 1, i) : i \in 1 .. Len(path) - 1}

PathLess(p, q) ==
  LET differ == {i \in DOMAIN p \cap DOMAIN q : p[i] # q[i]} IN
  IF differ = {} THEN Len(p) < Len(q) ELSE p[Min(differ)] < q[Min(differ)]
PathsOf(paths) == SetToSortSeq(paths, PathLess)

\* The entries of a tree and the directories that it implies.
Full(tree) ==
  [p \in DOMAIN tree \cup UNION {ParentsOf(q) : q \in DOMAIN tree} |->
     IF p \in DOMAIN tree THEN tree[p] ELSE Directory]

\* A tree keeps the rules of a tree.
Checks(tree) ==
  \A p \in DOMAIN tree :
    /\ p # <<>> /\ 0 \notin Range(p)
    /\ tree[p].kind \in {"file", "directory", "link"}
    /\ \A q \in ParentsOf(p) \cap DOMAIN tree : tree[q].kind = "directory"

\* The bits that a comparison checks when w is wanted.
Compared(w) ==
  IF w.mode # NoMode THEN Recorded ELSE IF w.kind = "file" THEN {"x"} \cap Recorded ELSE {}

Differs(w, g) ==
  \/ w.kind # g.kind
  \/ w.content # g.content
  \/ ((BitsOf(w) \ BitsOf(g)) \cup (BitsOf(g) \ BitsOf(w))) \cap Compared(w) # {}

Differing(want, got, contains) ==
  {p \in DOMAIN Full(want) : p \notin DOMAIN got \/ Differs(Full(want)[p], got[p])}
  \cup {p \in DOMAIN got \ DOMAIN Full(want) : ~contains}

-----------------------------------------------------------------------------
(* The operating system *)

Node(name, kind, content, mode) == [name |-> name, kind |-> kind, content |-> content, mode |-> mode]

Folded(path) == [i \in DOMAIN path |-> Fold(path[i])]
Exists(d, path) == Folded(path) \in DOMAIN d
NodeAt(d, path) == d[Folded(path)]
Below(d, path) == {q \in DOMAIN d : Folded(path) \in ParentsOf(q)}

\* The entry of a path can be looked up, and the entries of its directory changed.
Searchable(d, path) ==
  \A q \in ParentsOf(Folded(path)) : q \in DOMAIN d /\ d[q].kind = "directory" /\ "x" \in d[q].mode
Enterable(d, path) ==
  Searchable(d, path) /\ (Len(path) > 1 => {"w", "x"} \subseteq d[Front(Folded(path))].mode)

\* Every directory at and below a path lets its owner list and empty it.
Removable(d, path) ==
  \A q \in {Folded(path)} \cup Below(d, path) :
    d[q].kind = "directory" => "r" \in d[q].mode /\ (Below(d, q) # {} => {"w", "x"} \subseteq d[q].mode)

Op(do, at, node) == [do |-> do, at |-> at, node |-> node]
Chmod(at, mode) == Op("chmod", at, Node(Last(at), "any", 0, mode))
Discard(at) == Op("remove", at, Node(Last(at), "any", 0, {}))
Make(at, kind, content, mode) == Op("make", at, Node(Last(at), kind, content, mode))
Fill(at, content) == Op("fill", at, Node(Last(at), "file", content, {}))

\* A call of the system does what it is asked to.
Succeeds(d, o) ==
  CASE o.do = "make"   -> Enterable(d, o.at) /\ ~Exists(d, o.at)
    [] o.do = "fill"   -> Searchable(d, o.at) /\ Exists(d, o.at) /\ "w" \in NodeAt(d, o.at).mode
    [] o.do = "chmod"  -> Searchable(d, o.at) /\ Exists(d, o.at)
    [] o.do = "remove" -> Exists(d, o.at) => Enterable(d, o.at) /\ Removable(d, o.at)

Effect(d, o) ==
  LET at == Folded(o.at) IN
  CASE o.do = "make"   -> [p \in DOMAIN d \cup {at} |-> IF p = at THEN o.node ELSE d[p]]
    [] o.do = "fill"   -> [d EXCEPT ![at].content = o.node.content]
    [] o.do = "chmod"  -> [d EXCEPT ![at].mode = o.node.mode]
    [] o.do = "remove" -> [p \in DOMAIN d \ ({at} \cup Below(d, at)) |-> d[p]]

-----------------------------------------------------------------------------
(* Reads *)

\* The path of an entry by the names that it was created with.
Named(d, q) == [i \in DOMAIN q |-> d[SubSeq(q, 1, i)].name]

\* Every entry below a directory can be read.
Readable(d, root) ==
  /\ Exists(d, root) /\ NodeAt(d, root).kind = "directory"
  /\ \A q \in {Folded(root)} \cup Below(d, root) :
       /\ d[q].kind \in {"file", "directory", "link"}
       /\ d[q].kind = "file" => "r" \in d[q].mode
       /\ d[q].kind = "directory" => "r" \in d[q].mode /\ (Below(d, q) # {} => "x" \in d[q].mode)

EntryRead(node, modes) ==
  LET e == EntryOf(node.kind, node.content) IN
  IF node.kind = "link" THEN e
  ELSE LET bits == [e EXCEPT !.mode = node.mode \cap Recorded] IN
       IF modes /\ Recorded # {} THEN bits ELSE Unstated(bits)

ReadTree(d, root, modes) ==
  [p \in {SubSeq(Named(d, q), Len(root) + 1, Len(q)) : q \in Below(d, root)} |->
     EntryRead(NodeAt(d, root \o p), modes)]

\* The assertions about the entry at one path that pass.  A call that cannot read it
\* ends with a fault.
HoldAt(d, path) ==
  IF ~Exists(d, path) THEN {<<"absent", 0>>}
  ELSE LET e == EntryRead(NodeAt(d, path), TRUE) IN
       {<<"is", e.kind>>}
       \cup {<<"links to", e.content>> : link \in {"link"} \cap {e.kind}}
       \cup {<<"has the content", e.content>> : file \in {"file"} \cap {e.kind}}
       \cup {<<"has the mode", e.mode>> : kind \in {"file", "directory"} \cap {e.kind}}

\* The assertions that a wanted entry asks of its path.
Wanted(e) ==
  LET mode == <<"has the mode", ModeOf(e) \cap Recorded>> IN
  CASE e.kind = "link"      -> {<<"is", "link">>, <<"links to", e.content>>}
    [] e.kind = "directory" -> {<<"is", "directory">>, mode}
    [] OTHER                -> {<<"is", "file">>, <<"has the content", e.content>>, mode}

\* The verdict of a comparison of a whole directory.
Comparison(d, root, want, contains) ==
  IF ~Readable(d, root) THEN "fault"
  ELSE IF Differing(want, ReadTree(d, root, TRUE), contains) = {} THEN "done" ELSE "failed"

\* The same with a tree of the test, which may break a rule.
Compare(d, root, want, contains) ==
  IF Checks(want) THEN Comparison(d, root, want, contains) ELSE "fault"

-----------------------------------------------------------------------------
(* Plans of the writes *)

CreateEntry(at, e) ==
  CASE e.kind = "directory" -> <<Make(at, "directory", 0, Bits)>>
    [] e.kind = "link"      -> <<Make(at, "link", e.content, Bits)>>
    [] OTHER -> <<Make(at, "file", 0, {"r", "w"}), Fill(at, e.content), Chmod(at, ModeOf(e))>>

Replace(at, e) ==
  IF e.kind = "link" THEN <<Discard(at), Make(at, "link", e.content, Bits)>>
  ELSE <<Chmod(at, {"r", "w"}), Fill(at, 0), Fill(at, e.content), Chmod(at, ModeOf(e))>>

\* The modes of directories, the innermost first.
DirectoryModes(root, whole, paths) ==
  LET dirs == SelectSeq(Reverse(PathsOf(paths)), LAMBDA p : whole[p].kind = "directory") IN
  [i \in DOMAIN dirs |-> Chmod(root \o dirs[i], ModeOf(whole[dirs[i]]))]

Each(paths, Ops(_)) == FlattenSeq([i \in DOMAIN PathsOf(paths) |-> Ops(PathsOf(paths)[i])])

\* MUTANT: a directory gets its mode before the entries below it.
CreatingInOrder(root, whole, kept, before) ==
  before \o Each(DOMAIN whole \ kept, LAMBDA p :
    CreateEntry(root \o p, whole[p])
    \o (IF whole[p].kind = "directory" THEN <<Chmod(root \o p, ModeOf(whole[p]))>> ELSE <<>>))

\* The entries that are not kept, in path order, and then the modes of directories.
Creating(root, whole, kept, before) ==
  before \o Each(DOMAIN whole \ kept, LAMBDA p : CreateEntry(root \o p, whole[p]))
  \o DirectoryModes(root, whole, DOMAIN whole \ kept)

\* The paths of a tree that the disk has an entry at.
There(d, root, tree) == {p \in DOMAIN Full(tree) : Exists(d, root \o p)}

\* A directory above a path cannot be searched.
Hidden(d, path) ==
  \E q \in ParentsOf(Folded(path)) \cap DOMAIN d : d[q].kind # "directory" \/ "x" \notin d[q].mode

\* A write over entries refuses a path that it cannot read, whose entry is of another
\* kind, or is the entry of an earlier path.
Refuses(d, root, tree) ==
  \/ \E p \in DOMAIN Full(tree) : Hidden(d, root \o p)
  \/ \E p \in There(d, root, tree) : NodeAt(d, root \o p).kind # Full(tree)[p].kind
  \/ \E p, q \in There(d, root, tree) : p # q /\ Folded(p) = Folded(q)

Overwriting(d, root, tree) ==
  LET whole == Full(tree)
      there == There(d, root, tree)
      leaves == {p \in there : whole[p].kind # "directory"}
  IN Creating(root, whole, there, Each(leaves, LAMBDA p : Replace(root \o p, whole[p])))
     \o DirectoryModes(root, whole, there \cap DOMAIN tree)

\* The entries that differ are removed, and the missing ones are created.
Updating(d, root, tree) ==
  LET current == ReadTree(d, root, FALSE)
      wanted  == [p \in DOMAIN Full(tree) |-> Unstated(Full(tree)[p])]
      kept    == {p \in DOMAIN current \cap DOMAIN wanted : ~Differs(wanted[p], current[p])}
      gone    == Reverse(PathsOf(DOMAIN current \ kept))
  IN Creating(root, wanted, kept, [i \in DOMAIN gone |-> Discard(root \o gone[i])])

\* The owner may remove every entry below a directory, and then it is removed.
Unlocking(d, root) ==
  Each({Named(d, q) : q \in {Folded(root)} \cup {r \in Below(d, root) : d[r].kind \in {"directory", "file"}}},
       LAMBDA p : <<Chmod(p, NodeAt(d, p).mode \cup (IF NodeAt(d, p).kind = "directory" THEN Bits ELSE {"w"}))>>)
  \o <<Discard(root)>>

-----------------------------------------------------------------------------
(* The calls *)

Idle == [is |-> "none", tree |-> <<>>, plan |-> <<>>, before |-> <<>>, end |-> "none"]
Dir == <<Root>>

\* The call has begun with its plan.
Begun(what, tree, d, plan) ==
  task' = [is |-> what, tree |-> tree, plan |-> plan, before |-> d, end |-> "running"]
Faulted(what, tree) ==
  task' = [is |-> what, tree |-> tree, plan |-> <<>>, before |-> disk, end |-> "fault"]
Counted == tasks < MaxTasks /\ tasks' = tasks + 1
MayCall(what) == what \in FileCalls /\ task.end # "running" /\ Counted

FilesInit == disk \in Disks /\ task = Idle /\ tasks = 0

\* A new directory of the test, and its tree.
Workspace(tree) ==
  /\ MayCall("create") /\ ~Exists(disk, Dir)
  /\ disk' = Effect(disk, Make(Dir, "directory", 0, Bits))
  /\ IF Checks(tree) THEN Begun("create", tree, disk', Creating(Dir, Full(tree), {}, <<>>))
     ELSE task' = [Idle EXCEPT !.is = "create", !.tree = tree, !.before = disk', !.end = "fault"]

Write(tree) ==
  /\ MayCall("overwrite") /\ Exists(disk, Dir)
  /\ UNCHANGED disk
  /\ IF Checks(tree) /\ "r" \in NodeAt(disk, Dir).mode /\ ~Refuses(disk, Dir, tree)
     THEN Begun("overwrite", tree, disk, Overwriting(disk, Dir, tree))
     ELSE Faulted("overwrite", tree)

\* The next call of the system, which may fail.
RunOp ==
  /\ task.end = "running" /\ task.plan # <<>>
  /\ IF Succeeds(disk, Head(task.plan))
     THEN disk' = Effect(disk, Head(task.plan)) /\ task' = [task EXCEPT !.plan = Tail(@)]
     ELSE UNCHANGED disk /\ task' = [task EXCEPT !.end = "fault"]
  /\ UNCHANGED tasks

\* The disk is full, or the process ends, in the middle of a write.
StopOp ==
  /\ task.end = "running" /\ task.plan # <<>> /\ task.is # "remove"
  /\ task' = [task EXCEPT !.end = "stopped"]
  /\ UNCHANGED <<disk, tasks>>

EndCall ==
  /\ task.end = "running" /\ task.plan = <<>> /\ task.is # "unchanged"
  /\ task' = [task EXCEPT !.end = "done"]
  /\ UNCHANGED <<disk, tasks>>

\* The cleanup of the workspace.
CleanUp ==
  /\ MayCall("create") /\ Exists(disk, Dir)
  /\ Begun("remove", <<>>, disk, Unlocking(disk, Dir))
  /\ UNCHANGED disk

\* The code under test runs between the calls, and in the call of unchanged.
Change ==
  /\ task.end # "running" \/ task.is = "unchanged"
  /\ Counted
  /\ disk' \in ChangesOf(disk)
  /\ task' = IF task.end = "running" THEN task ELSE Idle

BeginUnchanged ==
  /\ MayCall("unchanged") /\ Readable(disk, Dir)
  /\ Begun("unchanged", <<>>, disk, <<>>)
  /\ UNCHANGED disk

EndUnchanged ==
  /\ task.is = "unchanged" /\ task.end = "running"
  /\ task' = [task EXCEPT !.end = Comparison(disk, Dir, ReadTree(task.before, Dir, TRUE), FALSE)]
  /\ UNCHANGED <<disk, tasks>>

FilesNext ==
  \/ \E tree \in Asked : Workspace(tree) \/ Write(tree)
  \/ RunOp \/ StopOp \/ EndCall \/ CleanUp \/ Change \/ BeginUnchanged \/ EndUnchanged

-----------------------------------------------------------------------------
(* What the calls promise *)

\* The folded paths of a tree below the directory.
Mine(tree) == {Folded(Dir \o p) : p \in DOMAIN Full(tree)}

Untouched(d, tree) == [q \in DOMAIN d \ Mine(tree) |-> d[q]]

\* An existing directory that the tree only implies keeps its mode.
ImpliedStays ==
  \A p \in DOMAIN Full(task.tree) \ DOMAIN task.tree :
    Exists(task.before, Dir \o p) => NodeAt(disk, Dir \o p) = NodeAt(task.before, Dir \o p)

\* Every entry of the tree has the name that the tree gives it.
NamedAsAsked == \A p \in DOMAIN Full(task.tree) : Named(disk, Folded(Dir \o p)) = Dir \o p

\* A write that ends without a fault leaves each entry of its tree at its path with its
\* content and its mode, so that the comparisons of a whole tree pass after it, and a
\* mode of a directory does not stop a write below it; any write leaves every other
\* entry as it was, wherever it stops; a cleanup leaves nothing of the workspace,
\* whatever modes the test gave it; and unchanged tells each change (files.py,
\* _files/writer.py).
WritesKeepTheirWord ==
  /\ task.is \in {"create", "overwrite"} => Untouched(disk, task.tree) = Untouched(task.before, task.tree)
  /\ (task.is = "create" /\ task.end = "done") =>
       \A p \in DOMAIN Full(task.tree) : Wanted(Full(task.tree)[p]) \subseteq HoldAt(disk, Dir \o p)
  /\ (task.is = "create" /\ task.end = "fault" /\ Checks(task.tree)) =>
       \E p, q \in DOMAIN Full(task.tree) : p # q /\ Folded(p) = Folded(q)
  /\ (task.is = "overwrite" /\ task.end = "done") =>
       /\ \A p \in DOMAIN task.tree : Wanted(task.tree[p]) \subseteq HoldAt(disk, Dir \o p)
       /\ ImpliedStays
  /\ (task.is \in {"create", "overwrite"} /\ task.end = "done" /\ NamedAsAsked) =>
       Compare(disk, Dir, task.tree, task.is = "overwrite") # "failed"
  /\ (task.is = "remove" /\ task.end # "running") =>
       task.end = "done" /\ ~Exists(disk, Dir) /\ Below(disk, Dir) = {}
  /\ (task.is = "unchanged" /\ task.end \in {"done", "failed"}) =>
       (task.end = "done") <=> (Below(disk, Dir) = Below(task.before, Dir)
         /\ \A q \in Below(disk, Dir) : [disk[q] EXCEPT !.mode = {}] = [task.before[q] EXCEPT !.mode = {}]
              /\ (disk[q].kind # "link" => disk[q].mode \cap Recorded = task.before[q].mode \cap Recorded))

-----------------------------------------------------------------------------
(***************************************************************************)
(* Comparisons with recorded output (golden.py): a golden tree, which an   *)
(* update makes equal to the tree of the output, and golden files of text  *)
(* and of a JSON object, which an update writes in two steps.              *)
(***************************************************************************)

CONSTANTS GoldenRoot,   \* the name of the golden directory
          Scrub(_),     \* the scrubbers, in their order
          Outputs,      \* the outputs that a test compares
          JsonFields    \* the fields of the JSON object

VARIABLES recorded,  \* the golden file of text, and the one of a JSON object
          match      \* the comparison with a golden file in progress

Golden == <<GoldenRoot>>

-----------------------------------------------------------------------------
(* Trees *)

ScrubTree(tree) == [p \in DOMAIN tree |->
                      IF tree[p].kind = "file" THEN [tree[p] EXCEPT !.content = Scrub(@)] ELSE tree[p]]

OutputTree(d) == ScrubTree(ReadTree(d, Dir, TRUE))
GoldenTree(d) ==
  IF Exists(d, Golden) THEN ScrubTree(ReadTree(d, Golden, FALSE)) ELSE [p \in {} |-> Directory]

Unreadable(d) == ~Readable(d, Dir) \/ (Exists(d, Golden) /\ ~Readable(d, Golden))
Matches(d) == Exists(d, Golden) /\ Differing(GoldenTree(d), OutputTree(d), FALSE) = {}

\* The golden tree of a call that may update it.
MatchTree(update) ==
  LET made == IF Exists(disk, Golden) THEN disk ELSE Effect(disk, Make(Golden, "directory", 0, Bits))
      what == IF update THEN "update" ELSE "match"
  IN /\ MayCall(what)
     /\ IF Unreadable(disk) THEN Faulted(what, <<>>) /\ UNCHANGED disk
        ELSE IF ~update \/ Matches(disk)
        THEN /\ task' = [Idle EXCEPT !.is = what, !.before = disk, !.end = IF Matches(disk) THEN "done" ELSE "failed"]
             /\ UNCHANGED disk
        ELSE IF ~Checks(OutputTree(disk)) THEN Faulted(what, <<>>) /\ UNCHANGED disk
        ELSE /\ disk' = made
             /\ Begun(what, OutputTree(disk), disk, Updating(made, Golden, OutputTree(disk)))
     /\ UNCHANGED <<recorded, match>>

-----------------------------------------------------------------------------
(* Files *)

Missing == [is |-> "missing", value |-> 0]
TextOf(value) == [is |-> "text", value |-> value]
ObjectOf(fields) == [is |-> "object", value |-> fields]

\* The text of a file that its write has opened.
Opened == TextOf(0)

NoMatch == [file |-> "none", field |-> "none", got |-> 0, update |-> FALSE, next |-> Missing,
            before |-> [text |-> Missing, json |-> Missing], end |-> "none"]

\* The verdict on an output without an update.
FileVerdict(file, got) ==
  IF file.is = "missing" THEN "failed"
  ELSE IF Scrub(file.value) = Scrub(got) THEN "done" ELSE "failed"

FieldVerdict(file, field, got) ==
  CASE file.is = "missing" -> "failed"
    [] file.is = "text"    -> "fault"
    [] OTHER -> IF field \in DOMAIN file.value /\ Scrub(file.value[field]) = Scrub(got) THEN "done" ELSE "failed"

\* MUTANT: an update writes the object of the field alone.
WithFieldAlone(file, field, got) == ObjectOf([f \in {field} |-> got])

\* The object with a field, which an update writes without its scrubbers.
WithField(file, field, got) ==
  LET fields == IF file.is = "object" THEN file.value ELSE [none \in {} |-> 0] IN
  ObjectOf([f \in DOMAIN fields \cup {field} |-> IF f = field THEN got ELSE fields[f]])

\* A comparison that ends at once, or whose update opens the file.
Judged(file, field, got, update, verdict, next) ==
  match' = [file |-> file, field |-> field, got |-> got, update |-> update, next |-> next, before |-> recorded,
            end |-> IF verdict = "failed" /\ update THEN "writing" ELSE verdict]

MatchFile(got, update) ==
  /\ match.end # "writing"
  /\ Judged("text", "none", got, update, FileVerdict(recorded.text, got), TextOf(Scrub(got)))
  /\ recorded' = IF match'.end = "writing" THEN [recorded EXCEPT !.text = Opened] ELSE recorded
  /\ UNCHANGED fileVars

MatchField(field, got, update) ==
  /\ match.end # "writing"
  /\ Judged("json", field, got, update, FieldVerdict(recorded.json, field, got),
            WithField(recorded.json, field, got))
  /\ recorded' = IF match'.end = "writing" THEN [recorded EXCEPT !.json = Opened] ELSE recorded
  /\ UNCHANGED fileVars

FinishMatch ==
  /\ match.end = "writing"
  /\ recorded' = [recorded EXCEPT ![match.file] = match.next]
  /\ match' = [match EXCEPT !.end = "done"]
  /\ UNCHANGED fileVars

\* The disk is full, or the process ends, in the middle of the write.
StopMatch ==
  /\ match.end = "writing"
  /\ match' = [match EXCEPT !.end = "stopped"]
  /\ UNCHANGED <<recorded, fileVars>>

GoldenInit == FilesInit /\ recorded = NoMatch.before /\ match = NoMatch

\* The calls of trees.
TreesNext ==
  \/ FilesNext /\ UNCHANGED <<recorded, match>>
  \/ \E update \in BOOLEAN : MatchTree(update)

\* The comparisons with golden files.
GoldenNext ==
  \/ \E update \in BOOLEAN, got \in Outputs :
       MatchFile(got, update) \/ \E field \in JsonFields : MatchField(field, got, update)
  \/ FinishMatch \/ StopMatch

-----------------------------------------------------------------------------
(* What the comparisons promise *)

FileMatches ==
  (IF match.file = "text" THEN FileVerdict(recorded.text, match.got)
   ELSE FieldVerdict(recorded.json, match.field, match.got)) = "done"

\* The fields of the object of a file other than the one of the comparison.
OtherFields(file) ==
  IF file.is = "object" THEN [f \in DOMAIN file.value \ {match.field} |-> file.value[f]] ELSE [f \in {} |-> 0]

\* The same comparison passes after an update that ended, a comparison that may not
\* update writes nothing, and an update of one field or of one tree keeps the other
\* fields and the tree of the output (golden.py).
GoldenSettles ==
  /\ (task.is \in {"update", "match"} /\ task.end = "done") => Matches(disk)
  /\ task.is = "update" =>
       \A q \in DOMAIN task.before : q[1] # Fold(GoldenRoot) => q \in DOMAIN disk /\ disk[q] = task.before[q]
  /\ task.is = "match" => disk = task.before
  /\ match.end = "done" => FileMatches
  /\ match.end # "none" /\ ~match.update => recorded = match.before
  /\ match.end = "done" => OtherFields(recorded.json) = OtherFields(match.before.json)
=============================================================================
