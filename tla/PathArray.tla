----------------------------- MODULE PathArray -----------------------------
(***************************************************************************)
(* path_array_gen: a slave turns the paths of the command line into the    *)
(* list of flow files it reads.  A path may be meant for one rank only     *)
(* ("%2:...") and may contain the host name ("%h"); a directory is either  *)
(* searched for the flow files of a time range or walked recursively.      *)
(*                                                                         *)
(* A name is a sequence of components.  The file system a slave sees does  *)
(* not change while the list is made; files that vanish later are found    *)
(* unopenable by ListQuery and Query.                                      *)
(***************************************************************************)
EXTENDS Calendar, FiniteSets

CONSTANTS
    Ranks,          \* MPI ranks of the slaves
    AnyRank,        \* target of a path without rank directive
    Hostname,       \* gethostname(), by rank
    HostDirective,  \* the component %h
    BadDirective,   \* a component with another directive
    Commands,       \* possible command lines: [paths, begin, end]
    Fs,             \* Fs[r]: what is behind the names that exist for rank r
    Ignored,        \* components with the prefix of hidden or of index files
    LongNames,      \* names that do not fit in PATH_MAX
    FlowFileFormat(_), \* FLOW_FILE_FORMAT: components of the file of a time
    PATH_ARRAY_INIT_SIZE, PATH_ARRAY_GROWTH_FACTOR

\* A name is that of a file, or of a directory with its entries in the order
\* of readdir(); opendir() may fail.
IsEntry(e) ==
    \/ e.type = "file"
    \/ e.type = "dir" /\ e.readable \in BOOLEAN /\ e.entries \in Seq(STRING)

\* Every name has its place in the tree: a readable directory has it or a part of
\* it among its entries, all of which are different.
IsTree(tree) ==
    /\ \A n \in DOMAIN tree : n \in Seq(STRING) \ {<<>>} /\ IsEntry(tree[n])
    /\ \A d \in DOMAIN tree : tree[d].type = "dir" /\ tree[d].readable =>
          LET entries == tree[d].entries IN
          /\ \A j, k \in DOMAIN entries : entries[j] = entries[k] => j = k
          /\ \A n \in DOMAIN tree : Len(d) < Len(n) /\ SubSeq(n, 1, Len(d)) = d =>
                \E k \in DOMAIN entries : entries[k] = n[Len(d) + 1]

Path == [target: Ranks \cup {AnyRank}, name: Seq(STRING)]

ASSUME PathAssumption ==
    /\ AnyRank \notin Ranks
    /\ Hostname \in [Ranks -> STRING]
    /\ Commands \subseteq [paths: Seq(Path), begin: Int, end: Int]
    /\ \A r \in Ranks : IsTree(Fs[r])
    /\ \A r \in Ranks : \A n \in DOMAIN Fs[r] : n \notin LongNames
    /\ PATH_ARRAY_INIT_SIZE \in Nat \ {0}
    /\ PATH_ARRAY_GROWTH_FACTOR \in Nat \ {0, 1}

VARIABLES
    rank, cmd,          \* fixed once chosen
    pc, i,              \* control, and the path of the command line in work
    new_path,           \* result of path_preprocessor
    ctx,                \* time reached by fill_from_time
    todo,               \* names the walk has still to look at
    names, names_size   \* struct path_array_ctx

arrayVars == <<names, names_size>>
vars == <<rank, cmd, pc, i, new_path, ctx, todo, arrayVars>>

----------------------------------------------------------------------------

Init ==
    /\ rank \in Ranks
    /\ cmd \in Commands
    /\ pc = "path"
    /\ i = 1
    /\ new_path = <<>>
    /\ ctx = 0
    /\ todo = <<>>
    /\ names = <<>>
    /\ names_size = PATH_ARRAY_INIT_SIZE

Exists(n) == n \in DOMAIN Fs[rank]

IsDir(n) == Fs[rank][n].type = "dir"

\* path_preprocessor accepts a path: it is meant for this slave and all its
\* directives are known.
Accepted(p) ==
    /\ p.target \in {AnyRank, rank}
    /\ \A k \in 1..Len(p.name) : p.name[k] # BadDirective

\* The path path_preprocessor makes of it.
Preprocessed(p) ==
    [k \in 1..Len(p.name) |->
        IF p.name[k] = HostDirective THEN Hostname[rank] ELSE p.name[k]]

HasRange == TmDiff(Gmtime(cmd.end), Gmtime(cmd.begin)) > 0

\* Mistake: the array is never enlarged.
AddPathNoGrowth(n) == names' = Append(names, n) /\ UNCHANGED names_size

\* add_path
AddPath(n) ==
    /\ names' = Append(names, n)
    /\ names_size' = IF Len(names) = names_size
                     THEN names_size * PATH_ARRAY_GROWTH_FACTOR ELSE names_size

\* Mistake: the loop does not go on after a path for another slave.
SkipPathAgain ==
    /\ pc = "path"
    /\ i <= Len(cmd.paths)
    /\ ~Accepted(cmd.paths[i])
    /\ UNCHANGED vars

\* The path is not for this slave, or cannot be used.
SkipPath ==
    /\ pc = "path"
    /\ i <= Len(cmd.paths)
    /\ Accepted(cmd.paths[i]) => ~Exists(Preprocessed(cmd.paths[i]))
    /\ i' = i + 1
    /\ UNCHANGED <<rank, cmd, pc, new_path, ctx, todo, arrayVars>>

\* A directory is searched for a time range if there is one; any other path is
\* walked.
StartPath ==
    LET p == Preprocessed(cmd.paths[i]) IN
    /\ pc = "path"
    /\ i <= Len(cmd.paths)
    /\ Accepted(cmd.paths[i])
    /\ Exists(p)
    /\ new_path' = p
    /\ \/ /\ HasRange /\ IsDir(p)
          /\ pc' = "time"
          /\ ctx' = cmd.begin
          /\ UNCHANGED todo
       \/ /\ ~(HasRange /\ IsDir(p))
          /\ pc' = "walk"
          /\ todo' = <<p>>
          /\ UNCHANGED ctx
    /\ UNCHANGED <<rank, cmd, i, arrayVars>>

EndPath ==
    /\ i' = i + 1
    /\ pc' = "path"
    /\ UNCHANGED <<rank, cmd, new_path, ctx, todo, arrayVars>>

----------------------------------------------------------------------------
(* fill_from_time                                                          *)

\* Mistake: the interval that begins at the end of the range is included.
MoreTimeInclusive == TmDiff(Gmtime(cmd.end), Gmtime(ctx)) >= 0

MoreTime == TmDiff(Gmtime(cmd.end), Gmtime(ctx)) > 0

FileOf(t) == new_path \o FlowFileFormat(t)

\* The name does not fit: a warning, and the loop goes on.
TimeTooLong ==
    /\ pc = "time"
    /\ MoreTime
    /\ FileOf(ctx) \in LongNames
    /\ UNCHANGED vars

\* The file of the interval is added if it exists.
TimeFile ==
    /\ pc = "time"
    /\ MoreTime
    /\ FileOf(ctx) \notin LongNames
    /\ ctx' = ctx + FLOW_FILE_ROTATION_INTERVAL
    /\ IF Exists(FileOf(ctx)) THEN AddPath(FileOf(ctx)) ELSE UNCHANGED arrayVars
    /\ UNCHANGED <<rank, cmd, pc, i, new_path, todo>>

TimeEnd == pc = "time" /\ ~MoreTime /\ EndPath

----------------------------------------------------------------------------
(* fill_from_path                                                          *)

\* The names behind the entries of directory n.
Children(n) == [k \in DOMAIN Fs[rank][n].entries |-> Append(n, Fs[rank][n].entries[k])]

\* The loop goes on with the next entry; the path of the command line itself is
\* not looked at.
PassedOver(n) == n # new_path /\ (n[Len(n)] \in Ignored \/ n \in LongNames)

\* One call of fill_from_path, or an entry for which there is none: a file is
\* added, a directory is replaced by its entries, what cannot be examined is
\* passed over.
Visit ==
    LET n == Head(todo) IN
    /\ pc = "walk"
    /\ todo # <<>>
    /\ \/ /\ ~PassedOver(n) /\ Exists(n) /\ ~IsDir(n)
          /\ AddPath(n)
          /\ todo' = Tail(todo)
       \/ /\ ~PassedOver(n) /\ Exists(n) /\ IsDir(n) /\ Fs[rank][n].readable
          /\ todo' = Children(n) \o Tail(todo)
          /\ UNCHANGED arrayVars
       \/ /\ PassedOver(n) \/ (Exists(n) => IsDir(n) /\ ~Fs[rank][n].readable)
          /\ todo' = Tail(todo)
          /\ UNCHANGED arrayVars
    /\ UNCHANGED <<rank, cmd, pc, i, new_path, ctx>>

WalkEnd == pc = "walk" /\ todo = <<>> /\ EndPath

----------------------------------------------------------------------------

Done == pc = "path" /\ i > Len(cmd.paths)

\* The list is complete; not a step of the program.
Finished == Done /\ UNCHANGED vars

Step ==
    \/ SkipPath \/ StartPath
    \/ TimeTooLong \/ TimeFile \/ TimeEnd
    \/ Visit \/ WalkEnd

Next == Step \/ Finished

Spec == Init /\ [][Next]_vars

\* The slave runs on.
FairSpec == Spec /\ WF_vars(Step)

----------------------------------------------------------------------------
(* Properties                                                              *)

\* Every variable holds a value of its type; in particular no name is written
\* behind the end of the allocated array.
TypeOK ==
    /\ pc \in {"path", "time", "walk"}
    /\ i \in 1..(Len(cmd.paths) + 1)
    /\ names_size \in Nat \ {0}
    /\ Len(names) <= names_size

IsPrefixName(p, n) == Len(p) <= Len(n) /\ SubSeq(n, 1, Len(p)) = p

\* Name n is a file below p that a user would see there: nothing between p and
\* n is hidden, an index, too long or unreadable.
Below(p, n) ==
    /\ IsPrefixName(p, n)
    /\ ~IsDir(n)
    /\ \A k \in Len(p)..(Len(n) - 1) :
          /\ Exists(SubSeq(n, 1, k)) /\ IsDir(SubSeq(n, 1, k))
          /\ Fs[rank][SubSeq(n, 1, k)].readable
          /\ n[k + 1] \notin Ignored

\* The intervals of the time range, by their beginnings.
Intervals ==
    {t \in cmd.begin..(cmd.end - 1) : (t - cmd.begin) % FLOW_FILE_ROTATION_INTERVAL = 0}

\* Name n is the file of an interval within the time range.
InRange(p, n) == \E t \in Intervals : n = p \o FlowFileFormat(t)

\* Path number k of the command line asks this slave for the existing name n.
AsksFor(k, n) ==
    LET p == Preprocessed(cmd.paths[k]) IN
    /\ Accepted(cmd.paths[k])
    /\ Exists(p)
    /\ IF HasRange /\ IsDir(p) THEN InRange(p, n) ELSE Below(p, n)

\* The list holds every file as often as paths of the command line ask for it:
\* none is lost, none is read twice for one path, and none is read for a path
\* "targeted only for one specific slave" by another one.
FilesExact ==
    Done => \A n \in DOMAIN Fs[rank] :
        Cardinality({k \in 1..Len(names) : names[k] = n})
            = Cardinality({k \in 1..Len(cmd.paths) : AsksFor(k, n)})

\* The list is completed: "loop through the entire time range", "loop through
\* all files".
Termination == <>Done

\* No time of the range makes a name that is too long, in any directory of the
\* command line.
NamesFit ==
    \A k \in 1..Len(cmd.paths) : \A t \in Intervals :
        Preprocessed(cmd.paths[k]) \o FlowFileFormat(t) \notin LongNames

============================================================================
