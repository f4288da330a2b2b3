------------------------------- MODULE StatCache -------------------------------
(***************************************************************************)
(* stat_cache.c: what the server remembers of files, by the hash of their  *)
(* names, for the current second ("simple"), until the file alteration     *)
(* monitor says something ("fam"), or not at all ("none").                 *)
(*                                                                         *)
(* A path is [name, follow]: what the key is made of.  Files change at any *)
(* time; FAM tells of it later.                                            *)
(***************************************************************************)
EXTENDS Integers, Sequences, FiniteSets, SplayTree

CONSTANTS
    Engines,
    Paths,
    Key(_), Dir(_),     \* hashme() of a path, and the directory of a name
    MaxClock, MaxVersion \* bounds

VARIABLES
    engine,
    fs,                 \* of a name: [version, link], version 0 if there is none
    cur_ts,
    files, dirs,        \* the trees
    fam,                \* BOOLEAN: its connection is there
    fam_events,         \* of directories that changed or were deleted
    recreated,          \* a directory was forgotten and found again
    newest,             \* the last version any file was given
    history,            \* the versions a name has had in this second
    got                 \* the last answer

vars == <<engine, fs, cur_ts, files, dirs, fam, fam_events, recreated, newest, history, got>>

Names == {p.name : p \in Paths}
Dirs == {Dir(n) : n \in Names}
Nothing == [path |-> "none"]
NoEntry == [name |-> "none"]

Init ==
    /\ engine \in Engines
    /\ fs = [n \in Names |-> [version |-> 1, link |-> FALSE]]
    /\ cur_ts = 1 /\ files = Nil /\ dirs = Nil /\ fam = TRUE /\ fam_events = <<>> /\ recreated = FALSE
    /\ newest = 1 /\ history = [n \in Names |-> {fs[n].version}]
    /\ got = Nothing

-----------------------------------------------------------------------------
\* the entry of the key, which is that of the path or of another with the same hash
Found(tree, key) == IF key \in Keys(tree) THEN Lookup(tree, key) ELSE NoEntry
Same(entry, p) == entry.name = p.name

\* the tree as a function of its keys is enough to change one entry in place
RECURSIVE Updated(_, _, _)
Updated(t, i, data) ==
    IF i = t.key THEN [t EXCEPT !.data = data]
    ELSE IF i < t.key THEN [t EXCEPT !.left = Updated(t.left, i, data)]
    ELSE [t EXCEPT !.right = Updated(t.right, i, data)]

Monitored(n) == engine = "fam" /\ Dir(n) \in Keys(dirs)
DirVersion(n) == IF Monitored(n) THEN Lookup(dirs, Dir(n)) ELSE 1

\* nothing is asked of the file system
StillGood(entry, p) ==
    /\ Same(entry, p)
    /\ \/ engine = "simple" /\ entry.stat_ts = cur_ts
       \/ Monitored(p.name) /\ entry.dir_version = Lookup(dirs, Dir(p.name))
\* mutant: an entry is good whenever its name is
GoodByName(entry, p) == Same(entry, p) /\ engine # "none"
Usable(entry, p) == StillGood(entry, p)

\* a path that is a link, or lies behind one, when links are not to be followed
IsSymlink(p) == ~p.follow /\ fs[p.name].link

Filled(entry, p) ==
    [name |-> IF entry = NoEntry THEN p.name ELSE entry.name,
     st |-> fs[p.name].version, is_symlink |-> IsSymlink(p), stat_ts |-> cur_ts,
     dir_version |-> IF fam THEN DirVersion(p.name) ELSE IF entry = NoEntry THEN 0 ELSE entry.dir_version]
Answer(p, entry, asked) ==
    got' = [path |-> p, st |-> entry.st, is_symlink |-> entry.is_symlink, stat_ts |-> entry.stat_ts, asked |-> asked,
             told |-> fam_events = <<>> /\ ~recreated /\ fam]

get_entry(p) ==
    LET key == Key(p)
        entry == Found(files, key)
        tree == splay(files, key)
    IN  IF Usable(entry, p)
        THEN /\ Answer(p, entry, FALSE) /\ files' = tree
             /\ dirs' = IF engine = "fam" THEN splay(dirs, Dir(p.name)) ELSE dirs
        ELSE IF fs[p.name].version = 0
        THEN got' = Nothing /\ files' = tree /\ UNCHANGED dirs              \* HANDLER_ERROR
        ELSE \* an entry of another name is filled, and keeps that name
             LET e == Filled(entry, p)
             IN  /\ files' = IF entry = NoEntry THEN insert(tree, key, e) ELSE Updated(tree, key, e)
                 /\ dirs' = IF engine = "fam" /\ fam /\ ~Monitored(p.name) THEN insert(dirs, Dir(p.name), 1) ELSE dirs
                 /\ Answer(p, e, TRUE)

Get(p) == get_entry(p) /\ UNCHANGED <<engine, fs, cur_ts, fam, fam_events, recreated, newest, history>>

\* stat_cache_handle_fdevent(): one event
FamEvent ==
    /\ fam_events # <<>> /\ fam_events' = Tail(fam_events)
    /\ LET e == Head(fam_events)
       IN  IF e.dir \notin Keys(dirs) THEN UNCHANGED <<dirs, recreated>>
           ELSE IF e.code = "changed"
           THEN dirs' = Updated(dirs, e.dir, Lookup(dirs, e.dir) + 1) /\ UNCHANGED recreated
           ELSE dirs' = delete(dirs, e.dir) /\ recreated' = TRUE
    /\ UNCHANGED <<engine, fs, cur_ts, files, fam, newest, history>> /\ got' = Nothing

\* the monitor has closed its connection: what it has told so far stays as it is
FamHup ==
    /\ engine = "fam" /\ fam /\ fam' = FALSE /\ fam_events' = <<>>
    /\ UNCHANGED <<engine, fs, cur_ts, files, dirs, recreated, newest, history>> /\ got' = Nothing

\* the once-a-second part of the main loop: stat_cache_trigger_cleanup()
Old == {n.key : n \in {m \in Nodes(files) : cur_ts + 1 - m.data.stat_ts > 2}}
RECURSIVE Cleaned(_, _)
Cleaned(tree, keys) ==
    IF keys = {} THEN tree
    ELSE LET k == CHOOSE k \in keys : TRUE IN Cleaned(delete(tree, k), keys \ {k})
Second ==
    /\ cur_ts < MaxClock /\ cur_ts' = cur_ts + 1
    /\ files' = Cleaned(files, Old)
    /\ history' = [n \in Names |-> {fs[n].version}] /\ got' = Nothing
    /\ UNCHANGED <<engine, fs, dirs, fam, fam_events, recreated, newest>>

-----------------------------------------------------------------------------
Tell(n, code) == IF fam /\ Dir(n) \in Keys(dirs) THEN Append(fam_events, [dir |-> Dir(n), code |-> code]) ELSE fam_events

\* a file is written, removed, or made a link
Change(n, version, link) ==
    /\ newest < MaxVersion /\ newest' = newest + 1 /\ fs' = [fs EXCEPT ![n] = [version |-> version, link |-> link]]
    /\ history' = [history EXCEPT ![n] = @ \cup {version}]
    /\ fam_events' = Tell(n, "changed")
    /\ UNCHANGED <<engine, cur_ts, files, dirs, fam, recreated>> /\ got' = Nothing
\* a directory goes and comes again with other files
Recreate(d) ==
    /\ newest < MaxVersion /\ newest' = newest + 1 /\ d \in Keys(dirs)
    /\ LET in == {n \in Names : Dir(n) = d}
       IN  /\ fs' = [n \in Names |-> IF n \in in THEN [fs[n] EXCEPT !.version = newest + 1] ELSE fs[n]]
           /\ history' = [n \in Names |-> IF n \in in THEN history[n] \cup {newest + 1} ELSE history[n]]
    /\ fam_events' = IF fam THEN Append(fam_events, [dir |-> d, code |-> "deleted"]) ELSE fam_events
    /\ UNCHANGED <<engine, cur_ts, files, dirs, fam, recreated>> /\ got' = Nothing

Next ==
    \/ \E p \in Paths : Get(p)
    \/ \E n \in Names : Change(n, newest + 1, newest + 1 = MaxVersion)
    \/ \E n \in Names : fs[n].version # 0 /\ Change(n, 0, FALSE)
    \/ \E d \in Dirs : Recreate(d)
    \/ FamEvent \/ FamHup \/ Second

Spec == Init /\ [][Next]_vars

-----------------------------------------------------------------------------
TypeOK == engine \in Engines /\ cur_ts \in 1..MaxClock /\ recreated \in BOOLEAN

(***************************************************************************)
(* The trees are search trees with their sizes right, and every entry is   *)
(* found by the hash of its name.                                          *)
(***************************************************************************)
TreesRight ==
    /\ IsTree(files) /\ IsTree(dirs)
    /\ \A n \in Nodes(files) : \E p \in Paths : p.name = n.data.name /\ Key(p) = n.key

Alone(p) == \A q \in Paths : Key(q) = Key(p) => q = p

(***************************************************************************)
(* An entry that is given for a path tells of this path: what it was in    *)
(* this second, or, with FAM, when no event is under way, what it is.  Not *)
(* for paths with the same hash: the second fills the entry of the first,  *)
(* which keeps its name.  Nor, with FAM, when it is gone or a directory was *)
(* deleted: its version begins again with 1, as old entries have it.       *)
(***************************************************************************)
Describes ==
    got # Nothing /\ Alone(got.path) =>
        /\ engine = "simple" => got.st \in history[got.path.name]
        /\ engine = "fam" /\ got.told =>
               got.st \in history[got.path.name]

(***************************************************************************)
(* Nothing is remembered for more than three seconds, whatever FAM says.   *)
(***************************************************************************)
Forgets == got # Nothing => cur_ts - got.stat_ts <= 2

CacheRight == TreesRight /\ Describes /\ Forgets
=============================================================================
