---------------------------- MODULE ConfigWatch ----------------------------
(***************************************************************************)
(* The configuration file, the inotify watch peachwm keeps on it, and the  *)
(* reloads (src/parser/parser.c, setup() and do_reload() of                *)
(* src/src/peachwm.c).  The compositor handles a notification in three     *)
(* system calls (read the queue, read the file, watch the path again);     *)
(* editors are other processes and may act between any two of them.        *)
(*                                                                         *)
(* A watch belongs to an inode, not to the path.  On a regular file        *)
(* IN_MOVED_TO and IN_CREATE never occur, so a watched inode is heard of   *)
(* when a writer closes it and, with IN_IGNORED, when it is deleted.       *)
(* watch_dispatch() does not look at the events it reads and its buffer    *)
(* holds 256 of them: the queue is a flag.                                 *)
(***************************************************************************)
EXTENDS Naturals, FiniteSets

CONSTANTS Inodes,     \* files the editors can make
          Editors,    \* processes that save the configuration
          Styles,     \* how they save: "inplace", "rename", "backup", "recreate"
          Loadable,   \* texts config_load() accepts
          Broken,     \* texts it refuses
          Part,       \* a file cut short by a writer: Lua may take it or not
          NoFile

ASSUME ConfigAssumption ==
  /\ Loadable \cap Broken = {} /\ Part \notin Loadable \cup Broken
  /\ NoFile \notin Inodes \cup Loadable \cup Broken \cup {Part}

VARIABLES path,       \* the inode the configured path names, or NoFile
          data,       \* the text of each inode
          ed,         \* what each editor is in the middle of
          watch,      \* inodes with a watch in the inotify instance
          pending,    \* the inotify queue is not empty
          pc,         \* where the compositor is in its handler
          watchFd,    \* ws->watch_fd is a watch descriptor, not -1
          seen,       \* what the last config_load() read
          cfg,        \* the text the configuration in force came from
          missed      \* history: a save fell between a load and the next watch

files   == <<path, data, ed>>
handler == <<pc, watchFd, seen, cfg>>
vars    == <<path, data, ed, watch, pending, pc, watchFd, seen, cfg, missed>>

Texts == Loadable \cup Broken \cup {Part}
Rest  == [stage |-> "rest", ino |-> NoFile, old |-> NoFile, to |-> Part]

Held(es)    == {es[e].ino : e \in Editors} \cup {es[e].old : e \in Editors}
Live(p, es) == ({p} \cup Held(es)) \ {NoFile}
Free        == Inodes \ Live(path, ed)

TypeOK ==
  /\ path \in Inodes \cup {NoFile} /\ data \in [Inodes -> Texts]
  /\ ed \in [Editors -> [stage : {"rest", "write", "temp", "gap", "tidy"},
                         ino : Inodes \cup {NoFile}, old : Inodes \cup {NoFile},
                         to : Texts]]
  /\ watch \subseteq Live(path, ed) /\ pending \in BOOLEAN
  /\ pc \in {"start", "idle", "load", "rewatch", "off"} /\ watchFd \in BOOLEAN
  /\ seen \in Texts \cup {NoFile} /\ cfg \in Loadable \cup {Part}
  /\ missed \in BOOLEAN

\* setup() has loaded the configuration (it dies when it cannot) and has not
\* started the watch yet.
Init ==
  /\ path \in Inodes /\ cfg \in Loadable /\ seen = cfg
  /\ data = [i \in Inodes |-> IF i = path THEN cfg ELSE Part]
  /\ ed = [e \in Editors |-> Rest]
  /\ watch = {} /\ pending = FALSE /\ pc = "start" /\ watchFd = FALSE
  /\ missed = FALSE

-----------------------------------------------------------------------------
(* The compositor                                                          *)

\* inotify_add_watch() on the path: fails with ENOENT while there is no file.
AddWatch ==
  /\ watch' = watch \cup ({path} \ {NoFile})
  /\ watchFd' = (path # NoFile)

\* Mutants of Applied: a text that failed to load is applied; the callback is
\* not called.
AppliedAnyway(t) == {t}
AppliedNever(t)  == {cfg}

\* config_load() and, when it succeeds, the callback: the texts that can be in
\* force afterwards.
Applied(t) == CASE t \in Loadable -> {t}
                [] t = Part       -> {cfg, Part}
                [] OTHER          -> {cfg}

ConfigLoad ==
  /\ seen' = IF path = NoFile THEN NoFile ELSE data[path]
  /\ cfg' \in Applied(seen')
  /\ missed' = FALSE

\* Without a watch config_watch_start() gives its state up and returns NULL.
ConfigWatchStart ==
  /\ pc = "start" /\ AddWatch
  /\ pc' = IF path = NoFile THEN "off" ELSE "idle"
  /\ UNCHANGED <<files, pending, seen, cfg, missed>>

DispatchRead ==
  /\ pc = "idle" /\ pending
  /\ pending' = FALSE /\ pc' = "load"
  /\ UNCHANGED <<files, watch, watchFd, seen, cfg, missed>>

DispatchLoad ==
  /\ pc = "load" /\ ConfigLoad /\ pc' = "rewatch"
  /\ UNCHANGED <<files, watch, pending, watchFd>>

\* Mutants of DispatchRewatch: only after a load that succeeded; the queue is
\* drained again at the end; the old watch is removed first, which reports itself.
DispatchRewatchOnSuccess ==
  /\ pc = "rewatch" /\ pc' = "idle"
  /\ IF seen \in Loadable THEN AddWatch ELSE UNCHANGED <<watch, watchFd>>
  /\ UNCHANGED <<files, pending, seen, cfg, missed>>

DispatchRewatchDrains ==
  /\ pc = "rewatch" /\ AddWatch /\ pc' = "idle" /\ pending' = FALSE
  /\ UNCHANGED <<files, seen, cfg, missed>>

DispatchRewatchAnew ==
  /\ pc = "rewatch" /\ AddWatch /\ pc' = "idle" /\ pending' = (pending \/ watch # {})
  /\ UNCHANGED <<files, seen, cfg, missed>>

DispatchRewatch ==
  /\ pc = "rewatch" /\ AddWatch /\ pc' = "idle"
  /\ UNCHANGED <<files, pending, seen, cfg, missed>>

\* The reload command of the IPC socket loads and leaves the watch alone.
DoReload ==
  /\ pc \in {"idle", "off"} /\ ConfigLoad
  /\ UNCHANGED <<files, watch, pending, pc, watchFd>>

ConfigWatchStop ==
  /\ pc = "idle" /\ pc' = "off"
  /\ watch' = {} /\ pending' = FALSE /\ watchFd' = FALSE
  /\ UNCHANGED <<files, seen, cfg, missed>>

-----------------------------------------------------------------------------
(* The editors and the file system (external)                              *)

\* Editor e goes on to stage `now`, the path names p, the texts are d: an inode
\* without a name or a holder is deleted, its text and its watch with it, and a
\* watched inode is heard of when it is deleted or, in `closed`, closed.
Change(e, now, p, d, closed) ==
  LET es   == [ed EXCEPT ![e] = now]
      kept == Live(p, es)
  IN  /\ path' = p /\ ed' = es
      /\ data' = [i \in Inodes |-> IF i \in kept THEN d[i] ELSE Part]
      /\ watch' = watch \cap kept
      /\ pending' = (pending \/ closed \cap watch # {} \/ watch \ kept # {})
      /\ missed' = \/ missed
                   \/ /\ pc \in {"start", "rewatch"}
                      /\ p \notin watch \cup {NoFile}
                      /\ p # path \/ d[p] # data[p]
      /\ UNCHANGED handler

Stage(stage, ino, old, to) == [stage |-> stage, ino |-> ino, old |-> old, to |-> to]

OpenInPlace(e, t) ==
  /\ "inplace" \in Styles /\ ed[e].stage = "rest" /\ path # NoFile
  /\ Change(e, Stage("write", path, NoFile, t), path, [data EXCEPT ![path] = Part], {})

WriteAside(e, t) ==
  /\ "rename" \in Styles /\ ed[e].stage = "rest"
  /\ \E i \in Free :
       Change(e, Stage("temp", i, NoFile, t), path, [data EXCEPT ![i] = t], {})

RenameOver(e) ==
  /\ ed[e].stage = "temp"
  /\ Change(e, Rest, ed[e].ino, data, {})

\* The old file becomes the backup, to be deleted when the new one is written.
MoveAway(e, t) ==
  /\ "backup" \in Styles /\ ed[e].stage = "rest" /\ path # NoFile
  /\ Change(e, Stage("gap", NoFile, path, t), NoFile, data, {})

Delete(e, t) ==
  /\ "recreate" \in Styles /\ ed[e].stage = "rest" /\ path # NoFile
  /\ Change(e, Stage("gap", NoFile, NoFile, t), NoFile, data, {})

\* open() with O_CREAT and O_TRUNC: the file another editor made, or a new one.
Create(e) ==
  /\ ed[e].stage = "gap"
  /\ \E i \in IF path = NoFile THEN Free ELSE {path} :
       Change(e, Stage("write", i, ed[e].old, ed[e].to), i, [data EXCEPT ![i] = Part], {})

Close(e) ==
  /\ ed[e].stage = "write"
  /\ Change(e, IF ed[e].old = NoFile THEN Rest ELSE Stage("tidy", NoFile, ed[e].old, Part),
            path, [data EXCEPT ![ed[e].ino] = ed[e].to], {ed[e].ino})

DropBackup(e) ==
  /\ ed[e].stage = "tidy"
  /\ Change(e, Rest, path, data, {})

-----------------------------------------------------------------------------
Edit(e) == \/ \E t \in Loadable \cup Broken : \/ OpenInPlace(e, t) \/ WriteAside(e, t)
                                              \/ MoveAway(e, t)    \/ Delete(e, t)
           \/ RenameOver(e) \/ Create(e) \/ Close(e) \/ DropBackup(e)

Handle == ConfigWatchStart \/ DispatchRead \/ DispatchLoad \/ DispatchRewatch

Next == Handle \/ DoReload \/ ConfigWatchStop \/ \E e \in Editors : Edit(e)

Spec == Init /\ [][Next]_vars

\* The event loop polls the inotify descriptor and runs its handler to the end;
\* nobody has to save, reload or quit.
FairSpec == Spec /\ WF_vars(Handle)

-----------------------------------------------------------------------------
Quiet     == \A e \in Editors : ed[e].stage = "rest"
Settled   == pc = "idle" /\ ~pending
FileIs(t) == path # NoFile /\ data[path] = t

\* When the compositor rests after a watch that could be placed, the file at the
\* path is watched, or an editor still holds a watched file whose deletion will
\* wake the compositor (watch_dispatch(): "inotify_add_watch() on the path
\* creates a new watch on the new inode").
WatchFollows ==
  Settled /\ watchFd /\ path # NoFile /\ path \notin watch
     => Held(ed) \cap watch # {}

\* No save goes unseen: at rest, with every save complete, the last text loaded
\* is the text of the file, except for a save between a load and the next
\* inotify_add_watch(), or after one that failed.
NoSaveUnseen ==
  Settled /\ watchFd /\ Quiet /\ path # NoFile /\ ~missed => seen = data[path]

\* A complete save of a text that loads comes into force, unless the file changes
\* again, the save fell into the gap, or the watch is gone (on_config_reload()).
SavesArrive ==
  \A t \in Loadable :
    (Quiet /\ FileIs(t) /\ watchFd /\ ~missed)
       ~> (cfg = t \/ ~FileIs(t) \/ missed \/ ~watchFd)

\* Reloading never wakes itself: once the editors stop, the handler comes to rest
\* (watch_dispatch(): rm_watch would generate events "into our own queue, causing
\* an infinite reload loop").
ReloadsSettle == <>[]Quiet => <>[](pc \in {"idle", "off"} /\ ~pending)

\* After an editor deleted and recreated the file, the new inode is watched
\* (src/parser/parser.c:1004).
RecreatedIsWatched ==
  Settled /\ Quiet /\ path # NoFile => path \in watch
=============================================================================
