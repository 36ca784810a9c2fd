------------------------- MODULE ConfigWatch_proofs -------------------------
(***************************************************************************)
(* Proofs about ConfigWatch for any editors, files and texts.  A step of   *)
(* an editor is one Change whose arguments have a common Shape; that a     *)
(* Change of that shape keeps the invariant is proved once.                *)
(***************************************************************************)
EXTENDS ConfigWatch, TLAPS

Stages == [stage : {"rest", "write", "temp", "gap", "tidy"},
           ino : Inodes \cup {NoFile}, old : Inodes \cup {NoFile}, to : Texts]

\* What an editor holds fits its stage, and a file written aside is nobody
\* else's, not watched and not yet at the path.
Fits(now) ==
  /\ now.stage \in {"rest", "gap", "tidy"} => now.ino = NoFile
  /\ now.stage \in {"write", "temp"} => now.ino # NoFile
  /\ now.stage \in {"rest", "temp"} => now.old = NoFile

Aside == \A e \in Editors : ed[e].stage = "temp" =>
  /\ ed[e].ino # path /\ ed[e].ino \notin watch
  /\ \A f \in Editors \ {e} : ed[e].ino # ed[f].ino /\ ed[e].ino # ed[f].old

Written(i) == \E e \in Editors : ed[e].stage = "write" /\ ed[e].ino = i

\* Nothing is watched before config_watch_start(); afterwards, while the handler
\* rests on a queue it has drained, something is.
Awake == /\ pc = "start" => watch = {}
         /\ pc = "idle" /\ watchFd /\ ~pending => watch # {}

\* What was read last is what the file holds, as long as nothing is pending: at
\* an unwatched file until anything changes, at a watched one until it is opened.
UpToDate ==
  ~missed /\ ~pending /\ path # NoFile =>
    /\ pc \in {"start", "rewatch"} /\ path \notin watch => seen = data[path]
    /\ pc \in {"idle", "rewatch"} /\ path \in watch => seen = data[path] \/ Written(path)

IInv == /\ TypeOK /\ Aside /\ Awake /\ UpToDate
        /\ \A e \in Editors : Fits(ed[e])

Shape(e, now, p, d, closed) ==
  /\ now \in Stages /\ Fits(now) /\ p \in Inodes \cup {NoFile} /\ d \in [Inodes -> Texts]
  /\ now.stage = "temp" => now.ino \in Free /\ p = path
  /\ \A f \in Editors \ {e} : ed[f].stage = "temp" => ed[f].ino \notin {now.ino, now.old, p}
  /\ p \in {path, NoFile} \/ p \notin watch
  /\ p = path /\ p # NoFile =>
       /\ d[p] # data[p] => p \in closed \/ (now.stage = "write" /\ now.ino = p)
       /\ ed[e].stage = "write" /\ ed[e].ino = p => p \in closed

-----------------------------------------------------------------------------
\* The facts a Change of the right shape leaves behind.
LEMMA ChangeKeeps ==
  ASSUME IInv, NEW e \in Editors, NEW now, NEW p, NEW d, NEW closed,
         Shape(e, now, p, d, closed), Change(e, now, p, d, closed)
  PROVE  IInv'
<1> DEFINE kept == Live(p, ed')
<1>1. /\ path' = p /\ ed' = [ed EXCEPT ![e] = now]
      /\ data' = [i \in Inodes |-> IF i \in kept THEN d[i] ELSE Part]
      /\ watch' = watch \cap kept
      /\ pending' = (pending \/ closed \cap watch # {} \/ watch \ kept # {})
      /\ missed' = \/ missed
                   \/ /\ pc \in {"start", "rewatch"}
                      /\ p \notin watch \cup {NoFile}
                      /\ p # path \/ d[p] # data[p]
  BY DEF Change
<1>2. pc' = pc /\ watchFd' = watchFd /\ seen' = seen /\ cfg' = cfg
  BY DEF Change, handler
<1>3. /\ path \in Inodes \cup {NoFile} /\ data \in [Inodes -> Texts]
      /\ ed \in [Editors -> Stages] /\ watch \subseteq Live(path, ed)
  BY DEF IInv, TypeOK, Stages
<1>4. /\ p \in Inodes \cup {NoFile} /\ now \in Stages /\ d \in [Inodes -> Texts]
      /\ ed' \in [Editors -> Stages] /\ ed'[e] = now
      /\ \A f \in Editors \ {e} : ed'[f] = ed[f]
  BY <1>1, <1>3 DEF Shape
<1>5. p # NoFile => p \in kept
  BY DEF Live
<1> HIDE DEF kept
<1>6. TypeOK'
  <2>1. data' \in [Inodes -> Texts]
    BY <1>1, <1>4 DEF Texts
  <2>2. watch' \subseteq Live(path', ed')
    BY <1>1 DEF kept
  <2>3. pending' \in BOOLEAN /\ missed' \in BOOLEAN
    BY <1>1 DEF IInv, TypeOK
  <2> QED BY <1>1, <1>2, <1>4, <2>1, <2>2, <2>3 DEF IInv, TypeOK, Stages
<1>7. Aside'
  <2> SUFFICES ASSUME NEW f \in Editors, ed'[f].stage = "temp"
               PROVE  /\ ed'[f].ino # path' /\ ed'[f].ino \notin watch'
                      /\ \A g \in Editors \ {f} :
                           ed'[f].ino # ed'[g].ino /\ ed'[f].ino # ed'[g].old
    BY DEF Aside
  <2>1. CASE f = e
    <3>1. now.ino \in Free /\ p = path
      BY <1>4, <2>1 DEF Shape
    <3>2. now.ino \notin watch /\ now.ino # path
      BY <3>1, <1>3, ConfigAssumption DEF Free, Live
    <3>3. \A g \in Editors : now.ino # ed[g].ino /\ now.ino # ed[g].old
      BY <3>1, <1>3, ConfigAssumption DEF Free, Live, Held
    <3> QED BY <1>1, <1>4, <2>1, <3>1, <3>2, <3>3
  <2>2. CASE f # e
    <3>1. ed[f].stage = "temp" /\ ed'[f] = ed[f]
      BY <1>4, <2>2
    <3>2. ed[f].ino \notin {now.ino, now.old, p} /\ ed[f].ino \notin watch
      BY <3>1, <2>2 DEF Shape, IInv, Aside
    <3>3. \A g \in Editors \ {f} : ed[f].ino # ed[g].ino /\ ed[f].ino # ed[g].old
      BY <3>1 DEF IInv, Aside
    <3> QED BY <1>1, <1>4, <3>1, <3>2, <3>3
  <2> QED BY <2>1, <2>2
<1>8. Awake'
  BY <1>1, <1>2 DEF IInv, Awake
<1>9. UpToDate'
  <2> SUFFICES ASSUME ~missed', ~pending', p # NoFile
               PROVE  /\ pc \in {"start", "rewatch"} /\ p \notin watch' => seen = data'[p]
                      /\ pc \in {"idle", "rewatch"} /\ p \in watch'
                           => seen = data'[p] \/ Written(p)'
    BY <1>1, <1>2 DEF UpToDate, Written
  <2>1. data'[p] = d[p] /\ watch' = watch /\ ~missed /\ ~pending
    BY <1>1, <1>4, <1>5
  <2>2. ASSUME pc \in {"start", "rewatch"}, p \notin watch
        PROVE  seen = d[p]
    <3>1. p = path /\ d[p] = data[p]
      BY <1>1, <2>2
    <3> QED BY <2>1, <2>2, <3>1 DEF IInv, UpToDate
  <2>3. ASSUME pc \in {"idle", "rewatch"}, p \in watch
        PROVE  seen = d[p] \/ Written(p)'
    <3>1. p = path /\ p \notin closed
      BY <1>1, <2>3 DEF Shape
    <3>2. seen = data[p] \/ Written(p)
      BY <2>1, <2>3, <3>1 DEF IInv, UpToDate
    <3>3. CASE Written(p)
      <4>1. PICK f \in Editors : ed[f].stage = "write" /\ ed[f].ino = p
        BY <3>3 DEF Written
      <4>2. f # e
        BY <3>1, <4>1 DEF Shape
      <4> QED BY <1>4, <4>1, <4>2 DEF Written
    <3>4. CASE seen = data[p]
      <4>1. d[p] # data[p] => now.stage = "write" /\ now.ino = p
        BY <3>1 DEF Shape
      <4> QED BY <1>4, <3>4, <4>1 DEF Written
    <3> QED BY <3>2, <3>3, <3>4
  <2> QED BY <2>1, <2>2, <2>3
<1>10. \A f \in Editors : Fits(ed'[f])
  BY <1>4 DEF Shape, IInv
<1> QED BY <1>6, <1>7, <1>8, <1>9, <1>10 DEF IInv, Fits

\* A file nobody holds is not watched and is no editor's.
LEMMA FreeIsFresh ==
  ASSUME IInv, NEW i \in Free
  PROVE  /\ i \in Inodes /\ i # NoFile /\ i # path /\ i \notin watch
         /\ \A e \in Editors : i # ed[e].ino /\ i # ed[e].old
BY ConfigAssumption DEF Free, Live, Held, IInv, TypeOK

\* Every step of an editor keeps the invariant.
LEMMA EditKeeps ==
  ASSUME IInv, NEW e \in Editors, Edit(e)
  PROVE  IInv'
<1>0. /\ path \in Inodes \cup {NoFile} /\ data \in [Inodes -> Texts]
      /\ ed \in [Editors -> Stages] /\ ed[e] \in Stages /\ Fits(ed[e])
      /\ Rest \in Stages /\ Fits(Rest)
      /\ \A f \in Editors : ed[f].stage = "temp" => ed[f].ino \in Inodes
  BY DEF IInv, TypeOK, Stages, Rest, Texts, Fits
<1>1. ASSUME NEW t \in Loadable \cup Broken, OpenInPlace(e, t)
      PROVE  IInv'
  <2> DEFINE now == Stage("write", path, NoFile, t)
             d   == [data EXCEPT ![path] = Part]
  <2>1. now \in Stages /\ Fits(now) /\ d \in [Inodes -> Texts]
    BY <1>0, <1>1 DEF OpenInPlace, Stage, Stages, Fits, Texts
  <2>2. now.stage = "write" /\ now.ino = path /\ now.old = NoFile /\ ed[e].stage = "rest"
    BY <1>1 DEF Stage, OpenInPlace
  <2>3. Shape(e, now, path, d, {})
    BY <1>0, <2>1, <2>2, ConfigAssumption DEF Shape, IInv, Aside
  <2> QED BY <1>1, <2>3, ChangeKeeps DEF OpenInPlace
<1>2. ASSUME NEW t \in Loadable \cup Broken, WriteAside(e, t)
      PROVE  IInv'
  <2>1. PICK i \in Free :
          Change(e, Stage("temp", i, NoFile, t), path, [data EXCEPT ![i] = t], {})
    BY <1>2 DEF WriteAside
  <2> DEFINE now == Stage("temp", i, NoFile, t)
             d   == [data EXCEPT ![i] = t]
  <2>2. /\ i \in Inodes /\ i # NoFile /\ i # path /\ i \notin watch
        /\ \A f \in Editors : i # ed[f].ino /\ i # ed[f].old
    BY FreeIsFresh
  <2>3. now \in Stages /\ Fits(now) /\ d \in [Inodes -> Texts]
    BY <1>0, <2>2 DEF Stage, Stages, Fits, Texts
  <2>4. now.stage = "temp" /\ now.ino = i /\ now.old = NoFile /\ ed[e].stage = "rest"
    BY <1>2 DEF Stage, WriteAside
  <2>5. d[path] = data[path] \/ path = NoFile
    BY <1>0, <2>2
  <2>6. Shape(e, now, path, d, {})
    BY <1>0, <2>2, <2>3, <2>4, <2>5, ConfigAssumption DEF Shape, IInv, Aside
  <2> QED BY <2>1, <2>6, ChangeKeeps
<1>3. ASSUME RenameOver(e)
      PROVE  IInv'
  <2>1. ed[e].stage = "temp" /\ ed[e].ino # path /\ ed[e].ino \notin watch
    BY <1>3 DEF RenameOver, IInv, Aside
  <2>2. ed[e].ino \in Inodes
    BY <1>0, <2>1
  <2>3. Shape(e, Rest, ed[e].ino, data, {})
    BY <1>0, <2>1, <2>2, ConfigAssumption DEF Shape, IInv, Aside, Rest
  <2> QED BY <1>3, <2>3, ChangeKeeps DEF RenameOver
<1>4. ASSUME NEW t \in Loadable \cup Broken, MoveAway(e, t)
      PROVE  IInv'
  <2> DEFINE now == Stage("gap", NoFile, path, t)
  <2>1. now \in Stages /\ Fits(now)
    BY <1>0 DEF Stage, Stages, Fits, Texts
  <2>2. now.stage = "gap" /\ now.ino = NoFile /\ now.old = path
    BY DEF Stage
  <2>3. Shape(e, now, NoFile, data, {})
    BY <1>0, <2>1, <2>2, ConfigAssumption DEF Shape, IInv, Aside
  <2> QED BY <1>4, <2>3, ChangeKeeps DEF MoveAway
<1>5. ASSUME NEW t \in Loadable \cup Broken, Delete(e, t)
      PROVE  IInv'
  <2> DEFINE now == Stage("gap", NoFile, NoFile, t)
  <2>1. now \in Stages /\ Fits(now)
    BY <1>0 DEF Stage, Stages, Fits, Texts
  <2>2. now.stage = "gap" /\ now.ino = NoFile /\ now.old = NoFile
    BY DEF Stage
  <2>3. Shape(e, now, NoFile, data, {})
    BY <1>0, <2>1, <2>2, ConfigAssumption DEF Shape, IInv, Aside
  <2> QED BY <1>5, <2>3, ChangeKeeps DEF Delete
<1>6. ASSUME Create(e)
      PROVE  IInv'
  <2>1. PICK i \in IF path = NoFile THEN Free ELSE {path} :
          Change(e, Stage("write", i, ed[e].old, ed[e].to), i, [data EXCEPT ![i] = Part], {})
    BY <1>6 DEF Create
  <2> DEFINE now == Stage("write", i, ed[e].old, ed[e].to)
             d   == [data EXCEPT ![i] = Part]
  <2>2. /\ i \in Inodes /\ i # NoFile /\ (i = path \/ i \notin watch)
        /\ \A f \in Editors : ed[f].stage = "temp" => i # ed[f].ino
    BY <1>0, <2>1, FreeIsFresh DEF IInv, Aside
  <2>3. now \in Stages /\ Fits(now) /\ d \in [Inodes -> Texts]
    BY <1>0, <2>2 DEF Stage, Stages, Fits, Texts
  <2>4. now.stage = "write" /\ now.ino = i /\ now.old = ed[e].old /\ ed[e].stage = "gap"
    BY <1>6 DEF Stage, Create
  <2>5. Shape(e, now, i, d, {})
    BY <1>0, <2>2, <2>3, <2>4, ConfigAssumption DEF Shape, IInv, Aside
  <2> QED BY <2>1, <2>5, ChangeKeeps
<1>7. ASSUME Close(e)
      PROVE  IInv'
  <2> DEFINE now == IF ed[e].old = NoFile THEN Rest ELSE Stage("tidy", NoFile, ed[e].old, Part)
             d   == [data EXCEPT ![ed[e].ino] = ed[e].to]
  <2>1. ed[e].stage = "write" /\ ed[e].ino \in Inodes
    BY <1>0, <1>7 DEF Close, Stages, Fits
  <2>2. now \in Stages /\ Fits(now) /\ d \in [Inodes -> Texts]
    BY <1>0, <2>1 DEF Stage, Stages, Fits, Texts
  <2>3. now.stage # "temp" /\ now.ino = NoFile /\ now.old \in {NoFile, ed[e].old}
    BY DEF Stage, Rest
  <2>4. path = NoFile \/ path = ed[e].ino \/ d[path] = data[path]
    BY <1>0, <2>1
  <2> HIDE DEF now, d
  <2>5. Shape(e, now, path, d, {ed[e].ino})
    <3>1. \A f \in Editors \ {e} : ed[f].stage = "temp" => ed[f].ino \notin {now.ino, now.old, path}
      BY <1>0, <2>3, ConfigAssumption DEF IInv, Aside
    <3>2. path = NoFile \/ path = ed[e].ino \/ d[path] = data[path]
      BY <2>4
    <3>3. path \in Inodes \cup {NoFile}
      BY <1>0
    <3> QED BY <2>2, <2>3, <3>1, <3>2, <3>3 DEF Shape
  <2> QED BY <1>7, <2>5, ChangeKeeps DEF Close, now, d
<1>8. ASSUME DropBackup(e)
      PROVE  IInv'
  <2>1. Shape(e, Rest, path, data, {})
    BY <1>0, <1>8, ConfigAssumption DEF Shape, IInv, Aside, Rest, DropBackup
  <2> QED BY <1>8, <2>1, ChangeKeeps DEF DropBackup
<1> QED BY <1>1, <1>2, <1>3, <1>4, <1>5, <1>6, <1>7, <1>8 DEF Edit

\* What a load leaves behind.
LEMMA LoadedText ==
  ASSUME IInv, ConfigLoad
  PROVE  /\ seen' \in Texts \cup {NoFile} /\ cfg' \in Loadable \cup {Part}
         /\ missed' = FALSE /\ (path # NoFile => seen' = data[path])
<1>1. seen' \in Texts \cup {NoFile}
  BY DEF ConfigLoad, IInv, TypeOK
<1>2. cfg' \in Loadable \cup {Part}
  BY <1>1 DEF ConfigLoad, Applied, IInv, TypeOK
<1> QED BY <1>1, <1>2 DEF ConfigLoad

\* Every step of the compositor keeps the invariant.
LEMMA HandlerKeeps ==
  ASSUME IInv, Handle \/ DoReload \/ ConfigWatchStop
  PROVE  IInv'
<1>1. /\ path' = path /\ data' = data /\ ed' = ed
  BY DEF Handle, DoReload, ConfigWatchStop, ConfigWatchStart, DispatchRead,
         DispatchLoad, DispatchRewatch, files
<1>2. (\A e \in Editors : Fits(ed[e]))'
  BY <1>1 DEF IInv, Fits
<1>3. \A e \in Editors : ed[e].stage = "temp" => ed[e].ino # path
  BY DEF IInv, Aside
<1>4. ASSUME watch' \subseteq watch \cup ({path} \ {NoFile})
      PROVE  Aside' /\ watch' \subseteq Live(path', ed')
  <2>1. watch' \subseteq Live(path', ed')
    BY <1>1, <1>4 DEF IInv, TypeOK, Live, Held
  <2> QED BY <1>1, <1>3, <1>4, <2>1 DEF IInv, Aside
<1>5. CASE ConfigWatchStart
  <2>1. TypeOK' /\ Aside'
    BY <1>1, <1>4, <1>5 DEF ConfigWatchStart, AddWatch, IInv, TypeOK
  <2>2. Awake' /\ UpToDate'
    BY <1>1, <1>5 DEF ConfigWatchStart, AddWatch, IInv, Awake, UpToDate
  <2> QED BY <1>2, <2>1, <2>2 DEF IInv
<1>6. CASE DispatchRead
  <2>1. TypeOK' /\ Aside'
    BY <1>1, <1>4, <1>6 DEF DispatchRead, IInv, TypeOK
  <2>2. Awake' /\ UpToDate'
    BY <1>6 DEF DispatchRead, Awake, UpToDate
  <2> QED BY <1>2, <2>1, <2>2 DEF IInv
<1>7. CASE DispatchLoad
  <2>1. TypeOK' /\ Aside'
    BY <1>1, <1>4, <1>7, LoadedText DEF DispatchLoad, IInv, TypeOK
  <2>2. Awake' /\ UpToDate'
    BY <1>1, <1>7, LoadedText DEF DispatchLoad, Awake, UpToDate
  <2> QED BY <1>2, <2>1, <2>2 DEF IInv
<1>8. CASE DispatchRewatch
  <2>1. TypeOK' /\ Aside'
    BY <1>1, <1>4, <1>8 DEF DispatchRewatch, AddWatch, IInv, TypeOK
  <2>2. Awake' /\ UpToDate'
    BY <1>1, <1>8, ConfigAssumption
       DEF DispatchRewatch, AddWatch, IInv, Awake, UpToDate, Written, TypeOK
  <2> QED BY <1>2, <2>1, <2>2 DEF IInv
<1>9. CASE DoReload
  <2>1. TypeOK' /\ Aside'
    BY <1>1, <1>4, <1>9, LoadedText DEF DoReload, IInv, TypeOK
  <2>2. Awake' /\ UpToDate'
    BY <1>1, <1>9, LoadedText DEF DoReload, IInv, Awake, UpToDate
  <2> QED BY <1>2, <2>1, <2>2 DEF IInv
<1>10. CASE ConfigWatchStop
  <2>1. TypeOK' /\ Aside'
    BY <1>1, <1>4, <1>10 DEF ConfigWatchStop, IInv, TypeOK
  <2>2. Awake' /\ UpToDate'
    BY <1>10 DEF ConfigWatchStop, Awake, UpToDate
  <2> QED BY <1>2, <2>1, <2>2 DEF IInv
<1> QED BY <1>5, <1>6, <1>7, <1>8, <1>9, <1>10 DEF Handle

LEMMA Inductive == Spec => []IInv
<1>1. Init => IInv
  <2> SUFFICES ASSUME Init
               PROVE  IInv
    OBVIOUS
  <2>1. \A e \in Editors : ed[e] = Rest
    BY DEF Init
  <2>2. TypeOK
    BY DEF Init, TypeOK, Rest, Texts
  <2>3. Aside /\ (\A e \in Editors : Fits(ed[e]))
    BY <2>1 DEF Aside, Fits, Rest
  <2>4. Awake /\ UpToDate
    BY DEF Init, Awake, UpToDate
  <2> QED BY <2>2, <2>3, <2>4 DEF IInv
<1>2. IInv /\ [Next]_vars => IInv'
  <2> SUFFICES ASSUME IInv, [Next]_vars
               PROVE  IInv'
    OBVIOUS
  <2>1. CASE Next
    BY <2>1, EditKeeps, HandlerKeeps DEF Next
  <2>2. CASE UNCHANGED vars
    <3>1. TypeOK' /\ Aside' /\ Awake'
      BY <2>2 DEF IInv, TypeOK, Aside, Awake, Live, Held, vars
    <3>2. UpToDate' /\ (\A e \in Editors : Fits(ed[e]))'
      BY <2>2 DEF IInv, UpToDate, Written, Fits, vars
    <3> QED BY <3>1, <3>2 DEF IInv
  <2> QED BY <2>1, <2>2
<1> QED BY <1>1, <1>2, PTL DEF Spec

-----------------------------------------------------------------------------
\* The state of the watch keeps its type; in particular only files that still
\* have a name or a holder are watched.
THEOREM TypeCorrect == Spec => []TypeOK
<1>1. IInv => TypeOK
  BY DEF IInv
<1> QED BY <1>1, Inductive, PTL

\* However many editors save, and however: at rest after a watch that could be
\* placed, the file is watched or a watched one is still to be closed or deleted.
THEOREM WatchIsKept == Spec => []WatchFollows
<1>1. IInv => WatchFollows
  BY DEF IInv, TypeOK, Awake, WatchFollows, Settled, Live
<1> QED BY <1>1, Inductive, PTL

\* However many editors save, the only saves that go unseen are those between a
\* load and the next watch, and those after a watch that could not be placed.
THEOREM SavesAreSeen == Spec => []NoSaveUnseen
<1> SUFFICES ASSUME IInv
             PROVE  NoSaveUnseen
  BY Inductive, PTL
<1>1. SUFFICES ASSUME Settled, watchFd, Quiet, path # NoFile, ~missed
               PROVE  seen = data[path]
  BY DEF NoSaveUnseen
<1>2. Held(ed) \subseteq {NoFile} /\ ~Written(path)
  BY <1>1 DEF Quiet, Held, IInv, Fits, Written
<1>3. path \in watch
  BY <1>1, <1>2 DEF Settled, IInv, TypeOK, Awake, Live
<1> QED BY <1>1, <1>2, <1>3 DEF Settled, IInv, UpToDate
=============================================================================
