------------------------------ MODULE ExtWorkspace ------------------------------
(***************************************************************************)
(* The ext-workspace-v1 protocol server (src/src/wlr_ext_workspace_v1.c)    *)
(* and its use by the window manager (ext_workspace.c): every output is a   *)
(* workspace group and every tag of it a workspace of that group.           *)
(*                                                                          *)
(* A viewer is a client's binding of the manager global.  The server sends  *)
(* it events as outputs and tags change, and a `done` event, from an idle   *)
(* callback, once a batch of them is complete.  Its requests are queued and *)
(* take effect when it commits.                                             *)
(*                                                                          *)
(* Handles are named by output and tag: a handle freed and allocated again  *)
(* when its output returns has the same name, as the allocator may give it  *)
(* the same address.                                                        *)
(*                                                                          *)
(* Left out here: names, ids, capabilities and coordinates, the urgent and  *)
(* hidden states (set by the same function as the active one), the          *)
(* wl_output objects of a group, allocation failures, display shutdown.     *)
(***************************************************************************)
EXTENDS Integers, Sequences, FiniteSets

CONSTANTS
  Viewers, Outputs, Tags,
  NoViewer, NoOutput, NoSpace,
  QueueMax,  (* bound on the requests a viewer has queued                   *)
  DropMax    (* bound on the handles it has given up                        *)

Spaces == Outputs \X Tags

ASSUME NamesAssumption ==
  /\ NoViewer \notin Viewers /\ NoOutput \notin Outputs /\ NoSpace \notin Spaces
  /\ 1 \in Tags
  /\ QueueMax \in Nat /\ DropMax \in Nat

Request ==
  [type : {"activate", "deactivate", "assign", "remove", "create"},
   space : Spaces \cup {NoSpace}, group : Outputs \cup {NoOutput}]

(* What the events sent so far tell a viewer.                               *)
Picture ==
  [groups : SUBSET Outputs, spaces : SUBSET Spaces, active : SUBSET Spaces,
   members : SUBSET Spaces]

Blank == [groups |-> {}, spaces |-> {}, active |-> {}, members |-> {}]

VARIABLES
  plugged,     (* the outputs, each with its group and workspace handles    *)
  selmon,
  tagset,      (* the tags in view on each output                           *)
  active,      (* the workspaces whose state has the active bit             *)
  bound,       (* the viewers with a manager resource                       *)
  spaceres,    (* the workspaces and groups each viewer has a resource for  *)
  groupres,
  requests,    (* manager_res->requests                                     *)
  serving,     (* the viewer whose commit is being handled                  *)
  idle_source, (* whether handle_idle() is scheduled                        *)
  sent,        (* the picture each viewer has by the events it was sent     *)
  undone,      (* the viewers sent events since their last `done`           *)
  dropped      (* history: what each viewer gave up of what it was told     *)

vars == <<plugged, selmon, tagset, active, bound, spaceres, groupres, requests,
          serving, idle_source, sent, undone, dropped>>

SpacesOf(m) == {m} \X Tags

Live == plugged \X Tags

Init ==
  /\ plugged = {} /\ selmon = NoOutput
  /\ tagset = [m \in Outputs |-> {1}]
  /\ active = {}
  /\ bound = {}
  /\ spaceres = [k \in Viewers |-> {}] /\ groupres = [k \in Viewers |-> {}]
  /\ requests = [k \in Viewers |-> <<>>]
  /\ serving = NoViewer
  /\ idle_source = FALSE
  /\ sent = [k \in Viewers |-> Blank] /\ undone = {}
  /\ dropped = [k \in Viewers |-> [groups |-> {}, spaces |-> {}]]

(* One thread: nothing else runs while a commit is handled.                 *)
Free == serving = NoViewer

-----------------------------------------------------------------------------
(* ext_workspace_printstatus() of every output: the state events tell each  *)
(* viewer of the workspaces that changed.                                   *)

InView(P, T) == {h \in P \X Tags : h[2] \in T[h[1]]}

SendStates(picture, res, changed, now) ==
  [groups |-> picture.groups, spaces |-> picture.spaces, members |-> picture.members,
   active |-> (picture.active \ (changed \cap res)) \cup (now \cap changed \cap res)]

(* Mutant of PrintStatus: nobody is told that the batch is complete.        *)
PrintStatusNotDone ==
  LET now == InView(plugged, tagset')
      changed == (now \ active) \cup (active \ now)
  IN  /\ active' = now
      /\ sent' = [k \in Viewers |-> SendStates(sent[k], spaceres[k], changed, now)]
      /\ undone' = undone \cup {k \in Viewers : changed \cap spaceres[k] # {}}
      /\ UNCHANGED idle_source

PrintStatus ==
  LET now == InView(plugged, tagset')
      changed == (now \ active) \cup (active \ now)
  IN  /\ active' = now
      /\ sent' = [k \in Viewers |-> SendStates(sent[k], spaceres[k], changed, now)]
      /\ undone' = undone \cup {k \in Viewers : changed \cap spaceres[k] # {}}
      /\ idle_source' = (idle_source \/ changed # {})

(* Mutant of SetTags: the status is not printed.                            *)
SetTagsSilently(m, tags) ==
  /\ tagset' = [tagset EXCEPT ![m] = tags]
  /\ UNCHANGED <<active, sent, undone, idle_source>>

(* view(), toggleview(): the tags change and printstatus() runs.            *)
SetTags(m, tags) ==
  /\ tagset' = [tagset EXCEPT ![m] = tags]
  /\ PrintStatus

(* By keybinding or another protocol, to any set of tags (IPC may empty it).*)
ChangeTags(m, tags) ==
  /\ Free
  /\ m \in plugged
  /\ SetTags(m, tags)
  /\ UNCHANGED <<plugged, selmon, bound, spaceres, groupres, requests, serving,
                 dropped>>

(* focusmon(), closemon() and updatemons(): what the commit handler acts on. *)
Select(m) ==
  /\ Free
  /\ m \in plugged \cup {NoOutput}
  /\ selmon' = m
  /\ UNCHANGED <<plugged, tagset, active, bound, spaceres, groupres, requests,
                 serving, idle_source, sent, undone, dropped>>

-----------------------------------------------------------------------------
(* createmon() and cleanupmon().                                            *)

Announced(picture, m) ==
  [groups |-> picture.groups \cup {m},
   spaces |-> picture.spaces \cup SpacesOf(m),
   active |-> picture.active \cup {<<m, 1>>},
   members |-> picture.members \cup SpacesOf(m)]

Plug(m) ==
  /\ Free
  /\ m \notin plugged
  /\ plugged' = plugged \cup {m}
  /\ IF selmon = NoOutput THEN selmon' = m ELSE UNCHANGED selmon
  /\ tagset' = [tagset EXCEPT ![m] = {1}]
  /\ active' = active \cup {<<m, 1>>}
  /\ spaceres' = [k \in Viewers |-> spaceres[k] \cup {h \in SpacesOf(m) : k \in bound}]
  /\ groupres' = [k \in Viewers |-> groupres[k] \cup {n \in {m} : k \in bound}]
  /\ sent' = [k \in Viewers |-> IF k \in bound THEN Announced(sent[k], m) ELSE sent[k]]
  /\ idle_source' = TRUE
  /\ undone' = undone \cup bound
  /\ UNCHANGED <<bound, requests, serving, dropped>>

(* Mutant of Cleared: the group of an assign request keeps its pointer.     *)
ClearedSpaces(q, m) ==
  [i \in 1..Len(q) |->
     [type |-> q[i].type,
      space |-> IF q[i].space \in SpacesOf(m) THEN NoSpace ELSE q[i].space,
      group |-> q[i].group]]

(* clear_requests_by(), for the workspaces and the group of m.              *)
Cleared(q, m) ==
  [i \in 1..Len(q) |->
     [type |-> q[i].type,
      space |-> IF q[i].space \in SpacesOf(m) THEN NoSpace ELSE q[i].space,
      group |-> IF q[i].group = m THEN NoOutput ELSE q[i].group]]

(* The workspaces that are in a group other than those.                     *)
Grouped(spaces, groups) == {h \in spaces : h[1] \notin groups}

(* After `removed` events, or its own destroy requests, a viewer forgets.   *)
Without(picture, groups, spaces) ==
  [groups |-> picture.groups \ groups,
   spaces |-> picture.spaces \ spaces,
   active |-> picture.active \ spaces,
   members |-> Grouped(picture.members \ spaces, groups)]

(* closemon() has selected another output, or none, by then; the Monitor is *)
(* freed (tagset goes back to its initial value, unread until the next).    *)
Unplug(m) ==
  /\ Free
  /\ m \in plugged
  /\ plugged' = plugged \ {m}
  /\ IF selmon = m THEN selmon' \in plugged' \cup {NoOutput} ELSE selmon' = selmon
  /\ tagset' = [tagset EXCEPT ![m] = {1}]
  /\ active' = active \ SpacesOf(m)
  /\ spaceres' = [k \in Viewers |-> spaceres[k] \ SpacesOf(m)]
  /\ groupres' = [k \in Viewers |-> groupres[k] \ {m}]
  /\ requests' = [k \in Viewers |-> Cleared(requests[k], m)]
  /\ sent' = [k \in Viewers |->
                Without(sent[k], {m} \cap groupres[k], SpacesOf(m) \cap spaceres[k])]
  /\ dropped' = [k \in Viewers |-> [groups |-> dropped[k].groups \ {m},
                                    spaces |-> dropped[k].spaces \ SpacesOf(m)]]
  /\ idle_source' = TRUE
  /\ undone' = undone \cup {k \in Viewers :
                          m \in groupres[k] \/ SpacesOf(m) \cap spaceres[k] # {}}
  /\ UNCHANGED <<bound, serving>>

-----------------------------------------------------------------------------
(* Viewers.                                                                 *)

(* Mutant of Snapshot: the workspaces are sent before there are groups.     *)
SnapshotUngrouped ==
  [groups |-> plugged, spaces |-> Live, active |-> active, members |-> {}]

(* manager_bind(): the groups, then the workspaces, each entering its group.*)
Snapshot == [groups |-> plugged, spaces |-> Live, active |-> active, members |-> Live]

Bind(k) ==
  /\ Free
  /\ k \notin bound
  /\ bound' = bound \cup {k}
  /\ spaceres' = [spaceres EXCEPT ![k] = Live]
  /\ groupres' = [groupres EXCEPT ![k] = plugged]
  /\ sent' = [sent EXCEPT ![k] = Snapshot]
  /\ idle_source' = (idle_source \/ plugged # {})
  /\ UNCHANGED <<plugged, selmon, tagset, active, requests, serving, undone, dropped>>

(* Mutant of Stop: the queue stays.                                         *)
StopKeepingRequests(k) ==
  /\ Free
  /\ k \in bound
  /\ bound' = bound \ {k}
  /\ spaceres' = [spaceres EXCEPT ![k] = {}]
  /\ groupres' = [groupres EXCEPT ![k] = {}]
  /\ sent' = [sent EXCEPT ![k] = Blank]
  /\ undone' = undone \ {k}
  /\ dropped' = [dropped EXCEPT ![k] = [groups |-> {}, spaces |-> {}]]
  /\ UNCHANGED <<plugged, selmon, tagset, active, requests, serving, idle_source>>

(* The stop request, or the client going away.                              *)
Stop(k) ==
  /\ Free
  /\ k \in bound
  /\ bound' = bound \ {k}
  /\ requests' = [requests EXCEPT ![k] = <<>>]
  /\ spaceres' = [spaceres EXCEPT ![k] = {}]
  /\ groupres' = [groupres EXCEPT ![k] = {}]
  /\ sent' = [sent EXCEPT ![k] = Blank]
  /\ undone' = undone \ {k}
  /\ dropped' = [dropped EXCEPT ![k] = [groups |-> {}, spaces |-> {}]]
  /\ UNCHANGED <<plugged, selmon, tagset, active, serving, idle_source>>

(* The destroy requests of a workspace and of a group: events about it end, *)
(* requests already queued stay.                                            *)
Drop(k, groups, spaces) ==
  /\ Free
  /\ Cardinality(dropped[k].groups) + Cardinality(dropped[k].spaces) < DropMax
  /\ groups \subseteq groupres[k] /\ spaces \subseteq spaceres[k]
  /\ spaceres' = [spaceres EXCEPT ![k] = @ \ spaces]
  /\ groupres' = [groupres EXCEPT ![k] = @ \ groups]
  /\ sent' = [sent EXCEPT ![k] = Without(@, groups, spaces)]
  /\ dropped' = [dropped EXCEPT ![k] = [groups |-> @.groups \cup groups,
                                        spaces |-> @.spaces \cup spaces]]
  /\ UNCHANGED <<plugged, selmon, tagset, active, bound, requests, serving, idle_source,
                 undone>>

(* A request on an object without a resource is ignored.                    *)
Post(k, type, space, group) ==
  /\ Free
  /\ Len(requests[k]) < QueueMax
  /\ requests' = [requests EXCEPT
       ![k] = Append(@, [type |-> type, space |-> space, group |-> group])]
  /\ UNCHANGED <<plugged, selmon, tagset, active, bound, spaceres, groupres, serving,
                 idle_source, sent, undone, dropped>>

-----------------------------------------------------------------------------
(* manager_handle_commit(): the queue, from its head, then free again.      *)

Commit(k) ==
  /\ Free
  /\ k \in bound
  /\ serving' = k
  /\ UNCHANGED <<plugged, selmon, tagset, active, bound, spaceres, groupres, requests,
                 idle_source, sent, undone, dropped>>

(* The handler looks the workspace up among those that exist and acts on    *)
(* the selected output, whichever output the workspace belongs to.          *)
Acts(r) ==
  r.type \in {"activate", "deactivate"} /\ r.space \in Live /\ selmon # NoOutput

(* toggleview(): the tag goes from the view if it is in it, else enters it. *)
Toggled(tag) ==
  IF tag \in tagset[selmon] THEN tagset[selmon] \ {tag} ELSE tagset[selmon] \cup {tag}

Handle(r) ==
  \/ /\ Acts(r) /\ r.type = "activate"
     /\ SetTags(selmon, {r.space[2]})
  \/ /\ Acts(r) /\ r.type = "deactivate" /\ Toggled(r.space[2]) # {}
     /\ SetTags(selmon, Toggled(r.space[2]))
  \/ /\ Acts(r) => (r.type = "deactivate" /\ Toggled(r.space[2]) = {})
     /\ UNCHANGED <<tagset, active, sent, undone, idle_source>>

Serve ==
  /\ serving # NoViewer
  /\ requests[serving] # <<>>
  /\ Handle(Head(requests[serving]))
  /\ requests' = [requests EXCEPT ![serving] = Tail(@)]
  /\ UNCHANGED <<plugged, selmon, bound, spaceres, groupres, serving, dropped>>

Served ==
  /\ serving # NoViewer
  /\ requests[serving] = <<>>
  /\ serving' = NoViewer
  /\ UNCHANGED <<plugged, selmon, tagset, active, bound, spaceres, groupres, requests,
                 idle_source, sent, undone, dropped>>

(* handle_idle(): `done` to every viewer.                                   *)
HandleIdle ==
  /\ Free
  /\ idle_source
  /\ undone' = undone \ bound
  /\ idle_source' = FALSE
  /\ UNCHANGED <<plugged, selmon, tagset, active, bound, spaceres, groupres, requests,
                 serving, sent, dropped>>

-----------------------------------------------------------------------------

PostSome(k) ==
  \/ \E h \in spaceres[k], type \in {"activate", "deactivate", "remove"} :
       Post(k, type, h, NoOutput)
  \/ \E h \in spaceres[k], m \in groupres[k] : Post(k, "assign", h, m)
  \/ \E m \in groupres[k] : Post(k, "create", NoSpace, m)

Next ==
  \/ \E m \in Outputs : Plug(m) \/ Unplug(m)
  \/ \E m \in Outputs \cup {NoOutput} : Select(m)
  \/ \E m \in Outputs, tags \in SUBSET Tags : ChangeTags(m, tags)
  \/ \E k \in Viewers : Bind(k) \/ Stop(k) \/ PostSome(k) \/ Commit(k)
  \/ \E k \in Viewers, h \in Spaces : Drop(k, {}, {h})
  \/ \E k \in Viewers, m \in Outputs : Drop(k, {m}, {})
  \/ Serve \/ Served \/ HandleIdle

Spec == Init /\ [][Next]_vars

(* A handler ends; the event loop calls idle callbacks in every iteration.  *)
FairSpec == Spec /\ WF_vars(Serve) /\ WF_vars(Served) /\ SF_vars(HandleIdle)

-----------------------------------------------------------------------------

(* What each part of the state may be.  A viewer without a manager has no   *)
(* resource, no queue and has been told nothing: destroy_manager_resource() *)
(* takes everything with it.                                                *)
TypeOK ==
  /\ plugged \subseteq Outputs
  /\ selmon \in plugged \cup {NoOutput}
  /\ tagset \in [Outputs -> SUBSET Tags]
  /\ active \subseteq Live
  /\ bound \subseteq Viewers
  /\ spaceres \in [Viewers -> SUBSET Live] /\ groupres \in [Viewers -> SUBSET plugged]
  /\ requests \in [Viewers -> Seq(Request)]
  /\ serving \in bound \cup {NoViewer}
  /\ idle_source \in BOOLEAN
  /\ sent \in [Viewers -> Picture]
  /\ undone \subseteq bound
  /\ dropped \in [Viewers -> [groups : SUBSET plugged, spaces : SUBSET Live]]
  /\ \A k \in Viewers \ bound :
       spaceres[k] = {} /\ groupres[k] = {} /\ requests[k] = <<>> /\ sent[k] = Blank

(* No queued request holds a handle that has been freed, whichever output   *)
(* goes while requests wait for their commit and whether or not the viewer  *)
(* still has a resource for the handle.                                     *)
QueuesLive ==
  \A k \in Viewers : \A i \in 1..Len(requests[k]) :
    /\ requests[k][i].space \in Live \cup {NoSpace}
    /\ requests[k][i].group \in plugged \cup {NoOutput}

(* printstatus() after every change of tags keeps the active bit of every   *)
(* workspace equal to what its output shows.                                *)
ActiveInView == active = InView(plugged, tagset)

(* The events a viewer got one by one add up to what it would be sent if it *)
(* bound now, but for what it gave up itself.                               *)
TruthFor(k) ==
  [groups |-> plugged \ dropped[k].groups,
   spaces |-> Live \ dropped[k].spaces,
   active |-> active \ dropped[k].spaces,
   members |-> Grouped(Live \ dropped[k].spaces, dropped[k].groups)]

PictureFaithful ==
  \A k \in bound :
    /\ sent[k] = TruthFor(k)
    /\ spaceres[k] = sent[k].spaces /\ groupres[k] = sent[k].groups

(* Whatever a viewer is told is followed by a `done`, or by its leaving.    *)
DoneComes == \A k \in Viewers : k \in undone ~> k \notin undone
=============================================================================
