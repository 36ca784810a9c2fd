-------------------------- MODULE ExtWorkspace_proofs --------------------------
(***************************************************************************)
(* Proofs, for any viewers, outputs, tags and bounds, that the state of     *)
(* ExtWorkspace keeps its type, that no queued request holds a freed        *)
(* handle, that the active bits follow the tags in view and that the events *)
(* a viewer gets add up to the truth.                                       *)
(***************************************************************************)
EXTENDS ExtWorkspace, SequenceTheorems, TLAPS

(* What the tags in view of the outputs make active are workspaces.         *)
LEMMA InViewLive ==
  ASSUME NEW P \in SUBSET Outputs, NEW T \in [Outputs -> SUBSET Tags]
  PROVE  InView(P, T) \subseteq P \X Tags
BY DEF InView

(* printstatus() leaves the state of every workspace well typed, and tells  *)
(* nothing to those who have no resource.                                   *)
LEMMA SetTagsTypes ==
  ASSUME TypeOK, NEW m \in Outputs, NEW tags \in SUBSET Tags, SetTags(m, tags)
  PROVE  /\ tagset' \in [Outputs -> SUBSET Tags]
         /\ active' \subseteq Live
         /\ idle_source' \in BOOLEAN
         /\ sent' \in [Viewers -> Picture]
         /\ undone' \subseteq bound
         /\ \A k \in Viewers \ bound : sent'[k] = Blank
<1> DEFINE now == InView(plugged, tagset')
           changed == (now \ active) \cup (active \ now)
<1>1. tagset' \in [Outputs -> SUBSET Tags]
  BY DEF TypeOK, SetTags
<1>2. now \subseteq Live
  BY <1>1, InViewLive DEF TypeOK, Live
<1>3. /\ active' = now
      /\ sent' = [k \in Viewers |-> SendStates(sent[k], spaceres[k], changed, now)]
      /\ undone' = undone \cup {k \in Viewers : changed \cap spaceres[k] # {}}
      /\ idle_source' = (idle_source \/ changed # {})
  BY DEF SetTags, PrintStatus
<1> HIDE DEF now, changed
<1>4. sent' \in [Viewers -> Picture]
  <2> SUFFICES ASSUME NEW k \in Viewers
               PROVE  SendStates(sent[k], spaceres[k], changed, now) \in Picture
    BY <1>3
  <2>1. now \subseteq Spaces
    BY <1>2 DEF TypeOK, Live, Spaces
  <2>2. sent[k] \in Picture
    BY DEF TypeOK
  <2> QED
    BY <2>1, <2>2 DEF SendStates, Picture
<1>5. ASSUME NEW k \in Viewers \ bound
      PROVE  sent'[k] = Blank /\ k \notin undone'
  BY <1>3, <1>5 DEF TypeOK, SendStates, Blank
<1>6. undone' \subseteq bound
  BY <1>3, <1>5 DEF TypeOK
<1>7. idle_source' \in BOOLEAN
  BY <1>3, Zenon DEF TypeOK
<1> QED
  BY <1>1, <1>2, <1>3, <1>4, <1>5, <1>6, <1>7

(* The queue with the handles of an output cleared: as long as before, with *)
(* nothing in it that was not there but null.                               *)
LEMMA ClearedQueue ==
  ASSUME NEW q \in Seq(Request), NEW m \in Outputs
  PROVE  /\ Cleared(q, m) \in Seq(Request)
         /\ Len(Cleared(q, m)) = Len(q)
         /\ \A i \in 1..Len(q) :
              /\ Cleared(q, m)[i].space \in {NoSpace, q[i].space} \ SpacesOf(m)
              /\ Cleared(q, m)[i].group \in {NoOutput, q[i].group} \ {m}
<1> DEFINE entry(i) ==
             [type |-> q[i].type,
              space |-> IF q[i].space \in SpacesOf(m) THEN NoSpace ELSE q[i].space,
              group |-> IF q[i].group = m THEN NoOutput ELSE q[i].group]
<1>1. Cleared(q, m) = [i \in 1..Len(q) |-> entry(i)]
  BY DEF Cleared
<1>2. ASSUME NEW i \in 1..Len(q)
      PROVE  entry(i) \in Request
  <2>1. q[i] \in Request
    OBVIOUS
  <2> QED
    BY <2>1 DEF Request
<1>3. Cleared(q, m) \in Seq(Request)
  BY <1>1, <1>2
<1>4. Len(Cleared(q, m)) = Len(q)
  BY <1>1
<1>5. ASSUME NEW i \in 1..Len(q)
      PROVE  /\ Cleared(q, m)[i].space \in {NoSpace, q[i].space} \ SpacesOf(m)
             /\ Cleared(q, m)[i].group \in {NoOutput, q[i].group} \ {m}
  BY <1>1, NamesAssumption DEF SpacesOf, Spaces
<1> QED
  BY <1>3, <1>4, <1>5

-----------------------------------------------------------------------------
(* Types.                                                                   *)

LEMMA InitTypes == Init => TypeOK
<1>1. Blank \in Picture
  BY DEF Blank, Picture
<1>2. <<>> \in Seq(Request)
  OBVIOUS
<1> SUFFICES ASSUME Init PROVE TypeOK
  OBVIOUS
<1>3. /\ plugged = {} /\ selmon = NoOutput /\ active = {} /\ bound = {} /\ undone = {}
      /\ serving = NoViewer /\ idle_source = FALSE
  BY DEF Init
<1>4. tagset \in [Outputs -> SUBSET Tags]
  BY NamesAssumption DEF Init
<1>5. spaceres \in [Viewers -> SUBSET Live] /\ groupres \in [Viewers -> SUBSET plugged]
  BY DEF Init
<1>6. requests \in [Viewers -> Seq(Request)]
  BY <1>2 DEF Init
<1>7. sent \in [Viewers -> Picture]
  BY <1>1 DEF Init
<1>8. dropped \in [Viewers -> [groups : SUBSET plugged, spaces : SUBSET Live]]
  BY DEF Init
<1>9. \A k \in Viewers \ bound :
         spaceres[k] = {} /\ groupres[k] = {} /\ requests[k] = <<>> /\ sent[k] = Blank
  BY DEF Init
<1> QED
  BY <1>3, <1>4, <1>5, <1>6, <1>7, <1>8, <1>9 DEF TypeOK

(* The requests that SetTags and the handler leave alone.                   *)
LEMMA SetTagsKeepsTypes ==
  ASSUME TypeOK, NEW m \in Outputs, NEW tags \in SUBSET Tags, SetTags(m, tags),
         UNCHANGED <<plugged, selmon, bound, spaceres, groupres, serving, dropped>>,
         requests' \in [Viewers -> Seq(Request)],
         \A k \in Viewers \ bound : requests'[k] = <<>>
  PROVE  TypeOK'
<1>1. /\ tagset' \in [Outputs -> SUBSET Tags]
      /\ active' \subseteq Live
      /\ idle_source' \in BOOLEAN
      /\ sent' \in [Viewers -> Picture]
      /\ undone' \subseteq bound
      /\ \A k \in Viewers \ bound : sent'[k] = Blank
  BY SetTagsTypes
<1> QED
  BY <1>1 DEF TypeOK, Live

LEMMA PlugTypes ==
  ASSUME TypeOK, NEW m \in Outputs, Plug(m)
  PROVE  TypeOK'
<1>1. SpacesOf(m) \subseteq Live' /\ Live \subseteq Live' /\ Live' \subseteq Spaces
  BY DEF TypeOK, Plug, Live, SpacesOf, Spaces
<1>2. /\ plugged' \subseteq Outputs /\ selmon' \in plugged' \cup {NoOutput}
      /\ tagset' \in [Outputs -> SUBSET Tags]
      /\ active' \subseteq Live'
      /\ idle_source' \in BOOLEAN
  BY <1>1, NamesAssumption DEF TypeOK, Plug, SpacesOf
<1>3. spaceres' \in [Viewers -> SUBSET Live'] /\ groupres' \in [Viewers -> SUBSET plugged']
  BY <1>1 DEF TypeOK, Plug
<1>4. sent' \in [Viewers -> Picture]
  <2>1. \A k \in Viewers : Announced(sent[k], m) \in Picture
    <3> SUFFICES ASSUME NEW k \in Viewers
                 PROVE  Announced(sent[k], m) \in Picture
      OBVIOUS
    <3>1. sent[k] \in Picture
      BY DEF TypeOK
    <3> QED
      BY <1>1, <3>1, NamesAssumption DEF Announced, Picture, SpacesOf
  <2> QED
    BY <2>1 DEF TypeOK, Plug
<1>5. dropped' \in [Viewers -> [groups : SUBSET plugged', spaces : SUBSET Live']]
  BY <1>1 DEF TypeOK, Plug
<1>6. \A k \in Viewers \ bound' :
        spaceres'[k] = {} /\ groupres'[k] = {} /\ requests'[k] = <<>> /\ sent'[k] = Blank
  BY DEF TypeOK, Plug
<1> QED
  BY <1>2, <1>3, <1>4, <1>5, <1>6 DEF TypeOK, Plug

LEMMA UnplugTypes ==
  ASSUME TypeOK, NEW m \in Outputs, Unplug(m)
  PROVE  TypeOK'
<1>1. Live \ SpacesOf(m) = Live' /\ plugged' = plugged \ {m}
  BY DEF Unplug, Live, SpacesOf
<1>2. /\ plugged' \subseteq Outputs /\ selmon' \in plugged' \cup {NoOutput}
      /\ tagset' \in [Outputs -> SUBSET Tags]
      /\ active' \subseteq Live'
      /\ idle_source' \in BOOLEAN
  BY <1>1, NamesAssumption DEF TypeOK, Unplug
<1>3. spaceres' \in [Viewers -> SUBSET Live'] /\ groupres' \in [Viewers -> SUBSET plugged']
  BY <1>1 DEF TypeOK, Unplug
<1>4. requests' \in [Viewers -> Seq(Request)]
  BY ClearedQueue DEF TypeOK, Unplug
<1>5. ASSUME NEW k \in Viewers, NEW G, NEW S
      PROVE  Without(sent[k], G, S) \in Picture
  <2>1. sent[k] \in Picture
    BY DEF TypeOK
  <2> QED
    BY <2>1 DEF Without, Grouped, Picture
<1>6. sent' \in [Viewers -> Picture]
  BY <1>5 DEF Unplug
<1>7. dropped' \in [Viewers -> [groups : SUBSET plugged', spaces : SUBSET Live']]
  BY <1>1 DEF TypeOK, Unplug
<1>8. undone' \subseteq bound'
  BY DEF TypeOK, Unplug
<1>9. ASSUME NEW k \in Viewers \ bound'
      PROVE  spaceres'[k] = {} /\ groupres'[k] = {} /\ requests'[k] = <<>> /\ sent'[k] = Blank
  <2>1. k \notin bound
    BY DEF Unplug
  <2>2. spaceres[k] = {} /\ groupres[k] = {} /\ requests[k] = <<>> /\ sent[k] = Blank
    BY <2>1 DEF TypeOK
  <2>3. Cleared(requests[k], m) = <<>>
    <3>1. requests[k] \in Seq(Request)
      BY DEF TypeOK
    <3> QED
      <4>1. /\ Cleared(requests[k], m) \in Seq(Request)
            /\ Len(Cleared(requests[k], m)) = Len(requests[k])
        BY <3>1, ClearedQueue
      <4>2. Len(requests[k]) = 0
        BY <2>2
      <4> QED
        BY <4>1, <4>2, EmptySeq
  <2>4. Without(Blank, {m} \cap {}, SpacesOf(m) \cap {}) = Blank
    BY DEF Without, Grouped, Blank
  <2> QED
    BY <2>2, <2>3, <2>4 DEF Unplug
<1> QED
  BY <1>2, <1>3, <1>4, <1>6, <1>7, <1>8, <1>9 DEF TypeOK, Unplug

LEMMA BindTypes ==
  ASSUME TypeOK, NEW k \in Viewers, Bind(k)
  PROVE  TypeOK'
<1>1. Live \subseteq Spaces
  BY DEF TypeOK, Live, Spaces
<1>2. Snapshot \in Picture
  BY <1>1 DEF TypeOK, Snapshot, Picture
<1> QED
  BY <1>2 DEF TypeOK, Bind, Live

LEMMA StopTypes ==
  ASSUME TypeOK, NEW k \in Viewers, Stop(k)
  PROVE  TypeOK'
<1>1. Blank \in Picture
  BY DEF Blank, Picture
<1>2. serving' \in bound' \cup {NoViewer} /\ undone' \subseteq bound'
  BY DEF TypeOK, Stop, Free
<1> QED
  BY <1>1, <1>2 DEF TypeOK, Stop, Live

LEMMA DropTypes ==
  ASSUME TypeOK, NEW k \in Viewers, NEW groups, NEW spaces, Drop(k, groups, spaces)
  PROVE  TypeOK'
<1>1. /\ groups \subseteq plugged /\ spaces \subseteq Live
      /\ k \notin bound => groups = {} /\ spaces = {}
  BY DEF TypeOK, Drop
<1>2. Without(sent[k], groups, spaces) \in Picture
  <2>1. sent[k] \in Picture
    BY DEF TypeOK
  <2> QED
    BY <2>1 DEF Without, Grouped, Picture
<1>3. sent' \in [Viewers -> Picture]
  BY <1>2 DEF TypeOK, Drop
<1>4. ASSUME NEW j \in Viewers \ bound'
      PROVE  spaceres'[j] = {} /\ groupres'[j] = {} /\ requests'[j] = <<>> /\ sent'[j] = Blank
  <2>1. Without(Blank, {}, {}) = Blank
    BY DEF Without, Grouped, Blank
  <2> QED
    BY <1>1, <2>1 DEF TypeOK, Drop
<1>5. dropped' \in [Viewers -> [groups : SUBSET plugged', spaces : SUBSET Live']]
  BY <1>1 DEF TypeOK, Drop, Live
<1> QED
  BY <1>3, <1>4, <1>5 DEF TypeOK, Drop, Live

(* Every step keeps the types, one case for each action.                    *)
LEMMA NextTypes == TypeOK /\ [Next]_vars => TypeOK'
<1> SUFFICES ASSUME TypeOK, [Next]_vars PROVE TypeOK'
  OBVIOUS
<1>1. ASSUME NEW m \in Outputs, Plug(m) PROVE TypeOK'
  BY <1>1, PlugTypes
<1>2. ASSUME NEW m \in Outputs, Unplug(m) PROVE TypeOK'
  BY <1>2, UnplugTypes
<1>3. ASSUME NEW m \in Outputs \cup {NoOutput}, Select(m) PROVE TypeOK'
  BY <1>3 DEF TypeOK, Select, Live
<1>4. ASSUME NEW m \in Outputs, NEW tags \in SUBSET Tags, ChangeTags(m, tags)
      PROVE  TypeOK'
  <2>1. requests' \in [Viewers -> Seq(Request)] /\ \A k \in Viewers \ bound : requests'[k] = <<>>
    BY <1>4 DEF TypeOK, ChangeTags
  <2> QED
    BY <1>4, <2>1, SetTagsKeepsTypes DEF ChangeTags
<1>5. ASSUME NEW k \in Viewers, Bind(k) PROVE TypeOK'
  BY <1>5, BindTypes
<1>6. ASSUME NEW k \in Viewers, Stop(k) PROVE TypeOK'
  BY <1>6, StopTypes
<1>7. ASSUME NEW k \in Viewers, PostSome(k) PROVE TypeOK'
  <2>1. ASSUME NEW type \in {"activate", "deactivate", "assign", "remove", "create"},
               NEW space \in spaceres[k] \cup {NoSpace}, NEW group \in groupres[k] \cup {NoOutput},
               space \in spaceres[k] \/ group \in groupres[k],
               Post(k, type, space, group)
        PROVE  TypeOK'
    <3>1. k \in bound
      BY <2>1 DEF TypeOK
    <3>2. [type |-> type, space |-> space, group |-> group] \in Request
      BY DEF TypeOK, Live, Request, Spaces
    <3>3. requests' \in [Viewers -> Seq(Request)]
      BY <2>1, <3>2 DEF TypeOK, Post
    <3>4. \A j \in Viewers \ bound : requests'[j] = <<>>
      BY <2>1, <3>1 DEF TypeOK, Post
    <3> QED
      BY <2>1, <3>3, <3>4 DEF TypeOK, Post, Live
  <2> QED
    BY <1>7, <2>1 DEF PostSome
<1>8. ASSUME NEW k \in Viewers, Commit(k) PROVE TypeOK'
  BY <1>8 DEF TypeOK, Commit, Live
<1>9. ASSUME NEW k \in Viewers, NEW groups, NEW spaces, Drop(k, groups, spaces) PROVE TypeOK'
  BY <1>9, DropTypes
<1>10. ASSUME Serve PROVE TypeOK'
  <2>1. serving \in bound /\ serving \in Viewers
    BY <1>10 DEF TypeOK, Serve
  <2>2. requests' \in [Viewers -> Seq(Request)]
    BY <1>10, <2>1 DEF TypeOK, Serve
  <2>3. \A k \in Viewers \ bound : requests'[k] = <<>>
    BY <1>10, <2>1 DEF TypeOK, Serve
  <2>4. UNCHANGED <<plugged, selmon, bound, spaceres, groupres, serving, dropped>>
    BY <1>10 DEF Serve
  <2> DEFINE r == Head(requests[serving])
  <2>5. CASE UNCHANGED <<tagset, active, sent, undone, idle_source>>
    BY <2>2, <2>3, <2>4, <2>5 DEF TypeOK, Live
  <2>6. CASE Acts(r) /\ SetTags(selmon, {r.space[2]})
    <3>1. selmon \in Outputs /\ {r.space[2]} \in SUBSET Tags
      BY <2>6 DEF Acts, Live, TypeOK
    <3> QED
      BY <2>2, <2>3, <2>4, <2>6, <3>1, SetTagsKeepsTypes
  <2>7. CASE Acts(r) /\ SetTags(selmon, Toggled(r.space[2]))
    <3>1. selmon \in Outputs
      BY <2>7 DEF Acts, TypeOK
    <3>2. r.space[2] \in Tags /\ tagset[selmon] \in SUBSET Tags
      BY <2>7, <3>1 DEF Acts, Live, TypeOK
    <3>3. Toggled(r.space[2]) \in SUBSET Tags
      BY <3>2 DEF Toggled
    <3> QED
      BY <2>2, <2>3, <2>4, <2>7, <3>1, <3>3, SetTagsKeepsTypes
  <2> QED
    BY <1>10, <2>5, <2>6, <2>7 DEF Serve, Handle
<1>11. ASSUME Served PROVE TypeOK'
  BY <1>11 DEF TypeOK, Served, Live
<1>12. ASSUME HandleIdle PROVE TypeOK'
  BY <1>12 DEF TypeOK, HandleIdle, Live
<1>13. CASE UNCHANGED vars
  BY <1>13 DEF TypeOK, vars, Live
<1> QED
  BY <1>1, <1>2, <1>3, <1>4, <1>5, <1>6, <1>7, <1>8, <1>9, <1>10, <1>11, <1>12, <1>13
     DEF Next

(* The state keeps its type; a viewer without a manager holds nothing.      *)
THEOREM TypeCorrect == Spec => []TypeOK
BY InitTypes, NextTypes, PTL DEF Spec

-----------------------------------------------------------------------------
(* Queues.                                                                  *)

LEMMA NextQueues == TypeOK /\ QueuesLive /\ [Next]_vars => QueuesLive'
<1> SUFFICES ASSUME TypeOK, QueuesLive, [Next]_vars PROVE QueuesLive'
  OBVIOUS
<1>1. CASE UNCHANGED <<plugged, requests>>
  BY <1>1 DEF QueuesLive, Live
<1>2. ASSUME NEW m \in Outputs, Plug(m) PROVE QueuesLive'
  BY <1>2 DEF QueuesLive, Plug, Live
<1>3. ASSUME NEW m \in Outputs, Unplug(m) PROVE QueuesLive'
  <2> SUFFICES ASSUME NEW k \in Viewers, NEW i \in 1..Len(requests'[k])
               PROVE  /\ requests'[k][i].space \in Live' \cup {NoSpace}
                      /\ requests'[k][i].group \in plugged' \cup {NoOutput}
    BY DEF QueuesLive
  <2>1. requests'[k] = Cleared(requests[k], m) /\ requests[k] \in Seq(Request)
    BY <1>3 DEF Unplug, TypeOK
  <2>2. i \in 1..Len(requests[k])
    BY <2>1, ClearedQueue
  <2>3. /\ requests[k][i].space \in Live \cup {NoSpace}
        /\ requests[k][i].group \in plugged \cup {NoOutput}
    BY <2>2 DEF QueuesLive
  <2>4. /\ requests'[k][i].space \in {NoSpace, requests[k][i].space} \ SpacesOf(m)
        /\ requests'[k][i].group \in {NoOutput, requests[k][i].group} \ {m}
    BY <2>1, <2>2, ClearedQueue
  <2>5. Live' = Live \ SpacesOf(m) /\ plugged' = plugged \ {m}
    BY <1>3 DEF Unplug, Live, SpacesOf
  <2> QED
    BY <2>3, <2>4, <2>5
<1>4. ASSUME NEW k \in Viewers, Stop(k) PROVE QueuesLive'
  BY <1>4 DEF QueuesLive, Stop, TypeOK, Live
<1>5. ASSUME NEW k \in Viewers, PostSome(k) PROVE QueuesLive'
  <2>1. ASSUME NEW type, NEW space \in Live \cup {NoSpace},
               NEW group \in plugged \cup {NoOutput}, Post(k, type, space, group)
        PROVE  QueuesLive'
    BY <2>1 DEF QueuesLive, Post, TypeOK, Live
  <2> QED
    BY <1>5, <2>1 DEF PostSome, TypeOK
<1>6. ASSUME Serve PROVE QueuesLive'
  <2>1. serving \in Viewers
    BY <1>6 DEF TypeOK, Serve
  <2>2. requests[serving] \in Seq(Request) /\ requests[serving] # <<>>
    BY <1>6, <2>1 DEF TypeOK, Serve
  <2>3. requests' = [requests EXCEPT ![serving] = Tail(@)] /\ plugged' = plugged
    BY <1>6 DEF Serve
  <2> QED
    BY <2>1, <2>2, <2>3 DEF QueuesLive, TypeOK, Live
<1> QED
  BY <1>1, <1>2, <1>3, <1>4, <1>5, <1>6
     DEF Next, Select, ChangeTags, Bind, Commit, Drop, Served, HandleIdle, vars

(* No queued request ever holds a freed handle.                             *)
THEOREM QueuesStayLive == Spec => []QueuesLive
<1>1. Init => QueuesLive
  BY DEF Init, QueuesLive
<1> QED
  BY <1>1, NextQueues, TypeCorrect, PTL DEF Spec

-----------------------------------------------------------------------------
(* The active state.                                                        *)

LEMMA NextActive == TypeOK /\ ActiveInView /\ [Next]_vars => ActiveInView'
<1> SUFFICES ASSUME TypeOK, ActiveInView, [Next]_vars PROVE ActiveInView'
  OBVIOUS
<1>1. CASE UNCHANGED <<plugged, tagset, active>>
  BY <1>1 DEF ActiveInView
<1>2. CASE plugged' = plugged /\ PrintStatus
  BY <1>2 DEF ActiveInView, PrintStatus
<1>3. ASSUME NEW m \in Outputs, Plug(m) PROVE ActiveInView'
  <2>1. /\ plugged' = plugged \cup {m} /\ m \notin plugged
        /\ tagset' = [tagset EXCEPT ![m] = {1}]
        /\ active' = active \cup {<<m, 1>>}
    BY <1>3 DEF Plug
  <2> QED
    BY <2>1, NamesAssumption DEF ActiveInView, InView, TypeOK
<1>4. ASSUME NEW m \in Outputs, Unplug(m) PROVE ActiveInView'
  <2>1. /\ plugged' = plugged \ {m}
        /\ tagset' = [tagset EXCEPT ![m] = {1}]
        /\ active' = active \ SpacesOf(m)
    BY <1>4 DEF Unplug
  <2> QED
    BY <2>1 DEF ActiveInView, InView, SpacesOf, TypeOK
<1> QED
  BY <1>1, <1>2, <1>3, <1>4
     DEF Next, Select, ChangeTags, SetTags, Bind, Stop, PostSome, Post, Commit, Drop, Serve,
         Handle, Served, HandleIdle, vars

(* Every workspace is active exactly when its output shows its tag.         *)
THEOREM ActiveStaysInView == Spec => []ActiveInView
<1>1. Init => ActiveInView
  BY DEF Init, ActiveInView, InView
<1> QED
  BY <1>1, NextActive, TypeCorrect, PTL DEF Spec

-----------------------------------------------------------------------------
(* What viewers are told.                                                   *)

LEMMA TruthFields ==
  ASSUME NEW k
  PROVE  /\ TruthFor(k).groups = plugged \ dropped[k].groups
         /\ TruthFor(k).spaces = Live \ dropped[k].spaces
         /\ TruthFor(k).active = active \ dropped[k].spaces
         /\ TruthFor(k).members = Grouped(Live \ dropped[k].spaces, dropped[k].groups)
BY DEF TruthFor

LEMMA PictureFields ==
  ASSUME PictureFaithful, NEW k \in bound
  PROVE  /\ sent[k] = TruthFor(k)
         /\ spaceres[k] = Live \ dropped[k].spaces
         /\ groupres[k] = plugged \ dropped[k].groups
<1>1. /\ sent[k] = TruthFor(k)
      /\ spaceres[k] = sent[k].spaces /\ groupres[k] = sent[k].groups
  BY DEF PictureFaithful
<1> QED
  BY <1>1, TruthFields

(* The state events of one printstatus() bring a picture that was true      *)
(* before the change to the truth after it.                                 *)
LEMMA StatesTold ==
  ASSUME TypeOK, PictureFaithful, plugged' = plugged, dropped' = dropped, PrintStatus,
         tagset' \in [Outputs -> SUBSET Tags], NEW k \in bound
  PROVE  sent'[k] = TruthFor(k)'
<1> DEFINE now == InView(plugged, tagset')
           changed == (now \ active) \cup (active \ now)
           gone == dropped[k].spaces
<1>1. k \in Viewers /\ active \subseteq Live /\ now \subseteq Live
  BY InViewLive DEF TypeOK, Live
<1>2. sent'[k] = SendStates(sent[k], spaceres[k], changed, now) /\ active' = now
  BY <1>1 DEF PrintStatus
<1>3. sent[k] = TruthFor(k) /\ spaceres[k] = Live \ gone
  BY PictureFields
<1> HIDE DEF now, changed
<1>4. ((active \ gone) \ (changed \cap (Live \ gone))) \cup (now \cap changed \cap (Live \ gone))
        = now \ gone
  BY <1>1 DEF changed
<1>5. sent'[k] = [groups |-> plugged \ dropped[k].groups, spaces |-> Live \ gone,
                  active |-> now \ gone,
                  members |-> Grouped(Live \ gone, dropped[k].groups)]
  BY <1>2, <1>3, <1>4, TruthFields DEF SendStates
<1> QED
  BY <1>2, <1>5 DEF TruthFor, Live

LEMMA StatesTellTruth ==
  ASSUME TypeOK, PictureFaithful, PrintStatus, tagset' \in [Outputs -> SUBSET Tags],
         UNCHANGED <<plugged, bound, spaceres, groupres, dropped>>
  PROVE  PictureFaithful'
<1> SUFFICES ASSUME NEW k \in bound
             PROVE  /\ sent'[k] = TruthFor(k)'
                    /\ spaceres'[k] = sent'[k].spaces /\ groupres'[k] = sent'[k].groups
  BY DEF PictureFaithful
<1>1. sent'[k] = TruthFor(k)'
  BY StatesTold
<1>2. spaceres[k] = Live \ dropped[k].spaces /\ groupres[k] = plugged \ dropped[k].groups
  BY PictureFields
<1>3. /\ TruthFor(k)'.groups = plugged \ dropped[k].groups
      /\ TruthFor(k)'.spaces = Live \ dropped[k].spaces
  BY DEF TruthFor, Live
<1> QED
  BY <1>1, <1>2, <1>3

LEMMA PlugTells ==
  ASSUME TypeOK, PictureFaithful, NEW m \in Outputs, Plug(m)
  PROVE  PictureFaithful'
<1> SUFFICES ASSUME NEW k \in bound
             PROVE  /\ sent'[k] = TruthFor(k)'
                    /\ spaceres'[k] = sent'[k].spaces /\ groupres'[k] = sent'[k].groups
  BY DEF PictureFaithful, Plug
<1>1. k \in Viewers /\ m \notin plugged
  BY DEF TypeOK, Plug
<1>2. dropped[k].groups \subseteq plugged /\ dropped[k].spaces \subseteq Live
  BY <1>1 DEF TypeOK
<1>3. m \notin dropped[k].groups /\ SpacesOf(m) \cap dropped[k].spaces = {}
  BY <1>1, <1>2 DEF Live, SpacesOf
<1>4. Live' = Live \cup SpacesOf(m) /\ <<m, 1>> \in SpacesOf(m)
  BY NamesAssumption DEF Plug, Live, SpacesOf
<1>5. /\ sent'[k] = Announced(TruthFor(k), m)
      /\ spaceres'[k] = (Live \ dropped[k].spaces) \cup SpacesOf(m)
      /\ groupres'[k] = (plugged \ dropped[k].groups) \cup {m}
  BY <1>1, PictureFields DEF Plug, TypeOK
<1>6. /\ plugged' = plugged \cup {m} /\ active' = active \cup {<<m, 1>>}
      /\ dropped' = dropped
  BY DEF Plug
<1>7. Grouped(Live \ dropped[k].spaces, dropped[k].groups) \cup SpacesOf(m)
        = Grouped(Live' \ dropped[k].spaces, dropped[k].groups)
  BY <1>3, <1>4 DEF SpacesOf, Grouped
<1>8. Announced(TruthFor(k), m) =
        [groups |-> plugged' \ dropped[k].groups,
         spaces |-> Live' \ dropped[k].spaces,
         active |-> active' \ dropped[k].spaces,
         members |-> Grouped(Live' \ dropped[k].spaces, dropped[k].groups)]
  BY <1>3, <1>4, <1>6, <1>7 DEF Announced, TruthFor
<1>9. Announced(TruthFor(k), m) = TruthFor(k)'
  BY <1>6, <1>8 DEF TruthFor
<1> QED
  BY <1>3, <1>4, <1>5, <1>6, <1>8, <1>9

LEMMA UnplugTells ==
  ASSUME TypeOK, PictureFaithful, NEW m \in Outputs, Unplug(m)
  PROVE  PictureFaithful'
<1> SUFFICES ASSUME NEW k \in bound
             PROVE  /\ sent'[k] = TruthFor(k)'
                    /\ spaceres'[k] = sent'[k].spaces /\ groupres'[k] = sent'[k].groups
  BY DEF PictureFaithful, Unplug
<1>1. k \in Viewers
  BY DEF TypeOK
<1> DEFINE G == dropped[k].groups
           S == dropped[k].spaces
<1>2. Live' = Live \ SpacesOf(m) /\ plugged' = plugged \ {m} /\ active' = active \ SpacesOf(m)
  BY DEF Unplug, Live, SpacesOf
<1>3. dropped'[k] = [groups |-> G \ {m}, spaces |-> S \ SpacesOf(m)]
  BY <1>1 DEF Unplug
<1>4. spaceres[k] = Live \ S /\ groupres[k] = plugged \ G /\ active \subseteq Live
  BY PictureFields DEF TypeOK
<1>5. sent'[k] = Without(TruthFor(k), {m} \cap (plugged \ G), SpacesOf(m) \cap (Live \ S))
  BY <1>1, <1>4, PictureFields DEF Unplug
<1>6. /\ spaceres'[k] = (Live \ S) \ SpacesOf(m)
      /\ groupres'[k] = (plugged \ G) \ {m}
  BY <1>1, <1>4 DEF Unplug
<1> HIDE DEF G, S
<1>7. Grouped(Grouped(Live \ S, G) \ (SpacesOf(m) \cap (Live \ S)), {m} \cap (plugged \ G))
        = Grouped(Live' \ (S \ SpacesOf(m)), G \ {m})
  BY <1>2 DEF Live, SpacesOf, Grouped
<1>8. Without(TruthFor(k), {m} \cap (plugged \ G), SpacesOf(m) \cap (Live \ S)) =
        [groups |-> plugged' \ (G \ {m}),
         spaces |-> Live' \ (S \ SpacesOf(m)),
         active |-> active' \ (S \ SpacesOf(m)),
         members |-> Grouped(Live' \ (S \ SpacesOf(m)), G \ {m})]
  <2>1. (plugged \ G) \ ({m} \cap (plugged \ G)) = plugged' \ (G \ {m})
    BY <1>2
  <2>2. (Live \ S) \ (SpacesOf(m) \cap (Live \ S)) = Live' \ (S \ SpacesOf(m))
    BY <1>2
  <2>3. (active \ S) \ (SpacesOf(m) \cap (Live \ S)) = active' \ (S \ SpacesOf(m))
    BY <1>2, <1>4
  <2>4. /\ TruthFor(k).groups = plugged \ G /\ TruthFor(k).spaces = Live \ S
        /\ TruthFor(k).active = active \ S /\ TruthFor(k).members = Grouped(Live \ S, G)
    BY TruthFields DEF G, S
  <2> QED
    BY <1>7, <2>1, <2>2, <2>3, <2>4 DEF Without
<1>9. sent'[k] = TruthFor(k)'
  BY <1>3, <1>5, <1>8 DEF TruthFor
<1>10. sent'[k].spaces = Live' \ (S \ SpacesOf(m)) /\ sent'[k].groups = plugged' \ (G \ {m})
  BY <1>5, <1>8
<1> QED
  BY <1>2, <1>6, <1>9, <1>10

LEMMA BindTells ==
  ASSUME TypeOK, PictureFaithful, NEW k \in Viewers, Bind(k),
         dropped[k] = [groups |-> {}, spaces |-> {}]
  PROVE  PictureFaithful'
<1>1. Grouped(Live \ {}, {}) = Live
  BY DEF Grouped
<1>2. TruthFor(k) = Snapshot
  BY <1>1 DEF TruthFor, Snapshot
<1>3. UNCHANGED <<plugged, active, dropped>>
  BY DEF Bind
<1>4. \A j \in Viewers : TruthFor(j)' = TruthFor(j)
  BY <1>3 DEF TruthFor, Live
<1>5. /\ bound' = bound \cup {k}
      /\ spaceres'[k] = Live /\ groupres'[k] = plugged /\ sent'[k] = Snapshot
      /\ \A j \in bound \ {k} : /\ spaceres'[j] = spaceres[j] /\ groupres'[j] = groupres[j]
                                /\ sent'[j] = sent[j]
  BY DEF Bind, TypeOK
<1> QED
  BY <1>2, <1>4, <1>5 DEF PictureFaithful, Snapshot, TypeOK

LEMMA StopTells ==
  ASSUME TypeOK, PictureFaithful, NEW k \in Viewers, Stop(k)
  PROVE  PictureFaithful'
BY DEF PictureFaithful, TruthFor, Live, Stop, TypeOK

LEMMA DropTells ==
  ASSUME TypeOK, PictureFaithful, NEW k \in bound, NEW groups, NEW spaces,
         Drop(k, groups, spaces)
  PROVE  PictureFaithful'
<1> SUFFICES ASSUME NEW j \in bound
             PROVE  /\ sent'[j] = TruthFor(j)'
                    /\ spaceres'[j] = sent'[j].spaces /\ groupres'[j] = sent'[j].groups
  BY DEF PictureFaithful, Drop
<1>1. UNCHANGED <<plugged, active>> /\ Live' = Live /\ j \in Viewers /\ k \in Viewers
  BY DEF Drop, Live, TypeOK
<1>2. CASE j # k
  <2>1. /\ sent'[j] = sent[j] /\ spaceres'[j] = spaceres[j] /\ groupres'[j] = groupres[j]
        /\ dropped'[j] = dropped[j]
    BY <1>1, <1>2 DEF Drop, TypeOK
  <2> QED
    BY <1>1, <2>1 DEF PictureFaithful, TruthFor
<1>3. CASE j = k
  <2> DEFINE G == dropped[k].groups
             S == dropped[k].spaces
  <2>1. /\ sent'[k] = Without(TruthFor(k), groups, spaces)
        /\ spaceres'[k] = (Live \ S) \ spaces
        /\ groupres'[k] = (plugged \ G) \ groups
        /\ dropped'[k] = [groups |-> G \cup groups, spaces |-> S \cup spaces]
    BY <1>1, PictureFields DEF Drop, TypeOK
  <2>2. /\ TruthFor(k).groups = plugged \ G /\ TruthFor(k).spaces = Live \ S
        /\ TruthFor(k).active = active \ S /\ TruthFor(k).members = Grouped(Live \ S, G)
    BY TruthFields
  <2> HIDE DEF G, S
  <2>3. Grouped(Grouped(Live \ S, G) \ spaces, groups)
          = Grouped(Live \ (S \cup spaces), G \cup groups)
    BY DEF Grouped
  <2>4. Without(TruthFor(k), groups, spaces) =
          [groups |-> plugged \ (G \cup groups), spaces |-> Live \ (S \cup spaces),
           active |-> active \ (S \cup spaces),
           members |-> Grouped(Live \ (S \cup spaces), G \cup groups)]
    <3>1. /\ (plugged \ G) \ groups = plugged \ (G \cup groups)
          /\ (Live \ S) \ spaces = Live \ (S \cup spaces)
          /\ (active \ S) \ spaces = active \ (S \cup spaces)
      OBVIOUS
    <3> QED
      BY <2>2, <2>3, <3>1 DEF Without
  <2>5. sent'[k] = TruthFor(k)'
    BY <1>1, <2>1, <2>4 DEF TruthFor
  <2>6. /\ sent'[k].spaces = Live \ (S \cup spaces)
        /\ sent'[k].groups = plugged \ (G \cup groups)
    BY <2>1, <2>4
  <2> QED
    BY <1>3, <2>1, <2>5, <2>6
<1> QED
  BY <1>2, <1>3

(* A viewer that binds has given nothing up: what it dropped of an earlier  *)
(* manager went with that manager.                                          *)
Fresh == \A k \in Viewers \ bound : dropped[k] = [groups |-> {}, spaces |-> {}]

LEMMA NextFresh == TypeOK /\ Fresh /\ [Next]_vars => Fresh'
<1> SUFFICES ASSUME TypeOK, Fresh, [Next]_vars PROVE Fresh'
  OBVIOUS
<1>1. CASE UNCHANGED <<bound, dropped>>
  BY <1>1 DEF Fresh
<1>2. ASSUME NEW m \in Outputs, Unplug(m) PROVE Fresh'
  <2>1. UNCHANGED bound
    BY <1>2 DEF Unplug
  <2>2. ASSUME NEW k \in Viewers \ bound
        PROVE  dropped'[k] = [groups |-> {}, spaces |-> {}]
    <3>1. dropped[k].groups = {} /\ dropped[k].spaces = {}
      BY <2>2 DEF Fresh
    <3>2. dropped'[k] = [groups |-> {} \ {m}, spaces |-> {} \ SpacesOf(m)]
      BY <1>2, <3>1 DEF Unplug
    <3>3. {} \ {m} = {} /\ {} \ SpacesOf(m) = {}
      OBVIOUS
    <3> QED
      BY <3>2, <3>3
  <2> QED
    BY <2>1, <2>2 DEF Fresh
<1>3. ASSUME NEW k \in Viewers, Bind(k) PROVE Fresh'
  BY <1>3 DEF Fresh, Bind
<1>4. ASSUME NEW k \in Viewers, Stop(k) PROVE Fresh'
  BY <1>4 DEF Fresh, Stop, TypeOK
<1>5. ASSUME NEW k \in Viewers, NEW groups, NEW spaces, Drop(k, groups, spaces),
             groups # {} \/ spaces # {}
      PROVE  Fresh'
  <2>1. k \in bound
    BY <1>5 DEF Drop, TypeOK
  <2> QED
    BY <1>5, <2>1 DEF Fresh, Drop, TypeOK
<1> QED
  BY <1>1, <1>2, <1>3, <1>4, <1>5
     DEF Next, Plug, Select, ChangeTags, PostSome, Post, Commit, Serve, Served, HandleIdle,
         vars

LEMMA NextPicture == TypeOK /\ Fresh /\ PictureFaithful /\ [Next]_vars => PictureFaithful'
<1> SUFFICES ASSUME TypeOK, Fresh, PictureFaithful, [Next]_vars PROVE PictureFaithful'
  OBVIOUS
<1>1. CASE UNCHANGED <<plugged, active, bound, spaceres, groupres, sent, dropped>>
  BY <1>1 DEF PictureFaithful, TruthFor, Live
<1>2. ASSUME NEW m \in Outputs, Plug(m) PROVE PictureFaithful'
  BY <1>2, PlugTells
<1>3. ASSUME NEW m \in Outputs, Unplug(m) PROVE PictureFaithful'
  BY <1>3, UnplugTells
<1>4. CASE PrintStatus /\ UNCHANGED <<plugged, bound, spaceres, groupres, dropped>>
  <2>1. tagset' \in [Outputs -> SUBSET Tags]
    BY NextTypes DEF TypeOK
  <2> QED
    BY <1>4, <2>1, StatesTellTruth
<1>5. ASSUME NEW k \in Viewers, Bind(k) PROVE PictureFaithful'
  <2>1. dropped[k] = [groups |-> {}, spaces |-> {}]
    BY <1>5 DEF Fresh, Bind
  <2> QED
    BY <1>5, <2>1, BindTells
<1>6. ASSUME NEW k \in Viewers, Stop(k) PROVE PictureFaithful'
  BY <1>6, StopTells
<1>7. ASSUME NEW k \in Viewers, NEW groups, NEW spaces, Drop(k, groups, spaces),
             groups # {} \/ spaces # {}
      PROVE  PictureFaithful'
  <2>1. k \in bound
    BY <1>7 DEF Drop, TypeOK
  <2> QED
    BY <1>7, <2>1, DropTells
<1> QED
  BY <1>1, <1>2, <1>3, <1>4, <1>5, <1>6, <1>7
     DEF Next, Select, ChangeTags, SetTags, PostSome, Post, Commit, Serve, Handle, Served,
         HandleIdle, vars

(* The events any viewer was sent always add up to the truth.               *)
THEOREM PictureStaysFaithful == Spec => []PictureFaithful
<1>1. Init => Fresh /\ PictureFaithful
  BY DEF Init, Fresh, PictureFaithful
<1> QED
  BY <1>1, NextFresh, NextPicture, TypeCorrect, PTL DEF Spec
=============================================================================
