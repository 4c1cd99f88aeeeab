-------------------------- MODULE DragSourceProofs --------------------------
(***************************************************************************)
(* Proofs about DragSource, for any number of drags, targets, movements of *)
(* the pointer and requests, and lists of any size.                        *)
(***************************************************************************)
EXTENDS DragSource, SequenceTheorems, TLAPS

\* What counts as agreement was said by the target the drag is over, or an
\* answer was taken for one of its own.
AgreedHere ==
    \A d \in Drags :
        accepted[d] /\ phase[d] \in {"idle", "over"} => "misled" \in ghosts[d] \/ target[d] \in ghosts[d]

\* Nothing has been dropped, and nothing timed out, before the drop.
NotYet ==
    \A d \in Drags : phase[d] \in {"idle", "over"} =>
        "drop" \notin ghosts[d]

\* What a window that nobody has dragged from yet has not done, and whose
\* entries the extraction service has while somebody drags.
Begun == \A d \in Drags : phase[d] = "idle" => ~staged[d] /\ watched[d] = {}
Offered == Offer => \A d \in Drags : Alive(d) => service \in Drags

\* Nothing waits for a window that is not there.
Resting == \A d \in Drags : ~Alive(d) => queue[d] = <<>>

\* As long as no two drags overlap, one at most is under way.
Calm == \A d \in Drags : "overlap" \notin ghosts[d]
OneAlive == \A d, e \in Drags : Alive(d) /\ Alive(e) => d = e

\* The events of a target in a queue: none of some kinds, none that matters
\* after a request, one deletion at most.
Requests == {"list", "ark"}
Lacks(q, t, kinds) == \A i \in 1..Len(q) : ~(q[i].from = t /\ q[i].kind \in kinds)
Turn(q, t) ==
    \A i, j \in 1..Len(q) : i < j /\ q[i].from = t /\ q[i].kind \in Requests =>
        ~(q[j].from = t /\ q[j].kind \in Requests \cup {"delete"})
OneDeletion(q, t) ==
    \A i, j \in 1..Len(q) : q[i].from = t /\ q[i].kind = "delete"
                            /\ q[j].from = t /\ q[j].kind = "delete" => i = j

\* A target that has not asked has no request in a queue; while it is served
\* it has deleted nothing since.
InOrder(t) ==
    \A d \in Drags :
        /\ Turn(queue[d], t)
        /\ fetch[t] # "asked" => Lacks(queue[d], t, Requests)
        /\ fetch[t] = "served" => Lacks(queue[d], t, {"delete"})

\* Drag d, and no other that goes on, has sent k parts of its list to t.
Sends(t, d) ==
    /\ staged[d] /\ size[d] > 0
    /\ \A e \in Drags : e # d /\ Alive(e) => t \notin DOMAIN transfers[e]
HasSent(t, d, k) == Alive(d) => t \in DOMAIN transfers[d] /\ transfers[d][t] = k

\* What is handed to a target that is served.
Handed(t) ==
    \E d \in Drags :
        \/ property[t] = Data("ark", d, 0) /\ service \in Drags
        \/ property[t] = Data("whole", d, 0) /\ staged[d] /\ size[d] = 0
        \/ property[t] = Data("incr", d, 0) /\ Sends(t, d) /\ HasSent(t, d, 0)

\* A target has read the first k parts of the list of d ...
Part(d, i) == Data("part", d, i)
Parts(s, d, k) ==
    /\ s \in Seq([kind : {"part"}, drag : Drags, part : Nat]) /\ Len(s) = k
    /\ \A i \in 1..k : s[i] = Part(d, i)
\* ... and has the next one, or the end, before it, or d is to be told.
Reading(t, d, k) ==
    /\ Sends(t, d) /\ k <= size[d] /\ Parts(got[t], d, k) /\ OneDeletion(queue[d], t)
    /\ \/ property[t] = Nothing /\ HasSent(t, d, k)
       \/ /\ property[t] = Part(d, k + 1) /\ k < size[d]
          /\ Lacks(queue[d], t, {"delete"}) /\ HasSent(t, d, k + 1)
       \/ /\ property[t] = Data("end", d, 0) /\ k = size[d]
          /\ Alive(d) => t \notin DOMAIN transfers[d]

\* What a target has got is whole.
Whole(t) ==
    \/ \E d \in Drags :
          /\ staged[d]
          /\ got[t] = IF size[d] = 0 THEN <<Data("whole", d, 0)>>
                      ELSE [i \in 1..size[d] |-> Data("part", d, i)]
    \/ \E d \in Drags : got[t] = <<Data("files", d, 0)>>

\* The course of a transfer to a target.
Serving(t) ==
    /\ InOrder(t)
    /\ fetch[t] \in {"asked", "served"} => got[t] = <<>>
    /\ fetch[t] = "served" => Handed(t)
    /\ fetch[t] = "parts" => \E d \in Drags : \E k \in 0..size[d] : Reading(t, d, k)
    /\ fetch[t] = "extract" => service \in Drags
    /\ fetch[t] = "got" => Whole(t)

\* The inductive invariant.
IInv ==
    /\ TypeOK /\ NoneLeftHovering /\ AgreedHere /\ NotYet /\ NoneCutOff /\ DropWanted
    /\ Begun /\ Offered /\ Resting /\ (Calm => OneAlive /\ \A t \in Targets : Serving(t))

----------------------------------------------------------------------------
(* Queues.                                                                 *)

Queues == [Drags -> Seq(Events)]

\* An event joins the queue of a window, or is lost.
LEMMA Joins ==
    ASSUME NEW q \in Queues, NEW d \in Drags, NEW e \in Events
    PROVE  Sent(q, d, e) \in Queues
<1>1. Append(q[d], e) \in Seq(Events)
    BY AppendProperties DEF Queues
<1> QED
    BY <1>1 DEF Queues, Sent

\* A window reads its oldest event.
LEMMA Reads ==
    ASSUME TypeOK, NEW d \in Drags, NEW kinds, Heads(d, kinds)
    PROVE  /\ Received(queue, d) \in Queues
           /\ Head(queue[d]) \in Events /\ Head(queue[d]).kind \in kinds
           /\ kinds \cap {"motion", "release"} = {} => From(d) \in Targets
           /\ Alive(d)
<1>1. queue[d] \in Seq(Events) /\ queue[d] # <<>>
    BY DEF TypeOK, Heads
<1>2. Head(queue[d]) \in Events /\ Tail(queue[d]) \in Seq(Events)
    BY <1>1, HeadTailProperties
<1>3. Received(queue, d) \in Queues
    BY <1>2 DEF TypeOK, Received, Queues
<1>4. Head(queue[d]).kind \in kinds
    BY DEF Heads
<1>5. ASSUME kinds \cap {"motion", "release"} = {} PROVE From(d) \in Targets
    BY <1>2, <1>4, <1>5 DEF Events, From
<1> QED
    BY <1>2, <1>3, <1>4, <1>5 DEF Heads

\* A window whose properties are watched is told of a deletion.
LEMMA Tells ==
    ASSUME TypeOK, NEW t \in Targets, Delete(t)
    PROVE  queue' \in Queues
<1>1. Event("delete", t) \in Events
    BY DEF Event, Events
<1>2. \A d \in Drags : Append(queue[d], Event("delete", t)) \in Seq(Events)
    BY <1>1, AppendProperties DEF TypeOK
<1> QED
    BY <1>2 DEF TypeOK, Delete, Queues

\* After an event a drag is over, if it is finished and its transfers are
\* complete, or goes on.
Onward(d) ==
    /\ queue' \in Queues
    /\ \/ /\ phase[d] = "dropped" /\ finished'[d] /\ DOMAIN transfers'[d] = {}
          /\ phase' = [phase EXCEPT ![d] = "done"] /\ owner' = None
       \/ UNCHANGED <<phase, owner>>

LEMMA Goes ==
    ASSUME TypeOK, NEW d \in Drags, NEW kinds, Heads(d, kinds), GoesOn(d)
    PROVE  Onward(d)
<1>1. CASE Ended(d)
    <2>1. queue' \in Queues
        BY <1>1 DEF Ended, TypeOK, Queues
    <2>2. \/ phase[d] = "dropped" /\ finished'[d] /\ DOMAIN transfers'[d] = {}
          \/ UNCHANGED <<phase, owner>>
        BY DEF GoesOn
    <2> QED
        BY <1>1, <2>1, <2>2 DEF Ended, Onward
<1>2. CASE queue' = Received(queue, d) /\ UNCHANGED <<phase, owner>>
    BY <1>2, Reads DEF Onward
<1> QED
    BY <1>1, <1>2 DEF GoesOn

\* No mark of a drag is a target.
LEMMA MarksApart == \A t \in Targets : t \notin Marks /\ t # None
BY DragAssumption

----------------------------------------------------------------------------
(* One lemma per part of the invariant.                                    *)

\* The types in parts: of the queues, of each drag, of what they share, of the
\* targets, and of the marks.
Queued == queue \in Queues
Course ==
    /\ phase \in [Drags -> {"idle", "over", "dropped", "done", "failed"}]
    /\ target \in [Drags -> Targets \cup {None}] /\ accepted \in [Drags -> BOOLEAN]
    /\ size \in [Drags -> Sizes \cup {0}] /\ staged \in [Drags -> BOOLEAN]
    /\ watched \in [Drags -> SUBSET Targets] /\ DOMAIN transfers = Drags
    /\ \A d \in Drags : DOMAIN transfers[d] \subseteq watched[d]
    /\ finished \in [Drags -> BOOLEAN]
Desk ==
    /\ pointer \in Targets \cup {None}
    /\ owner \in Drags \cup {None} /\ service \in Drags \cup {None}
    /\ moves \in 0..MaxMoves /\ asks \in 0..MaxAsks
Others ==
    /\ hover \in [Targets -> Drags \cup {None}] /\ owes \in [Targets -> SUBSET Drags]
    /\ drops \in [Targets -> SUBSET Drags]
    /\ fetch \in [Targets -> {"none", "asked", "served", "parts", "extract", "got", "refused"}]
    /\ DOMAIN property = Targets /\ DOMAIN got = Targets
Marking == ghosts \in [Drags -> SUBSET (Targets \cup Marks)]

LEMMA TypesSplit == TypeOK => Queued /\ Course /\ Desk /\ Others /\ Marking
BY DEF TypeOK, Queued, Course, Desk, Others, Marking, Queues

\* Every step keeps the types.
LEMMA TypesKept ==
    TypeOK /\ [Next]_vars => TypeOK'
<1> SUFFICES ASSUME TypeOK, [Next]_vars
             PROVE  TypeOK'
    OBVIOUS
<1>1. ASSUME NEW d \in Drags, Start(d) PROVE TypeOK'
    <2>1. Queued'
        BY <1>1, TypesSplit DEF Start, talk, shared, theirs, Queued, Queues
    <2>2. Course'
        BY <1>1, TypesSplit DEF Start, talk, shared, theirs, Course, Desk,
                                Alive
    <2>3. Desk'
        BY <1>1, TypesSplit, DragAssumption
        DEF Start, talk, shared, theirs, Desk
    <2>4. Others'
        BY <1>1, TypesSplit DEF Start, talk, shared, theirs, Others, Desk,
                                Course
    <2>5. Marking'
        BY <1>1, TypesSplit DEF Start, talk, shared, theirs, Marking, Desk,
                                Alive, Course, Marks
    <2> QED
        BY <2>1, <2>2, <2>3, <2>4, <2>5
        DEF Queued, Course, Desk, Others, Marking, Queues, TypeOK
<1>2. ASSUME NEW d \in Drags, NEW t \in Targets \cup {None}, Move(d, t)
      PROVE  TypeOK'
    <2>1. Queued'
        BY <1>2, Joins, TypesSplit DEF Move, talk, shared, theirs, Queued,
                                       Event, Events, Desk
    <2>2. Course'
        BY <1>2, TypesSplit DEF Move, talk, shared, theirs, Course, Desk, Alive
    <2>3. Desk'
        BY <1>2, TypesSplit, DragAssumption
        DEF Move, talk, shared, theirs, Desk
    <2>4. Others'
        BY <1>2, TypesSplit DEF Move, talk, shared, theirs, Others, Desk,
                                Course
    <2>5. Marking'
        BY <1>2, TypesSplit DEF Move, talk, shared, theirs, Marking, Desk,
                                Alive, Course, Marks
    <2> QED
        BY <2>1, <2>2, <2>3, <2>4, <2>5
        DEF Queued, Course, Desk, Others, Marking, Queues, TypeOK
<1>3. ASSUME NEW d \in Drags, LetGo(d) PROVE TypeOK'
    <2>1. Queued'
        BY <1>3, Joins, TypesSplit DEF LetGo, talk, shared, theirs, Queued,
                                       Event, Events, Desk
    <2>2. Course'
        BY <1>3, TypesSplit DEF LetGo, talk, shared, theirs, Course, Desk,
                                Alive
    <2>3. Desk'
        BY <1>3, TypesSplit, DragAssumption
        DEF LetGo, talk, shared, theirs, Desk
    <2>4. Others'
        BY <1>3, TypesSplit DEF LetGo, talk, shared, theirs, Others, Desk,
                                Course
    <2>5. Marking'
        BY <1>3, TypesSplit DEF LetGo, talk, shared, theirs, Marking, Desk,
                                Alive, Course, Marks
    <2> QED
        BY <2>1, <2>2, <2>3, <2>4, <2>5
        DEF Queued, Course, Desk, Others, Marking, Queues, TypeOK
<1>4. ASSUME NEW d \in Drags, Motion(d) PROVE TypeOK'
    <2>1. Heads(d, {"motion"})
        BY <1>4 DEF Motion
    <2>2. Received(queue, d) \in Queues /\ Alive(d)
        BY <2>1, Reads
    <2>3. Queued'
        BY <1>4, <2>2, TypesSplit DEF Motion, Enter, talk, shared, theirs,
                                      Queued, Queues
    <2>4. Course'
        BY <1>4, <2>2, TypesSplit DEF Motion, Enter, talk, shared, theirs,
                                      Course, Desk, Alive
    <2>5. Desk'
        BY <1>4, <2>2, TypesSplit, DragAssumption
        DEF Motion, Enter, talk, shared, theirs, Desk
    <2>6. Others'
        BY <1>4, <2>2, TypesSplit DEF Motion, Enter, talk, shared, theirs,
                                      Others, Desk, Course
    <2>7. Marking'
        BY <1>4, <2>2, TypesSplit DEF Motion, Enter, talk, shared, theirs,
                                      Marking, Desk, Alive, Course, Marks
    <2> QED
        BY <2>3, <2>4, <2>5, <2>6, <2>7
        DEF Queued, Course, Desk, Others, Marking, Queues, TypeOK
<1>5. ASSUME NEW d \in Drags, Status(d) PROVE TypeOK'
    <2>1. Heads(d, {"yes", "no"})
        BY <1>5 DEF Status
    <2>2. Received(queue, d) \in Queues /\ Alive(d) /\ From(d) \in Targets
        BY <2>1, Reads
    <2>3. Queued'
        BY <1>5, <2>2, TypesSplit DEF Status, Marked, talk, shared, theirs,
                                      Queued, Queues
    <2>4. Course'
        BY <1>5, <2>2, TypesSplit DEF Status, Marked, talk, shared, theirs,
                                      Course, Desk, Alive
    <2>5. Desk'
        BY <1>5, <2>2, TypesSplit, DragAssumption
        DEF Status, Marked, talk, shared, theirs, Desk
    <2>6. Others'
        BY <1>5, <2>2, TypesSplit DEF Status, Marked, talk, shared, theirs,
                                      Others, Desk, Course
    <2>7. Marking'
        BY <1>5, <2>2, TypesSplit DEF Status, Marked, talk, shared, theirs,
                                      Marking, Desk, Alive, Course, Marks
    <2> QED
        BY <2>3, <2>4, <2>5, <2>6, <2>7
        DEF Queued, Course, Desk, Others, Marking, Queues, TypeOK
<1>6. ASSUME NEW d \in Drags, Release(d) PROVE TypeOK'
    <2>1. Heads(d, {"release"})
        BY <1>6 DEF Release
    <2>2. Received(queue, d) \in Queues /\ Alive(d)
        BY <2>1, Reads
    <2>3. Queued'
        <3>1. CASE target[d] # None /\ accepted[d]
            BY <1>6, <2>2, <3>1 DEF Release, Queued
        <3>2. CASE ~(target[d] # None /\ accepted[d])
            <4>1. queue' = [queue EXCEPT ![d] = <<>>] /\ queue \in [Drags -> Seq(Events)]
                BY <1>6, <3>2 DEF Release, Ended, TypeOK
            <4> QED
                BY <4>1 DEF Queued, Queues
        <3> QED
            BY <3>1, <3>2
    <2>4. Course'
        BY <1>6, <2>2, TypesSplit DEF Release, Marked, Ended, talk, shared,
                                      theirs, Course, Desk, Alive
    <2>5. Desk'
        BY <1>6, <2>2, TypesSplit, DragAssumption
        DEF Release, Marked, Ended, talk, shared, theirs, Desk
    <2>6. Others'
        BY <1>6, <2>2, TypesSplit DEF Release, Marked, Ended, talk, shared,
                                      theirs, Others, Desk, Course
    <2>7. Marking'
        BY <1>6, <2>2, TypesSplit DEF Release, Marked, Ended, talk, shared,
                                      theirs, Marking, Desk, Alive, Course,
                                      Marks
    <2> QED
        BY <2>3, <2>4, <2>5, <2>6, <2>7
        DEF Queued, Course, Desk, Others, Marking, Queues, TypeOK
<1>7. ASSUME NEW d \in Drags, ServeList(d) PROVE TypeOK'
    <2>1. Heads(d, {"list"})
        BY <1>7 DEF ServeList
    <2>2. Received(queue, d) \in Queues /\ Alive(d) /\ From(d) \in Targets
        BY <2>1, Reads
    <2>3. Onward(d)
        BY <1>7, <2>1, Goes DEF ServeList
    <2>4. Queued'
        BY <1>7, <2>2, <2>3, TypesSplit
        DEF ServeList, Onward, talk, shared, theirs, Queued, Queues
    <2>5. Course'
        <3>1. /\ DOMAIN transfers' = Drags
              /\ \A e \in Drags : e # d => transfers'[e] = transfers[e]
              /\ DOMAIN transfers'[d] \subseteq watched'[d]
            <4>1. CASE size[d] = 0
                BY <1>7, <4>1, TypesSplit DEF ServeList, Course
            <4>2. CASE size[d] # 0
                BY <1>7, <4>2, TypesSplit DEF ServeList, Course, BeginTransfer
            <4> QED
                BY <4>1, <4>2
        <3>2. watched' \in [Drags -> SUBSET Targets]
              /\ \A e \in Drags : e # d => watched'[e] = watched[e]
            BY <1>7, <2>2, TypesSplit DEF ServeList, Course
        <3>3. phase' = [phase EXCEPT ![d] = "done"] \/ phase' = phase
            BY <2>3 DEF Onward
        <3> QED
            BY <1>7, <3>1, <3>2, <3>3, TypesSplit DEF ServeList, Course
    <2>6. Desk'
        BY <1>7, <2>2, <2>3, TypesSplit, DragAssumption
        DEF ServeList, Onward, talk, shared, theirs, Desk
    <2>7. Others'
        BY <1>7, <2>2, <2>3, TypesSplit
        DEF ServeList, Onward, talk, shared, theirs, Others, Desk, Course
    <2>8. Marking'
        BY <1>7, <2>2, <2>3, TypesSplit
        DEF ServeList, Onward, talk, shared, theirs, Marking, Desk, Alive,
            Course, Marks
    <2> QED
        BY <2>4, <2>5, <2>6, <2>7, <2>8
        DEF Queued, Course, Desk, Others, Marking, Queues, TypeOK
<1>8. ASSUME NEW d \in Drags, StagingFails(d) PROVE TypeOK'
    <2>1. Heads(d, {"list"})
        BY <1>8 DEF StagingFails
    <2>2. Received(queue, d) \in Queues /\ Alive(d) /\ From(d) \in Targets
        BY <2>1, Reads
    <2>3. Queued'
        BY <1>8, <2>2, TypesSplit DEF StagingFails, Failed, talk, shared,
                                      theirs, Queued, Queues
    <2>4. Course'
        BY <1>8, <2>2, TypesSplit DEF StagingFails, Failed, talk, shared,
                                      theirs, Course, Desk, Alive
    <2>5. Desk'
        BY <1>8, <2>2, TypesSplit, DragAssumption
        DEF StagingFails, Failed, talk, shared, theirs, Desk
    <2>6. Others'
        BY <1>8, <2>2, TypesSplit DEF StagingFails, Failed, talk, shared,
                                      theirs, Others, Desk, Course
    <2>7. Marking'
        BY <1>8, <2>2, TypesSplit DEF StagingFails, Failed, talk, shared,
                                      theirs, Marking, Desk, Alive, Course,
                                      Marks
    <2> QED
        BY <2>3, <2>4, <2>5, <2>6, <2>7
        DEF Queued, Course, Desk, Others, Marking, Queues, TypeOK
<1>9. ASSUME NEW d \in Drags, ServeOffer(d) PROVE TypeOK'
    <2>1. Heads(d, {"ark"})
        BY <1>9 DEF ServeOffer
    <2>2. Received(queue, d) \in Queues /\ Alive(d) /\ From(d) \in Targets
        BY <2>1, Reads
    <2>3. Onward(d)
        BY <1>9, <2>1, Goes DEF ServeOffer
    <2>4. Queued'
        BY <1>9, <2>2, <2>3, TypesSplit
        DEF ServeOffer, Onward, talk, shared, theirs, Queued, Queues
    <2>5. Course'
        BY <1>9, <2>2, <2>3, TypesSplit
        DEF ServeOffer, Onward, talk, shared, theirs, Course, Desk, Alive
    <2>6. Desk'
        BY <1>9, <2>2, <2>3, TypesSplit, DragAssumption
        DEF ServeOffer, Onward, talk, shared, theirs, Desk
    <2>7. Others'
        BY <1>9, <2>2, <2>3, TypesSplit
        DEF ServeOffer, Onward, talk, shared, theirs, Others, Desk, Course
    <2>8. Marking'
        BY <1>9, <2>2, <2>3, TypesSplit
        DEF ServeOffer, Onward, talk, shared, theirs, Marking, Desk, Alive,
            Course, Marks
    <2> QED
        BY <2>4, <2>5, <2>6, <2>7, <2>8
        DEF Queued, Course, Desk, Others, Marking, Queues, TypeOK
<1>10. ASSUME NEW d \in Drags, Advance(d) PROVE TypeOK'
    <2>1. Heads(d, {"delete"})
        BY <1>10 DEF Advance
    <2>2. Received(queue, d) \in Queues /\ Alive(d) /\ From(d) \in Targets
        BY <2>1, Reads
    <2>3. Onward(d)
        BY <1>10, <2>1, Goes DEF Advance
    <2>4. Queued'
        BY <1>10, <2>2, <2>3, TypesSplit
        DEF Advance, Onward, talk, shared, theirs, Queued, Queues
    <2>5. Course'
        <3>1. /\ DOMAIN transfers' = Drags
              /\ \A e \in Drags : DOMAIN transfers'[e] \subseteq DOMAIN transfers[e]
            <4>1. CASE From(d) \notin DOMAIN transfers[d]
                BY <1>10, <4>1, TypesSplit DEF Advance, Course
            <4>2. CASE From(d) \in DOMAIN transfers[d] /\ transfers[d][From(d)] < size[d]
                BY <1>10, <4>2, TypesSplit DEF Advance, Course
            <4>3. CASE From(d) \in DOMAIN transfers[d] /\ ~(transfers[d][From(d)] < size[d])
                BY <1>10, <4>3, TypesSplit DEF Advance, Course, Restrict
            <4> QED
                BY <4>1, <4>2, <4>3
        <3>2. phase' = [phase EXCEPT ![d] = "done"] \/ phase' = phase
            BY <2>3 DEF Onward
        <3> QED
            BY <1>10, <3>1, <3>2, TypesSplit DEF Advance, Course
    <2>6. Desk'
        BY <1>10, <2>2, <2>3, TypesSplit, DragAssumption
        DEF Advance, Onward, talk, shared, theirs, Desk
    <2>7. Others'
        BY <1>10, <2>2, <2>3, TypesSplit
        DEF Advance, Onward, talk, shared, theirs, Others, Desk, Course
    <2>8. Marking'
        BY <1>10, <2>2, <2>3, TypesSplit
        DEF Advance, Onward, talk, shared, theirs, Marking, Desk, Alive,
            Course, Marks
    <2> QED
        BY <2>4, <2>5, <2>6, <2>7, <2>8
        DEF Queued, Course, Desk, Others, Marking, Queues, TypeOK
<1>11. ASSUME NEW d \in Drags, Finished(d) PROVE TypeOK'
    <2>1. Heads(d, {"finished"})
        BY <1>11 DEF Finished
    <2>2. Received(queue, d) \in Queues /\ Alive(d) /\ From(d) \in Targets
        BY <2>1, Reads
    <2>3. Onward(d)
        BY <1>11, <2>1, Goes DEF Finished
    <2>4. Queued'
        BY <1>11, <2>2, <2>3, TypesSplit
        DEF Finished, Onward, talk, shared, theirs, Queued, Queues
    <2>5. Course'
        BY <1>11, <2>2, <2>3, TypesSplit
        DEF Finished, Onward, talk, shared, theirs, Course, Desk, Alive
    <2>6. Desk'
        BY <1>11, <2>2, <2>3, TypesSplit, DragAssumption
        DEF Finished, Onward, talk, shared, theirs, Desk
    <2>7. Others'
        BY <1>11, <2>2, <2>3, TypesSplit
        DEF Finished, Onward, talk, shared, theirs, Others, Desk, Course
    <2>8. Marking'
        BY <1>11, <2>2, <2>3, TypesSplit
        DEF Finished, Onward, talk, shared, theirs, Marking, Desk, Alive,
            Course, Marks
    <2> QED
        BY <2>4, <2>5, <2>6, <2>7, <2>8
        DEF Queued, Course, Desk, Others, Marking, Queues, TypeOK
<1>12. ASSUME NEW d \in Drags, Ignore(d) PROVE TypeOK'
    <2>1. Onward(d) /\ Alive(d)
        <3>1. CASE Heads(d, {"finished"})
            BY <1>12, <3>1, Goes, Reads
            DEF Ignore
        <3>2. CASE Heads(d, {"motion", "yes", "no", "release"})
            BY <1>12, <3>2, Goes, Reads
            DEF Ignore
        <3> QED
            BY <1>12, <3>1, <3>2 DEF Ignore
    <2>2. Queued'
        BY <1>12, <2>1, TypesSplit DEF Ignore, Onward, talk, shared, theirs,
                                       Queued, Queues
    <2>3. Course'
        BY <1>12, <2>1, TypesSplit DEF Ignore, Onward, talk, shared, theirs,
                                       Course, Desk, Alive
    <2>4. Desk'
        BY <1>12, <2>1, TypesSplit, DragAssumption
        DEF Ignore, Onward, talk, shared, theirs, Desk
    <2>5. Others'
        BY <1>12, <2>1, TypesSplit DEF Ignore, Onward, talk, shared, theirs,
                                       Others, Desk, Course
    <2>6. Marking'
        BY <1>12, <2>1, TypesSplit DEF Ignore, Onward, talk, shared, theirs,
                                       Marking, Desk, Alive, Course, Marks
    <2> QED
        BY <2>2, <2>3, <2>4, <2>5, <2>6
        DEF Queued, Course, Desk, Others, Marking, Queues, TypeOK
<1>13. ASSUME NEW d \in Drags, Timeout(d) PROVE TypeOK'
    <2>1. Queued'
        BY <1>13, TypesSplit DEF Timeout, Ended, Marked, talk, shared, theirs,
                                 Queued, Queues
    <2>2. Course'
        BY <1>13, TypesSplit DEF Timeout, Ended, Marked, talk, shared, theirs,
                                 Course, Desk, Alive
    <2>3. Desk'
        BY <1>13, TypesSplit, DragAssumption
        DEF Timeout, Ended, Marked, talk, shared, theirs, Desk
    <2>4. Others'
        BY <1>13, TypesSplit DEF Timeout, Ended, Marked, talk, shared, theirs,
                                 Others, Desk, Course
    <2>5. Marking'
        BY <1>13, TypesSplit DEF Timeout, Ended, Marked, talk, shared, theirs,
                                 Marking, Desk, Alive, Course, Marks
    <2> QED
        BY <2>1, <2>2, <2>3, <2>4, <2>5
        DEF Queued, Course, Desk, Others, Marking, Queues, TypeOK
<1>14. ASSUME NEW t \in Targets, NEW d \in Drags, Reply(t, d) PROVE TypeOK'
    <2>1. Queued'
        BY <1>14, Joins, TypesSplit DEF Reply, talk, shared, theirs, Queued,
                                        Event, Events, Desk
    <2>2. Course'
        BY <1>14, TypesSplit DEF Reply, talk, shared, theirs, Course, Desk,
                                 Alive
    <2>3. Desk'
        BY <1>14, TypesSplit, DragAssumption
        DEF Reply, talk, shared, theirs, Desk
    <2>4. Others'
        BY <1>14, TypesSplit DEF Reply, talk, shared, theirs, Others, Desk,
                                 Course
    <2>5. Marking'
        BY <1>14, TypesSplit DEF Reply, talk, shared, theirs, Marking, Desk,
                                 Alive, Course, Marks
    <2> QED
        BY <2>1, <2>2, <2>3, <2>4, <2>5
        DEF Queued, Course, Desk, Others, Marking, Queues, TypeOK
<1>15. ASSUME NEW t \in Targets, NEW kind \in {"list", "ark"}, Ask(t, kind)
      PROVE  TypeOK'
    <2>1. Queued'
        BY <1>15, Joins, TypesSplit DEF Ask, talk, shared, theirs, Queued,
                                        Event, Events, Desk
    <2>2. Course'
        BY <1>15, TypesSplit DEF Ask, talk, shared, theirs, Course, Desk, Alive
    <2>3. Desk'
        BY <1>15, TypesSplit, DragAssumption
        DEF Ask, talk, shared, theirs, Desk
    <2>4. Others'
        BY <1>15, TypesSplit DEF Ask, talk, shared, theirs, Others, Desk,
                                 Course
    <2>5. Marking'
        BY <1>15, TypesSplit DEF Ask, talk, shared, theirs, Marking, Desk,
                                 Alive, Course, Marks
    <2> QED
        BY <2>1, <2>2, <2>3, <2>4, <2>5
        DEF Queued, Course, Desk, Others, Marking, Queues, TypeOK
<1>16. ASSUME NEW t \in Targets, Receive(t) PROVE TypeOK'
    <2>1. Queued'
        BY <1>16, Tells DEF Receive, Queued
    <2>2. Course'
        BY <1>16, TypesSplit DEF Receive, Delete, talk, shared, theirs, Course,
                                 Desk, Alive
    <2>3. Desk'
        BY <1>16, TypesSplit, DragAssumption
        DEF Receive, Delete, talk, shared, theirs, Desk
    <2>4. Others'
        BY <1>16, TypesSplit DEF Receive, Delete, talk, shared, theirs, Others,
                                 Desk, Course
    <2>5. Marking'
        BY <1>16, TypesSplit DEF Receive, Delete, talk, shared, theirs,
                                 Marking, Desk, Alive, Course, Marks
    <2> QED
        BY <2>1, <2>2, <2>3, <2>4, <2>5
        DEF Queued, Course, Desk, Others, Marking, Queues, TypeOK
<1>17. ASSUME NEW t \in Targets, Take(t) PROVE TypeOK'
    <2>1. Queued'
        BY <1>17, Tells DEF Take, Queued
    <2>2. Course'
        BY <1>17, TypesSplit DEF Take, Delete, talk, shared, theirs, Course,
                                 Desk, Alive
    <2>3. Desk'
        BY <1>17, TypesSplit, DragAssumption
        DEF Take, Delete, talk, shared, theirs, Desk
    <2>4. Others'
        BY <1>17, TypesSplit DEF Take, Delete, talk, shared, theirs, Others,
                                 Desk, Course
    <2>5. Marking'
        BY <1>17, TypesSplit DEF Take, Delete, talk, shared, theirs, Marking,
                                 Desk, Alive, Course, Marks
    <2> QED
        BY <2>1, <2>2, <2>3, <2>4, <2>5
        DEF Queued, Course, Desk, Others, Marking, Queues, TypeOK
<1>18. ASSUME NEW t \in Targets, Extract(t) PROVE TypeOK'
    <2>1. Queued'
        BY <1>18, TypesSplit DEF Extract, talk, shared, theirs, Queued, Queues
    <2>2. Course'
        BY <1>18, TypesSplit DEF Extract, talk, shared, theirs, Course, Desk,
                                 Alive
    <2>3. Desk'
        BY <1>18, TypesSplit, DragAssumption
        DEF Extract, talk, shared, theirs, Desk
    <2>4. Others'
        BY <1>18, TypesSplit DEF Extract, talk, shared, theirs, Others, Desk,
                                 Course
    <2>5. Marking'
        BY <1>18, TypesSplit DEF Extract, talk, shared, theirs, Marking, Desk,
                                 Alive, Course, Marks
    <2> QED
        BY <2>1, <2>2, <2>3, <2>4, <2>5
        DEF Queued, Course, Desk, Others, Marking, Queues, TypeOK
<1>19. ASSUME NEW t \in Targets, NEW d \in Drags, Finish(t, d) PROVE TypeOK'
    <2>1. Queued'
        BY <1>19, Joins, TypesSplit DEF Finish, talk, shared, theirs, Queued,
                                        Event, Events, Desk
    <2>2. Course'
        BY <1>19, TypesSplit DEF Finish, talk, shared, theirs, Course, Desk,
                                 Alive
    <2>3. Desk'
        BY <1>19, TypesSplit, DragAssumption
        DEF Finish, talk, shared, theirs, Desk
    <2>4. Others'
        BY <1>19, TypesSplit DEF Finish, talk, shared, theirs, Others, Desk,
                                 Course
    <2>5. Marking'
        BY <1>19, TypesSplit DEF Finish, talk, shared, theirs, Marking, Desk,
                                 Alive, Course, Marks
    <2> QED
        BY <2>1, <2>2, <2>3, <2>4, <2>5
        DEF Queued, Course, Desk, Others, Marking, Queues, TypeOK
<1>20. CASE UNCHANGED vars
    BY <1>20 DEF vars, talk, shared, theirs, TypeOK
<1> QED
    BY <1>1, <1>2, <1>3, <1>4, <1>5, <1>6, <1>7, <1>8, <1>9, <1>10, <1>11,
       <1>12, <1>13, <1>14, <1>15, <1>16, <1>17, <1>18, <1>19, <1>20
    DEF Next, Thread, Other

\* Every step keeps a target from being left behind.
LEMMA HoverKept ==
    TypeOK /\ NoneLeftHovering /\ [Next]_vars => NoneLeftHovering'
<1> SUFFICES ASSUME TypeOK, NoneLeftHovering, [Next]_vars
             PROVE  NoneLeftHovering'
    OBVIOUS
<1>1. ASSUME NEW d \in Drags, Start(d) PROVE NoneLeftHovering'
    BY <1>1, TypesSplit, DragAssumption
    DEF Start, talk, shared, theirs, NoneLeftHovering, Course, Others, Alive
<1>2. ASSUME NEW d \in Drags, NEW t \in Targets \cup {None}, Move(d, t)
      PROVE  NoneLeftHovering'
    BY <1>2, TypesSplit, DragAssumption
    DEF Move, talk, shared, theirs, NoneLeftHovering, Course, Others, Alive
<1>3. ASSUME NEW d \in Drags, LetGo(d) PROVE NoneLeftHovering'
    BY <1>3, TypesSplit, DragAssumption
    DEF LetGo, talk, shared, theirs, NoneLeftHovering, Course, Others, Alive
<1>4. ASSUME NEW d \in Drags, Motion(d) PROVE NoneLeftHovering'
    <2>1. Heads(d, {"motion"})
        BY <1>4 DEF Motion
    <2>2. Received(queue, d) \in Queues /\ Alive(d)
        BY <2>1, Reads
    <2> QED
        BY <1>4, <2>2, TypesSplit, DragAssumption
        DEF Motion, Enter, talk, shared, theirs, NoneLeftHovering, Course,
            Others, Alive
<1>5. ASSUME NEW d \in Drags, Status(d) PROVE NoneLeftHovering'
    <2>1. Heads(d, {"yes", "no"})
        BY <1>5 DEF Status
    <2>2. Received(queue, d) \in Queues /\ Alive(d) /\ From(d) \in Targets
        BY <2>1, Reads
    <2> QED
        BY <1>5, <2>2, TypesSplit, DragAssumption
        DEF Status, Marked, talk, shared, theirs, NoneLeftHovering, Course,
            Others, Alive
<1>6. ASSUME NEW d \in Drags, Release(d) PROVE NoneLeftHovering'
    <2>1. Heads(d, {"release"})
        BY <1>6 DEF Release
    <2>2. Received(queue, d) \in Queues /\ Alive(d)
        BY <2>1, Reads
    <2> QED
        BY <1>6, <2>2, TypesSplit, DragAssumption
        DEF Release, Marked, Ended, talk, shared, theirs, NoneLeftHovering,
            Course, Others, Alive
<1>7. ASSUME NEW d \in Drags, ServeList(d) PROVE NoneLeftHovering'
    <2>1. Heads(d, {"list"})
        BY <1>7 DEF ServeList
    <2>2. Received(queue, d) \in Queues /\ Alive(d) /\ From(d) \in Targets
        BY <2>1, Reads
    <2>3. Onward(d)
        BY <1>7, <2>1, Goes DEF ServeList
    <2> QED
        BY <1>7, <2>2, <2>3, TypesSplit, DragAssumption
        DEF ServeList, Onward, talk, shared, theirs, NoneLeftHovering, Course,
            Others, Alive
<1>8. ASSUME NEW d \in Drags, StagingFails(d) PROVE NoneLeftHovering'
    <2>1. Heads(d, {"list"})
        BY <1>8 DEF StagingFails
    <2>2. Received(queue, d) \in Queues /\ Alive(d) /\ From(d) \in Targets
        BY <2>1, Reads
    <2> QED
        BY <1>8, <2>2, TypesSplit, DragAssumption
        DEF StagingFails, Failed, talk, shared, theirs, NoneLeftHovering,
            Course, Others, Alive
<1>9. ASSUME NEW d \in Drags, ServeOffer(d) PROVE NoneLeftHovering'
    <2>1. Heads(d, {"ark"})
        BY <1>9 DEF ServeOffer
    <2>2. Received(queue, d) \in Queues /\ Alive(d) /\ From(d) \in Targets
        BY <2>1, Reads
    <2>3. Onward(d)
        BY <1>9, <2>1, Goes DEF ServeOffer
    <2> QED
        BY <1>9, <2>2, <2>3, TypesSplit, DragAssumption
        DEF ServeOffer, Onward, talk, shared, theirs, NoneLeftHovering, Course,
            Others, Alive
<1>10. ASSUME NEW d \in Drags, Advance(d) PROVE NoneLeftHovering'
    <2>1. Heads(d, {"delete"})
        BY <1>10 DEF Advance
    <2>2. Received(queue, d) \in Queues /\ Alive(d) /\ From(d) \in Targets
        BY <2>1, Reads
    <2>3. Onward(d)
        BY <1>10, <2>1, Goes DEF Advance
    <2> QED
        BY <1>10, <2>2, <2>3, TypesSplit, DragAssumption
        DEF Advance, Onward, talk, shared, theirs, NoneLeftHovering, Course,
            Others, Alive
<1>11. ASSUME NEW d \in Drags, Finished(d) PROVE NoneLeftHovering'
    <2>1. Heads(d, {"finished"})
        BY <1>11 DEF Finished
    <2>2. Received(queue, d) \in Queues /\ Alive(d) /\ From(d) \in Targets
        BY <2>1, Reads
    <2>3. Onward(d)
        BY <1>11, <2>1, Goes DEF Finished
    <2> QED
        BY <1>11, <2>2, <2>3, TypesSplit, DragAssumption
        DEF Finished, Onward, talk, shared, theirs, NoneLeftHovering, Course,
            Others, Alive
<1>12. ASSUME NEW d \in Drags, Ignore(d) PROVE NoneLeftHovering'
    <2>1. Onward(d) /\ Alive(d)
        <3>1. CASE Heads(d, {"finished"})
            BY <1>12, <3>1, Goes, Reads
            DEF Ignore
        <3>2. CASE Heads(d, {"motion", "yes", "no", "release"})
            BY <1>12, <3>2, Goes, Reads
            DEF Ignore
        <3> QED
            BY <1>12, <3>1, <3>2 DEF Ignore
    <2> QED
        BY <1>12, <2>1, TypesSplit, DragAssumption
        DEF Ignore, Onward, talk, shared, theirs, NoneLeftHovering, Course,
            Others, Alive
<1>13. ASSUME NEW d \in Drags, Timeout(d) PROVE NoneLeftHovering'
    BY <1>13, TypesSplit, DragAssumption
    DEF Timeout, Ended, Marked, talk, shared, theirs, NoneLeftHovering, Course,
        Others, Alive
<1>14. ASSUME NEW t \in Targets, NEW d \in Drags, Reply(t, d)
      PROVE  NoneLeftHovering'
    BY <1>14, TypesSplit, DragAssumption
    DEF Reply, talk, shared, theirs, NoneLeftHovering, Course, Others, Alive
<1>15. ASSUME NEW t \in Targets, NEW kind \in {"list", "ark"}, Ask(t, kind)
      PROVE  NoneLeftHovering'
    BY <1>15, TypesSplit, DragAssumption
    DEF Ask, talk, shared, theirs, NoneLeftHovering, Course, Others, Alive
<1>16. ASSUME NEW t \in Targets, Receive(t) PROVE NoneLeftHovering'
    BY <1>16, TypesSplit, DragAssumption
    DEF Receive, Delete, talk, shared, theirs, NoneLeftHovering, Course,
        Others, Alive
<1>17. ASSUME NEW t \in Targets, Take(t) PROVE NoneLeftHovering'
    BY <1>17, TypesSplit, DragAssumption
    DEF Take, Delete, talk, shared, theirs, NoneLeftHovering, Course, Others,
        Alive
<1>18. ASSUME NEW t \in Targets, Extract(t) PROVE NoneLeftHovering'
    BY <1>18, TypesSplit, DragAssumption
    DEF Extract, talk, shared, theirs, NoneLeftHovering, Course, Others, Alive
<1>19. ASSUME NEW t \in Targets, NEW d \in Drags, Finish(t, d)
      PROVE  NoneLeftHovering'
    BY <1>19, TypesSplit, DragAssumption
    DEF Finish, talk, shared, theirs, NoneLeftHovering, Course, Others, Alive
<1>20. CASE UNCHANGED vars
    BY <1>20 DEF vars, talk, shared, theirs, NoneLeftHovering, Course, Others,
                 Alive
<1> QED
    BY <1>1, <1>2, <1>3, <1>4, <1>5, <1>6, <1>7, <1>8, <1>9, <1>10, <1>11,
       <1>12, <1>13, <1>14, <1>15, <1>16, <1>17, <1>18, <1>19, <1>20
    DEF Next, Thread, Other

\* Every step keeps agreement to the target that gave it.
LEMMA AgreedKept ==
    TypeOK /\ AgreedHere /\ [Next]_vars => AgreedHere'
<1> SUFFICES ASSUME TypeOK, AgreedHere, [Next]_vars
             PROVE  AgreedHere'
    OBVIOUS
<1>1. ASSUME NEW d \in Drags, Start(d) PROVE AgreedHere'
    BY <1>1, TypesSplit, DragAssumption
    DEF Start, talk, shared, theirs, AgreedHere, Course, Marking, Marks, Alive
<1>2. ASSUME NEW d \in Drags, NEW t \in Targets \cup {None}, Move(d, t)
      PROVE  AgreedHere'
    BY <1>2, TypesSplit, DragAssumption
    DEF Move, talk, shared, theirs, AgreedHere, Course, Marking, Marks, Alive
<1>3. ASSUME NEW d \in Drags, LetGo(d) PROVE AgreedHere'
    BY <1>3, TypesSplit, DragAssumption
    DEF LetGo, talk, shared, theirs, AgreedHere, Course, Marking, Marks, Alive
<1>4. ASSUME NEW d \in Drags, Motion(d) PROVE AgreedHere'
    <2>1. Heads(d, {"motion"})
        BY <1>4 DEF Motion
    <2>2. Received(queue, d) \in Queues /\ Alive(d)
        BY <2>1, Reads
    <2> QED
        BY <1>4, <2>2, TypesSplit, DragAssumption
        DEF Motion, Enter, talk, shared, theirs, AgreedHere, Course, Marking,
            Marks, Alive
<1>5. ASSUME NEW d \in Drags, Status(d) PROVE AgreedHere'
    <2>1. Heads(d, {"yes", "no"})
        BY <1>5 DEF Status
    <2>2. Received(queue, d) \in Queues /\ Alive(d) /\ From(d) \in Targets
        BY <2>1, Reads
    <2> QED
        BY <1>5, <2>2, TypesSplit, DragAssumption
        DEF Status, Marked, talk, shared, theirs, AgreedHere, Course, Marking,
            Marks, Alive
<1>6. ASSUME NEW d \in Drags, Release(d) PROVE AgreedHere'
    <2>1. Heads(d, {"release"})
        BY <1>6 DEF Release
    <2>2. Received(queue, d) \in Queues /\ Alive(d)
        BY <2>1, Reads
    <2> QED
        BY <1>6, <2>2, TypesSplit, DragAssumption
        DEF Release, Marked, Ended, talk, shared, theirs, AgreedHere, Course,
            Marking, Marks, Alive
<1>7. ASSUME NEW d \in Drags, ServeList(d) PROVE AgreedHere'
    <2>1. Heads(d, {"list"})
        BY <1>7 DEF ServeList
    <2>2. Received(queue, d) \in Queues /\ Alive(d) /\ From(d) \in Targets
        BY <2>1, Reads
    <2>3. Onward(d)
        BY <1>7, <2>1, Goes DEF ServeList
    <2> QED
        BY <1>7, <2>2, <2>3, TypesSplit, DragAssumption
        DEF ServeList, Onward, talk, shared, theirs, AgreedHere, Course,
            Marking, Marks, Alive
<1>8. ASSUME NEW d \in Drags, StagingFails(d) PROVE AgreedHere'
    <2>1. Heads(d, {"list"})
        BY <1>8 DEF StagingFails
    <2>2. Received(queue, d) \in Queues /\ Alive(d) /\ From(d) \in Targets
        BY <2>1, Reads
    <2> QED
        BY <1>8, <2>2, TypesSplit, DragAssumption
        DEF StagingFails, Failed, talk, shared, theirs, AgreedHere, Course,
            Marking, Marks, Alive
<1>9. ASSUME NEW d \in Drags, ServeOffer(d) PROVE AgreedHere'
    <2>1. Heads(d, {"ark"})
        BY <1>9 DEF ServeOffer
    <2>2. Received(queue, d) \in Queues /\ Alive(d) /\ From(d) \in Targets
        BY <2>1, Reads
    <2>3. Onward(d)
        BY <1>9, <2>1, Goes DEF ServeOffer
    <2> QED
        BY <1>9, <2>2, <2>3, TypesSplit, DragAssumption
        DEF ServeOffer, Onward, talk, shared, theirs, AgreedHere, Course,
            Marking, Marks, Alive
<1>10. ASSUME NEW d \in Drags, Advance(d) PROVE AgreedHere'
    <2>1. Heads(d, {"delete"})
        BY <1>10 DEF Advance
    <2>2. Received(queue, d) \in Queues /\ Alive(d) /\ From(d) \in Targets
        BY <2>1, Reads
    <2>3. Onward(d)
        BY <1>10, <2>1, Goes DEF Advance
    <2> QED
        BY <1>10, <2>2, <2>3, TypesSplit, DragAssumption
        DEF Advance, Onward, talk, shared, theirs, AgreedHere, Course, Marking,
            Marks, Alive
<1>11. ASSUME NEW d \in Drags, Finished(d) PROVE AgreedHere'
    <2>1. Heads(d, {"finished"})
        BY <1>11 DEF Finished
    <2>2. Received(queue, d) \in Queues /\ Alive(d) /\ From(d) \in Targets
        BY <2>1, Reads
    <2>3. Onward(d)
        BY <1>11, <2>1, Goes DEF Finished
    <2> QED
        BY <1>11, <2>2, <2>3, TypesSplit, DragAssumption
        DEF Finished, Onward, talk, shared, theirs, AgreedHere, Course,
            Marking, Marks, Alive
<1>12. ASSUME NEW d \in Drags, Ignore(d) PROVE AgreedHere'
    <2>1. Onward(d) /\ Alive(d)
        <3>1. CASE Heads(d, {"finished"})
            BY <1>12, <3>1, Goes, Reads
            DEF Ignore
        <3>2. CASE Heads(d, {"motion", "yes", "no", "release"})
            BY <1>12, <3>2, Goes, Reads
            DEF Ignore
        <3> QED
            BY <1>12, <3>1, <3>2 DEF Ignore
    <2> QED
        BY <1>12, <2>1, TypesSplit, DragAssumption
        DEF Ignore, Onward, talk, shared, theirs, AgreedHere, Course, Marking,
            Marks, Alive
<1>13. ASSUME NEW d \in Drags, Timeout(d) PROVE AgreedHere'
    BY <1>13, TypesSplit, DragAssumption
    DEF Timeout, Ended, Marked, talk, shared, theirs, AgreedHere, Course,
        Marking, Marks, Alive
<1>14. ASSUME NEW t \in Targets, NEW d \in Drags, Reply(t, d) PROVE AgreedHere'
    BY <1>14, TypesSplit, DragAssumption
    DEF Reply, talk, shared, theirs, AgreedHere, Course, Marking, Marks, Alive
<1>15. ASSUME NEW t \in Targets, NEW kind \in {"list", "ark"}, Ask(t, kind)
      PROVE  AgreedHere'
    BY <1>15, TypesSplit, DragAssumption
    DEF Ask, talk, shared, theirs, AgreedHere, Course, Marking, Marks, Alive
<1>16. ASSUME NEW t \in Targets, Receive(t) PROVE AgreedHere'
    BY <1>16, TypesSplit, DragAssumption
    DEF Receive, Delete, talk, shared, theirs, AgreedHere, Course, Marking,
        Marks, Alive
<1>17. ASSUME NEW t \in Targets, Take(t) PROVE AgreedHere'
    BY <1>17, TypesSplit, DragAssumption
    DEF Take, Delete, talk, shared, theirs, AgreedHere, Course, Marking, Marks,
        Alive
<1>18. ASSUME NEW t \in Targets, Extract(t) PROVE AgreedHere'
    BY <1>18, TypesSplit, DragAssumption
    DEF Extract, talk, shared, theirs, AgreedHere, Course, Marking, Marks,
        Alive
<1>19. ASSUME NEW t \in Targets, NEW d \in Drags, Finish(t, d) PROVE AgreedHere'
    BY <1>19, TypesSplit, DragAssumption
    DEF Finish, talk, shared, theirs, AgreedHere, Course, Marking, Marks, Alive
<1>20. CASE UNCHANGED vars
    BY <1>20 DEF vars, talk, shared, theirs, AgreedHere, Course, Marking,
                 Marks, Alive
<1> QED
    BY <1>1, <1>2, <1>3, <1>4, <1>5, <1>6, <1>7, <1>8, <1>9, <1>10, <1>11,
       <1>12, <1>13, <1>14, <1>15, <1>16, <1>17, <1>18, <1>19, <1>20
    DEF Next, Thread, Other

\* Every step keeps the drop at the end.
LEMMA NotYetKept ==
    TypeOK /\ NotYet /\ [Next]_vars => NotYet'
<1> SUFFICES ASSUME TypeOK, NotYet, [Next]_vars
             PROVE  NotYet'
    OBVIOUS
<1>1. ASSUME NEW d \in Drags, Start(d) PROVE NotYet'
    BY <1>1, TypesSplit, DragAssumption
    DEF Start, talk, shared, theirs, NotYet, Course, Marking, Marks, Alive
<1>2. ASSUME NEW d \in Drags, NEW t \in Targets \cup {None}, Move(d, t)
      PROVE  NotYet'
    BY <1>2, TypesSplit, DragAssumption
    DEF Move, talk, shared, theirs, NotYet, Course, Marking, Marks, Alive
<1>3. ASSUME NEW d \in Drags, LetGo(d) PROVE NotYet'
    BY <1>3, TypesSplit, DragAssumption
    DEF LetGo, talk, shared, theirs, NotYet, Course, Marking, Marks, Alive
<1>4. ASSUME NEW d \in Drags, Motion(d) PROVE NotYet'
    <2>1. Heads(d, {"motion"})
        BY <1>4 DEF Motion
    <2>2. Received(queue, d) \in Queues /\ Alive(d)
        BY <2>1, Reads
    <2> QED
        BY <1>4, <2>2, TypesSplit, DragAssumption
        DEF Motion, Enter, talk, shared, theirs, NotYet, Course, Marking,
            Marks, Alive
<1>5. ASSUME NEW d \in Drags, Status(d) PROVE NotYet'
    <2>1. Heads(d, {"yes", "no"})
        BY <1>5 DEF Status
    <2>2. Received(queue, d) \in Queues /\ Alive(d) /\ From(d) \in Targets
        BY <2>1, Reads
    <2> QED
        BY <1>5, <2>2, TypesSplit, DragAssumption
        DEF Status, Marked, talk, shared, theirs, NotYet, Course, Marking,
            Marks, Alive
<1>6. ASSUME NEW d \in Drags, Release(d) PROVE NotYet'
    <2>1. Heads(d, {"release"})
        BY <1>6 DEF Release
    <2>2. Received(queue, d) \in Queues /\ Alive(d)
        BY <2>1, Reads
    <2> QED
        BY <1>6, <2>2, TypesSplit, DragAssumption
        DEF Release, Marked, Ended, talk, shared, theirs, NotYet, Course,
            Marking, Marks, Alive
<1>7. ASSUME NEW d \in Drags, ServeList(d) PROVE NotYet'
    <2>1. Heads(d, {"list"})
        BY <1>7 DEF ServeList
    <2>2. Received(queue, d) \in Queues /\ Alive(d) /\ From(d) \in Targets
        BY <2>1, Reads
    <2>3. Onward(d)
        BY <1>7, <2>1, Goes DEF ServeList
    <2> QED
        BY <1>7, <2>2, <2>3, TypesSplit, DragAssumption
        DEF ServeList, Onward, talk, shared, theirs, NotYet, Course, Marking,
            Marks, Alive
<1>8. ASSUME NEW d \in Drags, StagingFails(d) PROVE NotYet'
    <2>1. Heads(d, {"list"})
        BY <1>8 DEF StagingFails
    <2>2. Received(queue, d) \in Queues /\ Alive(d) /\ From(d) \in Targets
        BY <2>1, Reads
    <2> QED
        BY <1>8, <2>2, TypesSplit, DragAssumption
        DEF StagingFails, Failed, talk, shared, theirs, NotYet, Course,
            Marking, Marks, Alive
<1>9. ASSUME NEW d \in Drags, ServeOffer(d) PROVE NotYet'
    <2>1. Heads(d, {"ark"})
        BY <1>9 DEF ServeOffer
    <2>2. Received(queue, d) \in Queues /\ Alive(d) /\ From(d) \in Targets
        BY <2>1, Reads
    <2>3. Onward(d)
        BY <1>9, <2>1, Goes DEF ServeOffer
    <2> QED
        BY <1>9, <2>2, <2>3, TypesSplit, DragAssumption
        DEF ServeOffer, Onward, talk, shared, theirs, NotYet, Course, Marking,
            Marks, Alive
<1>10. ASSUME NEW d \in Drags, Advance(d) PROVE NotYet'
    <2>1. Heads(d, {"delete"})
        BY <1>10 DEF Advance
    <2>2. Received(queue, d) \in Queues /\ Alive(d) /\ From(d) \in Targets
        BY <2>1, Reads
    <2>3. Onward(d)
        BY <1>10, <2>1, Goes DEF Advance
    <2> QED
        BY <1>10, <2>2, <2>3, TypesSplit, DragAssumption
        DEF Advance, Onward, talk, shared, theirs, NotYet, Course, Marking,
            Marks, Alive
<1>11. ASSUME NEW d \in Drags, Finished(d) PROVE NotYet'
    <2>1. Heads(d, {"finished"})
        BY <1>11 DEF Finished
    <2>2. Received(queue, d) \in Queues /\ Alive(d) /\ From(d) \in Targets
        BY <2>1, Reads
    <2>3. Onward(d)
        BY <1>11, <2>1, Goes DEF Finished
    <2> QED
        BY <1>11, <2>2, <2>3, TypesSplit, DragAssumption
        DEF Finished, Onward, talk, shared, theirs, NotYet, Course, Marking,
            Marks, Alive
<1>12. ASSUME NEW d \in Drags, Ignore(d) PROVE NotYet'
    <2>1. Onward(d) /\ Alive(d)
        <3>1. CASE Heads(d, {"finished"})
            BY <1>12, <3>1, Goes, Reads
            DEF Ignore
        <3>2. CASE Heads(d, {"motion", "yes", "no", "release"})
            BY <1>12, <3>2, Goes, Reads
            DEF Ignore
        <3> QED
            BY <1>12, <3>1, <3>2 DEF Ignore
    <2> QED
        BY <1>12, <2>1, TypesSplit, DragAssumption
        DEF Ignore, Onward, talk, shared, theirs, NotYet, Course, Marking,
            Marks, Alive
<1>13. ASSUME NEW d \in Drags, Timeout(d) PROVE NotYet'
    BY <1>13, TypesSplit, DragAssumption
    DEF Timeout, Ended, Marked, talk, shared, theirs, NotYet, Course, Marking,
        Marks, Alive
<1>14. ASSUME NEW t \in Targets, NEW d \in Drags, Reply(t, d) PROVE NotYet'
    BY <1>14, TypesSplit, DragAssumption
    DEF Reply, talk, shared, theirs, NotYet, Course, Marking, Marks, Alive
<1>15. ASSUME NEW t \in Targets, NEW kind \in {"list", "ark"}, Ask(t, kind)
      PROVE  NotYet'
    BY <1>15, TypesSplit, DragAssumption
    DEF Ask, talk, shared, theirs, NotYet, Course, Marking, Marks, Alive
<1>16. ASSUME NEW t \in Targets, Receive(t) PROVE NotYet'
    BY <1>16, TypesSplit, DragAssumption
    DEF Receive, Delete, talk, shared, theirs, NotYet, Course, Marking, Marks,
        Alive
<1>17. ASSUME NEW t \in Targets, Take(t) PROVE NotYet'
    BY <1>17, TypesSplit, DragAssumption
    DEF Take, Delete, talk, shared, theirs, NotYet, Course, Marking, Marks,
        Alive
<1>18. ASSUME NEW t \in Targets, Extract(t) PROVE NotYet'
    BY <1>18, TypesSplit, DragAssumption
    DEF Extract, talk, shared, theirs, NotYet, Course, Marking, Marks, Alive
<1>19. ASSUME NEW t \in Targets, NEW d \in Drags, Finish(t, d) PROVE NotYet'
    BY <1>19, TypesSplit, DragAssumption
    DEF Finish, talk, shared, theirs, NotYet, Course, Marking, Marks, Alive
<1>20. CASE UNCHANGED vars
    BY <1>20 DEF vars, talk, shared, theirs, NotYet, Course, Marking, Marks,
                 Alive
<1> QED
    BY <1>1, <1>2, <1>3, <1>4, <1>5, <1>6, <1>7, <1>8, <1>9, <1>10, <1>11,
       <1>12, <1>13, <1>14, <1>15, <1>16, <1>17, <1>18, <1>19, <1>20
    DEF Next, Thread, Other

\* Every step drops on a target that agreed only.
LEMMA WantedKept ==
    TypeOK /\ AgreedHere /\ NotYet /\ DropWanted /\ [Next]_vars => DropWanted'
<1> SUFFICES ASSUME TypeOK, AgreedHere, NotYet, DropWanted, [Next]_vars
             PROVE  DropWanted'
    OBVIOUS
<1>1. ASSUME NEW d \in Drags, Start(d) PROVE DropWanted'
    BY <1>1, TypesSplit, DragAssumption
    DEF Start, talk, shared, theirs, DropWanted, AgreedHere, NotYet, Course,
        Marking, Marks, Alive
<1>2. ASSUME NEW d \in Drags, NEW t \in Targets \cup {None}, Move(d, t)
      PROVE  DropWanted'
    BY <1>2, TypesSplit, DragAssumption
    DEF Move, talk, shared, theirs, DropWanted, AgreedHere, NotYet, Course,
        Marking, Marks, Alive
<1>3. ASSUME NEW d \in Drags, LetGo(d) PROVE DropWanted'
    BY <1>3, TypesSplit, DragAssumption
    DEF LetGo, talk, shared, theirs, DropWanted, AgreedHere, NotYet, Course,
        Marking, Marks, Alive
<1>4. ASSUME NEW d \in Drags, Motion(d) PROVE DropWanted'
    <2>1. Heads(d, {"motion"})
        BY <1>4 DEF Motion
    <2>2. Received(queue, d) \in Queues /\ Alive(d)
        BY <2>1, Reads
    <2> QED
        BY <1>4, <2>2, TypesSplit, DragAssumption
        DEF Motion, Enter, talk, shared, theirs, DropWanted, AgreedHere,
            NotYet, Course, Marking, Marks, Alive
<1>5. ASSUME NEW d \in Drags, Status(d) PROVE DropWanted'
    <2>1. Heads(d, {"yes", "no"})
        BY <1>5 DEF Status
    <2>2. Received(queue, d) \in Queues /\ Alive(d) /\ From(d) \in Targets
        BY <2>1, Reads
    <2> QED
        BY <1>5, <2>2, TypesSplit, DragAssumption
        DEF Status, Marked, talk, shared, theirs, DropWanted, AgreedHere,
            NotYet, Course, Marking, Marks, Alive
<1>6. ASSUME NEW d \in Drags, Release(d) PROVE DropWanted'
    <2>1. Heads(d, {"release"})
        BY <1>6 DEF Release
    <2>2. Received(queue, d) \in Queues /\ Alive(d)
        BY <2>1, Reads
    <2> QED
        BY <1>6, <2>2, TypesSplit, DragAssumption
        DEF Release, Marked, Ended, talk, shared, theirs, DropWanted,
            AgreedHere, NotYet, Course, Marking, Marks, Alive
<1>7. ASSUME NEW d \in Drags, ServeList(d) PROVE DropWanted'
    <2>1. Heads(d, {"list"})
        BY <1>7 DEF ServeList
    <2>2. Received(queue, d) \in Queues /\ Alive(d) /\ From(d) \in Targets
        BY <2>1, Reads
    <2>3. Onward(d)
        BY <1>7, <2>1, Goes DEF ServeList
    <2> QED
        BY <1>7, <2>2, <2>3, TypesSplit, DragAssumption
        DEF ServeList, Onward, talk, shared, theirs, DropWanted, AgreedHere,
            NotYet, Course, Marking, Marks, Alive
<1>8. ASSUME NEW d \in Drags, StagingFails(d) PROVE DropWanted'
    <2>1. Heads(d, {"list"})
        BY <1>8 DEF StagingFails
    <2>2. Received(queue, d) \in Queues /\ Alive(d) /\ From(d) \in Targets
        BY <2>1, Reads
    <2> QED
        BY <1>8, <2>2, TypesSplit, DragAssumption
        DEF StagingFails, Failed, talk, shared, theirs, DropWanted, AgreedHere,
            NotYet, Course, Marking, Marks, Alive
<1>9. ASSUME NEW d \in Drags, ServeOffer(d) PROVE DropWanted'
    <2>1. Heads(d, {"ark"})
        BY <1>9 DEF ServeOffer
    <2>2. Received(queue, d) \in Queues /\ Alive(d) /\ From(d) \in Targets
        BY <2>1, Reads
    <2>3. Onward(d)
        BY <1>9, <2>1, Goes DEF ServeOffer
    <2> QED
        BY <1>9, <2>2, <2>3, TypesSplit, DragAssumption
        DEF ServeOffer, Onward, talk, shared, theirs, DropWanted, AgreedHere,
            NotYet, Course, Marking, Marks, Alive
<1>10. ASSUME NEW d \in Drags, Advance(d) PROVE DropWanted'
    <2>1. Heads(d, {"delete"})
        BY <1>10 DEF Advance
    <2>2. Received(queue, d) \in Queues /\ Alive(d) /\ From(d) \in Targets
        BY <2>1, Reads
    <2>3. Onward(d)
        BY <1>10, <2>1, Goes DEF Advance
    <2> QED
        BY <1>10, <2>2, <2>3, TypesSplit, DragAssumption
        DEF Advance, Onward, talk, shared, theirs, DropWanted, AgreedHere,
            NotYet, Course, Marking, Marks, Alive
<1>11. ASSUME NEW d \in Drags, Finished(d) PROVE DropWanted'
    <2>1. Heads(d, {"finished"})
        BY <1>11 DEF Finished
    <2>2. Received(queue, d) \in Queues /\ Alive(d) /\ From(d) \in Targets
        BY <2>1, Reads
    <2>3. Onward(d)
        BY <1>11, <2>1, Goes DEF Finished
    <2> QED
        BY <1>11, <2>2, <2>3, TypesSplit, DragAssumption
        DEF Finished, Onward, talk, shared, theirs, DropWanted, AgreedHere,
            NotYet, Course, Marking, Marks, Alive
<1>12. ASSUME NEW d \in Drags, Ignore(d) PROVE DropWanted'
    <2>1. Onward(d) /\ Alive(d)
        <3>1. CASE Heads(d, {"finished"})
            BY <1>12, <3>1, Goes, Reads
            DEF Ignore
        <3>2. CASE Heads(d, {"motion", "yes", "no", "release"})
            BY <1>12, <3>2, Goes, Reads
            DEF Ignore
        <3> QED
            BY <1>12, <3>1, <3>2 DEF Ignore
    <2> QED
        BY <1>12, <2>1, TypesSplit, DragAssumption
        DEF Ignore, Onward, talk, shared, theirs, DropWanted, AgreedHere,
            NotYet, Course, Marking, Marks, Alive
<1>13. ASSUME NEW d \in Drags, Timeout(d) PROVE DropWanted'
    BY <1>13, TypesSplit, DragAssumption
    DEF Timeout, Ended, Marked, talk, shared, theirs, DropWanted, AgreedHere,
        NotYet, Course, Marking, Marks, Alive
<1>14. ASSUME NEW t \in Targets, NEW d \in Drags, Reply(t, d) PROVE DropWanted'
    BY <1>14, TypesSplit, DragAssumption
    DEF Reply, talk, shared, theirs, DropWanted, AgreedHere, NotYet, Course,
        Marking, Marks, Alive
<1>15. ASSUME NEW t \in Targets, NEW kind \in {"list", "ark"}, Ask(t, kind)
      PROVE  DropWanted'
    BY <1>15, TypesSplit, DragAssumption
    DEF Ask, talk, shared, theirs, DropWanted, AgreedHere, NotYet, Course,
        Marking, Marks, Alive
<1>16. ASSUME NEW t \in Targets, Receive(t) PROVE DropWanted'
    BY <1>16, TypesSplit, DragAssumption
    DEF Receive, Delete, talk, shared, theirs, DropWanted, AgreedHere, NotYet,
        Course, Marking, Marks, Alive
<1>17. ASSUME NEW t \in Targets, Take(t) PROVE DropWanted'
    BY <1>17, TypesSplit, DragAssumption
    DEF Take, Delete, talk, shared, theirs, DropWanted, AgreedHere, NotYet,
        Course, Marking, Marks, Alive
<1>18. ASSUME NEW t \in Targets, Extract(t) PROVE DropWanted'
    BY <1>18, TypesSplit, DragAssumption
    DEF Extract, talk, shared, theirs, DropWanted, AgreedHere, NotYet, Course,
        Marking, Marks, Alive
<1>19. ASSUME NEW t \in Targets, NEW d \in Drags, Finish(t, d) PROVE DropWanted'
    BY <1>19, TypesSplit, DragAssumption
    DEF Finish, talk, shared, theirs, DropWanted, AgreedHere, NotYet, Course,
        Marking, Marks, Alive
<1>20. CASE UNCHANGED vars
    BY <1>20 DEF vars, talk, shared, theirs, DropWanted, AgreedHere, NotYet,
                 Course, Marking, Marks, Alive
<1> QED
    BY <1>1, <1>2, <1>3, <1>4, <1>5, <1>6, <1>7, <1>8, <1>9, <1>10, <1>11,
       <1>12, <1>13, <1>14, <1>15, <1>16, <1>17, <1>18, <1>19, <1>20
    DEF Next, Thread, Other

\* Every step ends a drag with its transfers complete.
LEMMA CutOffKept ==
    TypeOK /\ NotYet /\ NoneCutOff /\ [Next]_vars => NoneCutOff'
<1> SUFFICES ASSUME TypeOK, NotYet, NoneCutOff, [Next]_vars
             PROVE  NoneCutOff'
    OBVIOUS
<1>1. ASSUME NEW d \in Drags, Start(d) PROVE NoneCutOff'
    BY <1>1, TypesSplit, DragAssumption
    DEF Start, talk, shared, theirs, NoneCutOff, NotYet, Course, Marking,
        Marks, Alive
<1>2. ASSUME NEW d \in Drags, NEW t \in Targets \cup {None}, Move(d, t)
      PROVE  NoneCutOff'
    BY <1>2, TypesSplit, DragAssumption
    DEF Move, talk, shared, theirs, NoneCutOff, NotYet, Course, Marking, Marks,
        Alive
<1>3. ASSUME NEW d \in Drags, LetGo(d) PROVE NoneCutOff'
    BY <1>3, TypesSplit, DragAssumption
    DEF LetGo, talk, shared, theirs, NoneCutOff, NotYet, Course, Marking,
        Marks, Alive
<1>4. ASSUME NEW d \in Drags, Motion(d) PROVE NoneCutOff'
    <2>1. Heads(d, {"motion"})
        BY <1>4 DEF Motion
    <2>2. Received(queue, d) \in Queues /\ Alive(d)
        BY <2>1, Reads
    <2> QED
        BY <1>4, <2>2, TypesSplit, DragAssumption
        DEF Motion, Enter, talk, shared, theirs, NoneCutOff, NotYet, Course,
            Marking, Marks, Alive
<1>5. ASSUME NEW d \in Drags, Status(d) PROVE NoneCutOff'
    <2>1. Heads(d, {"yes", "no"})
        BY <1>5 DEF Status
    <2>2. Received(queue, d) \in Queues /\ Alive(d) /\ From(d) \in Targets
        BY <2>1, Reads
    <2> QED
        BY <1>5, <2>2, TypesSplit, DragAssumption
        DEF Status, Marked, talk, shared, theirs, NoneCutOff, NotYet, Course,
            Marking, Marks, Alive
<1>6. ASSUME NEW d \in Drags, Release(d) PROVE NoneCutOff'
    <2>1. Heads(d, {"release"})
        BY <1>6 DEF Release
    <2>2. Received(queue, d) \in Queues /\ Alive(d)
        BY <2>1, Reads
    <2> QED
        BY <1>6, <2>2, TypesSplit, DragAssumption
        DEF Release, Marked, Ended, talk, shared, theirs, NoneCutOff, NotYet,
            Course, Marking, Marks, Alive
<1>7. ASSUME NEW d \in Drags, ServeList(d) PROVE NoneCutOff'
    <2>1. Heads(d, {"list"})
        BY <1>7 DEF ServeList
    <2>2. Received(queue, d) \in Queues /\ Alive(d) /\ From(d) \in Targets
        BY <2>1, Reads
    <2>3. Onward(d)
        BY <1>7, <2>1, Goes DEF ServeList
    <2>4. \A e \in Drags : e # d => transfers'[e] = transfers[e]
        BY <1>7, TypesSplit DEF ServeList, Course, BeginTransfer
    <2>5. /\ phase' \in {phase, [phase EXCEPT ![d] = "done"]}
          /\ phase'[d] = "done" => finished'[d] /\ DOMAIN transfers'[d] = {}
        BY <2>2, <2>3, TypesSplit DEF Onward, Alive, Course
    <2>6. finished' = finished /\ ghosts' = ghosts
        BY <1>7 DEF ServeList
    <2> QED
        BY <2>4, <2>5, <2>6, TypesSplit DEF NoneCutOff, Course
<1>8. ASSUME NEW d \in Drags, StagingFails(d) PROVE NoneCutOff'
    <2>1. Heads(d, {"list"})
        BY <1>8 DEF StagingFails
    <2>2. Received(queue, d) \in Queues /\ Alive(d) /\ From(d) \in Targets
        BY <2>1, Reads
    <2> QED
        BY <1>8, <2>2, TypesSplit, DragAssumption
        DEF StagingFails, Failed, talk, shared, theirs, NoneCutOff, NotYet,
            Course, Marking, Marks, Alive
<1>9. ASSUME NEW d \in Drags, ServeOffer(d) PROVE NoneCutOff'
    <2>1. Heads(d, {"ark"})
        BY <1>9 DEF ServeOffer
    <2>2. Received(queue, d) \in Queues /\ Alive(d) /\ From(d) \in Targets
        BY <2>1, Reads
    <2>3. Onward(d)
        BY <1>9, <2>1, Goes DEF ServeOffer
    <2> QED
        BY <1>9, <2>2, <2>3, TypesSplit, DragAssumption
        DEF ServeOffer, Onward, talk, shared, theirs, NoneCutOff, NotYet,
            Course, Marking, Marks, Alive
<1>10. ASSUME NEW d \in Drags, Advance(d) PROVE NoneCutOff'
    <2>1. Heads(d, {"delete"})
        BY <1>10 DEF Advance
    <2>2. Received(queue, d) \in Queues /\ Alive(d) /\ From(d) \in Targets
        BY <2>1, Reads
    <2>3. Onward(d)
        BY <1>10, <2>1, Goes DEF Advance
    <2> QED
        BY <1>10, <2>2, <2>3, TypesSplit, DragAssumption
        DEF Advance, Onward, talk, shared, theirs, NoneCutOff, NotYet, Course,
            Marking, Marks, Alive
<1>11. ASSUME NEW d \in Drags, Finished(d) PROVE NoneCutOff'
    <2>1. Heads(d, {"finished"})
        BY <1>11 DEF Finished
    <2>2. Received(queue, d) \in Queues /\ Alive(d) /\ From(d) \in Targets
        BY <2>1, Reads
    <2>3. Onward(d)
        BY <1>11, <2>1, Goes DEF Finished
    <2> QED
        BY <1>11, <2>2, <2>3, TypesSplit, DragAssumption
        DEF Finished, Onward, talk, shared, theirs, NoneCutOff, NotYet, Course,
            Marking, Marks, Alive
<1>12. ASSUME NEW d \in Drags, Ignore(d) PROVE NoneCutOff'
    <2>1. Onward(d) /\ Alive(d)
        <3>1. CASE Heads(d, {"finished"})
            BY <1>12, <3>1, Goes, Reads
            DEF Ignore
        <3>2. CASE Heads(d, {"motion", "yes", "no", "release"})
            BY <1>12, <3>2, Goes, Reads
            DEF Ignore
        <3> QED
            BY <1>12, <3>1, <3>2 DEF Ignore
    <2> QED
        BY <1>12, <2>1, TypesSplit, DragAssumption
        DEF Ignore, Onward, talk, shared, theirs, NoneCutOff, NotYet, Course,
            Marking, Marks, Alive
<1>13. ASSUME NEW d \in Drags, Timeout(d) PROVE NoneCutOff'
    BY <1>13, TypesSplit, DragAssumption
    DEF Timeout, Ended, Marked, talk, shared, theirs, NoneCutOff, NotYet,
        Course, Marking, Marks, Alive
<1>14. ASSUME NEW t \in Targets, NEW d \in Drags, Reply(t, d) PROVE NoneCutOff'
    BY <1>14, TypesSplit, DragAssumption
    DEF Reply, talk, shared, theirs, NoneCutOff, NotYet, Course, Marking,
        Marks, Alive
<1>15. ASSUME NEW t \in Targets, NEW kind \in {"list", "ark"}, Ask(t, kind)
      PROVE  NoneCutOff'
    BY <1>15, TypesSplit, DragAssumption
    DEF Ask, talk, shared, theirs, NoneCutOff, NotYet, Course, Marking, Marks,
        Alive
<1>16. ASSUME NEW t \in Targets, Receive(t) PROVE NoneCutOff'
    BY <1>16, TypesSplit, DragAssumption
    DEF Receive, Delete, talk, shared, theirs, NoneCutOff, NotYet, Course,
        Marking, Marks, Alive
<1>17. ASSUME NEW t \in Targets, Take(t) PROVE NoneCutOff'
    BY <1>17, TypesSplit, DragAssumption
    DEF Take, Delete, talk, shared, theirs, NoneCutOff, NotYet, Course,
        Marking, Marks, Alive
<1>18. ASSUME NEW t \in Targets, Extract(t) PROVE NoneCutOff'
    BY <1>18, TypesSplit, DragAssumption
    DEF Extract, talk, shared, theirs, NoneCutOff, NotYet, Course, Marking,
        Marks, Alive
<1>19. ASSUME NEW t \in Targets, NEW d \in Drags, Finish(t, d) PROVE NoneCutOff'
    BY <1>19, TypesSplit, DragAssumption
    DEF Finish, talk, shared, theirs, NoneCutOff, NotYet, Course, Marking,
        Marks, Alive
<1>20. CASE UNCHANGED vars
    BY <1>20 DEF vars, talk, shared, theirs, NoneCutOff, NotYet, Course,
                 Marking, Marks, Alive
<1> QED
    BY <1>1, <1>2, <1>3, <1>4, <1>5, <1>6, <1>7, <1>8, <1>9, <1>10, <1>11,
       <1>12, <1>13, <1>14, <1>15, <1>16, <1>17, <1>18, <1>19, <1>20
    DEF Next, Thread, Other

\* Every step leaves alone what nobody has begun.
LEMMA BegunKept ==
    TypeOK /\ Begun /\ [Next]_vars => Begun'
<1> SUFFICES ASSUME TypeOK, Begun, [Next]_vars
             PROVE  Begun'
    OBVIOUS
<1>1. ASSUME NEW d \in Drags, Start(d) PROVE Begun'
    BY <1>1, TypesSplit DEF Start, talk, shared, theirs, Begun, Course, Alive
<1>2. ASSUME NEW d \in Drags, NEW t \in Targets \cup {None}, Move(d, t)
      PROVE  Begun'
    BY <1>2, TypesSplit DEF Move, talk, shared, theirs, Begun, Course, Alive
<1>3. ASSUME NEW d \in Drags, LetGo(d) PROVE Begun'
    BY <1>3, TypesSplit DEF LetGo, talk, shared, theirs, Begun, Course, Alive
<1>4. ASSUME NEW d \in Drags, Motion(d) PROVE Begun'
    <2>1. Heads(d, {"motion"})
        BY <1>4 DEF Motion
    <2>2. Received(queue, d) \in Queues /\ Alive(d)
        BY <2>1, Reads
    <2> QED
        BY <1>4, <2>2, TypesSplit DEF Motion, Enter, talk, shared, theirs,
                                      Begun, Course, Alive
<1>5. ASSUME NEW d \in Drags, Status(d) PROVE Begun'
    <2>1. Heads(d, {"yes", "no"})
        BY <1>5 DEF Status
    <2>2. Received(queue, d) \in Queues /\ Alive(d) /\ From(d) \in Targets
        BY <2>1, Reads
    <2> QED
        BY <1>5, <2>2, TypesSplit DEF Status, Marked, talk, shared, theirs,
                                      Begun, Course, Alive
<1>6. ASSUME NEW d \in Drags, Release(d) PROVE Begun'
    <2>1. Heads(d, {"release"})
        BY <1>6 DEF Release
    <2>2. Received(queue, d) \in Queues /\ Alive(d)
        BY <2>1, Reads
    <2> QED
        BY <1>6, <2>2, TypesSplit DEF Release, Marked, Ended, talk, shared,
                                      theirs, Begun, Course, Alive
<1>7. ASSUME NEW d \in Drags, ServeList(d) PROVE Begun'
    <2>1. Heads(d, {"list"})
        BY <1>7 DEF ServeList
    <2>2. Received(queue, d) \in Queues /\ Alive(d) /\ From(d) \in Targets
        BY <2>1, Reads
    <2>3. Onward(d)
        BY <1>7, <2>1, Goes DEF ServeList
    <2> QED
        BY <1>7, <2>2, <2>3, TypesSplit
        DEF ServeList, Onward, talk, shared, theirs, Begun, Course, Alive
<1>8. ASSUME NEW d \in Drags, StagingFails(d) PROVE Begun'
    <2>1. Heads(d, {"list"})
        BY <1>8 DEF StagingFails
    <2>2. Received(queue, d) \in Queues /\ Alive(d) /\ From(d) \in Targets
        BY <2>1, Reads
    <2> QED
        BY <1>8, <2>2, TypesSplit DEF StagingFails, Failed, talk, shared,
                                      theirs, Begun, Course, Alive
<1>9. ASSUME NEW d \in Drags, ServeOffer(d) PROVE Begun'
    <2>1. Heads(d, {"ark"})
        BY <1>9 DEF ServeOffer
    <2>2. Received(queue, d) \in Queues /\ Alive(d) /\ From(d) \in Targets
        BY <2>1, Reads
    <2>3. Onward(d)
        BY <1>9, <2>1, Goes DEF ServeOffer
    <2> QED
        BY <1>9, <2>2, <2>3, TypesSplit
        DEF ServeOffer, Onward, talk, shared, theirs, Begun, Course, Alive
<1>10. ASSUME NEW d \in Drags, Advance(d) PROVE Begun'
    <2>1. Heads(d, {"delete"})
        BY <1>10 DEF Advance
    <2>2. Received(queue, d) \in Queues /\ Alive(d) /\ From(d) \in Targets
        BY <2>1, Reads
    <2>3. Onward(d)
        BY <1>10, <2>1, Goes DEF Advance
    <2> QED
        BY <1>10, <2>2, <2>3, TypesSplit
        DEF Advance, Onward, talk, shared, theirs, Begun, Course, Alive
<1>11. ASSUME NEW d \in Drags, Finished(d) PROVE Begun'
    <2>1. Heads(d, {"finished"})
        BY <1>11 DEF Finished
    <2>2. Received(queue, d) \in Queues /\ Alive(d) /\ From(d) \in Targets
        BY <2>1, Reads
    <2>3. Onward(d)
        BY <1>11, <2>1, Goes DEF Finished
    <2> QED
        BY <1>11, <2>2, <2>3, TypesSplit
        DEF Finished, Onward, talk, shared, theirs, Begun, Course, Alive
<1>12. ASSUME NEW d \in Drags, Ignore(d) PROVE Begun'
    <2>1. Onward(d) /\ Alive(d)
        <3>1. CASE Heads(d, {"finished"})
            BY <1>12, <3>1, Goes, Reads
            DEF Ignore
        <3>2. CASE Heads(d, {"motion", "yes", "no", "release"})
            BY <1>12, <3>2, Goes, Reads
            DEF Ignore
        <3> QED
            BY <1>12, <3>1, <3>2 DEF Ignore
    <2> QED
        BY <1>12, <2>1, TypesSplit DEF Ignore, Onward, talk, shared, theirs,
                                       Begun, Course, Alive
<1>13. ASSUME NEW d \in Drags, Timeout(d) PROVE Begun'
    BY <1>13, TypesSplit DEF Timeout, Ended, Marked, talk, shared, theirs,
                             Begun, Course, Alive
<1>14. ASSUME NEW t \in Targets, NEW d \in Drags, Reply(t, d) PROVE Begun'
    BY <1>14, TypesSplit DEF Reply, talk, shared, theirs, Begun, Course, Alive
<1>15. ASSUME NEW t \in Targets, NEW kind \in {"list", "ark"}, Ask(t, kind)
      PROVE  Begun'
    BY <1>15, TypesSplit DEF Ask, talk, shared, theirs, Begun, Course, Alive
<1>16. ASSUME NEW t \in Targets, Receive(t) PROVE Begun'
    BY <1>16, TypesSplit DEF Receive, Delete, talk, shared, theirs, Begun,
                             Course, Alive
<1>17. ASSUME NEW t \in Targets, Take(t) PROVE Begun'
    BY <1>17, TypesSplit DEF Take, Delete, talk, shared, theirs, Begun, Course,
                             Alive
<1>18. ASSUME NEW t \in Targets, Extract(t) PROVE Begun'
    BY <1>18, TypesSplit DEF Extract, talk, shared, theirs, Begun, Course,
                             Alive
<1>19. ASSUME NEW t \in Targets, NEW d \in Drags, Finish(t, d) PROVE Begun'
    BY <1>19, TypesSplit DEF Finish, talk, shared, theirs, Begun, Course, Alive
<1>20. CASE UNCHANGED vars
    BY <1>20 DEF vars, talk, shared, theirs, Begun, Course, Alive
<1> QED
    BY <1>1, <1>2, <1>3, <1>4, <1>5, <1>6, <1>7, <1>8, <1>9, <1>10, <1>11,
       <1>12, <1>13, <1>14, <1>15, <1>16, <1>17, <1>18, <1>19, <1>20
    DEF Next, Thread, Other

\* Every step leaves the extraction service with entries.
LEMMA OfferedKept ==
    TypeOK /\ Offered /\ [Next]_vars => Offered'
<1> SUFFICES ASSUME TypeOK, Offered, [Next]_vars
             PROVE  Offered'
    OBVIOUS
<1>1. ASSUME NEW d \in Drags, Start(d) PROVE Offered'
    BY <1>1, TypesSplit, DragAssumption
    DEF Start, talk, shared, theirs, Offered, Course, Desk, Alive
<1>2. ASSUME NEW d \in Drags, NEW t \in Targets \cup {None}, Move(d, t)
      PROVE  Offered'
    BY <1>2, TypesSplit, DragAssumption
    DEF Move, talk, shared, theirs, Offered, Course, Desk, Alive
<1>3. ASSUME NEW d \in Drags, LetGo(d) PROVE Offered'
    BY <1>3, TypesSplit, DragAssumption
    DEF LetGo, talk, shared, theirs, Offered, Course, Desk, Alive
<1>4. ASSUME NEW d \in Drags, Motion(d) PROVE Offered'
    <2>1. Heads(d, {"motion"})
        BY <1>4 DEF Motion
    <2>2. Received(queue, d) \in Queues /\ Alive(d)
        BY <2>1, Reads
    <2> QED
        BY <1>4, <2>2, TypesSplit, DragAssumption
        DEF Motion, Enter, talk, shared, theirs, Offered, Course, Desk, Alive
<1>5. ASSUME NEW d \in Drags, Status(d) PROVE Offered'
    <2>1. Heads(d, {"yes", "no"})
        BY <1>5 DEF Status
    <2>2. Received(queue, d) \in Queues /\ Alive(d) /\ From(d) \in Targets
        BY <2>1, Reads
    <2> QED
        BY <1>5, <2>2, TypesSplit, DragAssumption
        DEF Status, Marked, talk, shared, theirs, Offered, Course, Desk, Alive
<1>6. ASSUME NEW d \in Drags, Release(d) PROVE Offered'
    <2>1. Heads(d, {"release"})
        BY <1>6 DEF Release
    <2>2. Received(queue, d) \in Queues /\ Alive(d)
        BY <2>1, Reads
    <2> QED
        BY <1>6, <2>2, TypesSplit, DragAssumption
        DEF Release, Marked, Ended, talk, shared, theirs, Offered, Course,
            Desk, Alive
<1>7. ASSUME NEW d \in Drags, ServeList(d) PROVE Offered'
    <2>1. Heads(d, {"list"})
        BY <1>7 DEF ServeList
    <2>2. Received(queue, d) \in Queues /\ Alive(d) /\ From(d) \in Targets
        BY <2>1, Reads
    <2>3. Onward(d)
        BY <1>7, <2>1, Goes DEF ServeList
    <2> QED
        BY <1>7, <2>2, <2>3, TypesSplit, DragAssumption
        DEF ServeList, Onward, talk, shared, theirs, Offered, Course, Desk,
            Alive
<1>8. ASSUME NEW d \in Drags, StagingFails(d) PROVE Offered'
    <2>1. Heads(d, {"list"})
        BY <1>8 DEF StagingFails
    <2>2. Received(queue, d) \in Queues /\ Alive(d) /\ From(d) \in Targets
        BY <2>1, Reads
    <2> QED
        BY <1>8, <2>2, TypesSplit, DragAssumption
        DEF StagingFails, Failed, talk, shared, theirs, Offered, Course, Desk,
            Alive
<1>9. ASSUME NEW d \in Drags, ServeOffer(d) PROVE Offered'
    <2>1. Heads(d, {"ark"})
        BY <1>9 DEF ServeOffer
    <2>2. Received(queue, d) \in Queues /\ Alive(d) /\ From(d) \in Targets
        BY <2>1, Reads
    <2>3. Onward(d)
        BY <1>9, <2>1, Goes DEF ServeOffer
    <2> QED
        BY <1>9, <2>2, <2>3, TypesSplit, DragAssumption
        DEF ServeOffer, Onward, talk, shared, theirs, Offered, Course, Desk,
            Alive
<1>10. ASSUME NEW d \in Drags, Advance(d) PROVE Offered'
    <2>1. Heads(d, {"delete"})
        BY <1>10 DEF Advance
    <2>2. Received(queue, d) \in Queues /\ Alive(d) /\ From(d) \in Targets
        BY <2>1, Reads
    <2>3. Onward(d)
        BY <1>10, <2>1, Goes DEF Advance
    <2> QED
        BY <1>10, <2>2, <2>3, TypesSplit, DragAssumption
        DEF Advance, Onward, talk, shared, theirs, Offered, Course, Desk, Alive
<1>11. ASSUME NEW d \in Drags, Finished(d) PROVE Offered'
    <2>1. Heads(d, {"finished"})
        BY <1>11 DEF Finished
    <2>2. Received(queue, d) \in Queues /\ Alive(d) /\ From(d) \in Targets
        BY <2>1, Reads
    <2>3. Onward(d)
        BY <1>11, <2>1, Goes DEF Finished
    <2> QED
        BY <1>11, <2>2, <2>3, TypesSplit, DragAssumption
        DEF Finished, Onward, talk, shared, theirs, Offered, Course, Desk,
            Alive
<1>12. ASSUME NEW d \in Drags, Ignore(d) PROVE Offered'
    <2>1. Onward(d) /\ Alive(d)
        <3>1. CASE Heads(d, {"finished"})
            BY <1>12, <3>1, Goes, Reads
            DEF Ignore
        <3>2. CASE Heads(d, {"motion", "yes", "no", "release"})
            BY <1>12, <3>2, Goes, Reads
            DEF Ignore
        <3> QED
            BY <1>12, <3>1, <3>2 DEF Ignore
    <2> QED
        BY <1>12, <2>1, TypesSplit, DragAssumption
        DEF Ignore, Onward, talk, shared, theirs, Offered, Course, Desk, Alive
<1>13. ASSUME NEW d \in Drags, Timeout(d) PROVE Offered'
    BY <1>13, TypesSplit, DragAssumption
    DEF Timeout, Ended, Marked, talk, shared, theirs, Offered, Course, Desk,
        Alive
<1>14. ASSUME NEW t \in Targets, NEW d \in Drags, Reply(t, d) PROVE Offered'
    BY <1>14, TypesSplit, DragAssumption
    DEF Reply, talk, shared, theirs, Offered, Course, Desk, Alive
<1>15. ASSUME NEW t \in Targets, NEW kind \in {"list", "ark"}, Ask(t, kind)
      PROVE  Offered'
    BY <1>15, TypesSplit, DragAssumption
    DEF Ask, talk, shared, theirs, Offered, Course, Desk, Alive
<1>16. ASSUME NEW t \in Targets, Receive(t) PROVE Offered'
    BY <1>16, TypesSplit, DragAssumption
    DEF Receive, Delete, talk, shared, theirs, Offered, Course, Desk, Alive
<1>17. ASSUME NEW t \in Targets, Take(t) PROVE Offered'
    BY <1>17, TypesSplit, DragAssumption
    DEF Take, Delete, talk, shared, theirs, Offered, Course, Desk, Alive
<1>18. ASSUME NEW t \in Targets, Extract(t) PROVE Offered'
    BY <1>18, TypesSplit, DragAssumption
    DEF Extract, talk, shared, theirs, Offered, Course, Desk, Alive
<1>19. ASSUME NEW t \in Targets, NEW d \in Drags, Finish(t, d) PROVE Offered'
    BY <1>19, TypesSplit, DragAssumption
    DEF Finish, talk, shared, theirs, Offered, Course, Desk, Alive
<1>20. CASE UNCHANGED vars
    BY <1>20 DEF vars, talk, shared, theirs, Offered, Course, Desk, Alive
<1> QED
    BY <1>1, <1>2, <1>3, <1>4, <1>5, <1>6, <1>7, <1>8, <1>9, <1>10, <1>11,
       <1>12, <1>13, <1>14, <1>15, <1>16, <1>17, <1>18, <1>19, <1>20
    DEF Next, Thread, Other

\* Drags that overlapped have done so.
LEMMA CalmBefore ==
    TypeOK /\ ~Calm /\ [Next]_vars => (~Calm)'
<1> SUFFICES ASSUME TypeOK, ~Calm, [Next]_vars
             PROVE  (~Calm)'
    OBVIOUS
<1>1. ASSUME NEW d \in Drags, Start(d) PROVE (~Calm)'
    BY <1>1, TypesSplit, DragAssumption
    DEF Start, talk, shared, theirs, Calm, Course, Marking, Marks, Alive
<1>2. ASSUME NEW d \in Drags, NEW t \in Targets \cup {None}, Move(d, t)
      PROVE  (~Calm)'
    BY <1>2, TypesSplit, DragAssumption
    DEF Move, talk, shared, theirs, Calm, Course, Marking, Marks, Alive
<1>3. ASSUME NEW d \in Drags, LetGo(d) PROVE (~Calm)'
    BY <1>3, TypesSplit, DragAssumption
    DEF LetGo, talk, shared, theirs, Calm, Course, Marking, Marks, Alive
<1>4. ASSUME NEW d \in Drags, Motion(d) PROVE (~Calm)'
    <2>1. Heads(d, {"motion"})
        BY <1>4 DEF Motion
    <2>2. Received(queue, d) \in Queues /\ Alive(d)
        BY <2>1, Reads
    <2> QED
        BY <1>4, <2>2, TypesSplit, DragAssumption
        DEF Motion, Enter, talk, shared, theirs, Calm, Course, Marking, Marks,
            Alive
<1>5. ASSUME NEW d \in Drags, Status(d) PROVE (~Calm)'
    <2>1. Heads(d, {"yes", "no"})
        BY <1>5 DEF Status
    <2>2. Received(queue, d) \in Queues /\ Alive(d) /\ From(d) \in Targets
        BY <2>1, Reads
    <2> QED
        BY <1>5, <2>2, TypesSplit, DragAssumption
        DEF Status, Marked, talk, shared, theirs, Calm, Course, Marking, Marks,
            Alive
<1>6. ASSUME NEW d \in Drags, Release(d) PROVE (~Calm)'
    <2>1. Heads(d, {"release"})
        BY <1>6 DEF Release
    <2>2. Received(queue, d) \in Queues /\ Alive(d)
        BY <2>1, Reads
    <2> QED
        BY <1>6, <2>2, TypesSplit, DragAssumption
        DEF Release, Marked, Ended, talk, shared, theirs, Calm, Course,
            Marking, Marks, Alive
<1>7. ASSUME NEW d \in Drags, ServeList(d) PROVE (~Calm)'
    <2>1. Heads(d, {"list"})
        BY <1>7 DEF ServeList
    <2>2. Received(queue, d) \in Queues /\ Alive(d) /\ From(d) \in Targets
        BY <2>1, Reads
    <2>3. Onward(d)
        BY <1>7, <2>1, Goes DEF ServeList
    <2> QED
        BY <1>7, <2>2, <2>3, TypesSplit, DragAssumption
        DEF ServeList, Onward, talk, shared, theirs, Calm, Course, Marking,
            Marks, Alive
<1>8. ASSUME NEW d \in Drags, StagingFails(d) PROVE (~Calm)'
    <2>1. Heads(d, {"list"})
        BY <1>8 DEF StagingFails
    <2>2. Received(queue, d) \in Queues /\ Alive(d) /\ From(d) \in Targets
        BY <2>1, Reads
    <2> QED
        BY <1>8, <2>2, TypesSplit, DragAssumption
        DEF StagingFails, Failed, talk, shared, theirs, Calm, Course, Marking,
            Marks, Alive
<1>9. ASSUME NEW d \in Drags, ServeOffer(d) PROVE (~Calm)'
    <2>1. Heads(d, {"ark"})
        BY <1>9 DEF ServeOffer
    <2>2. Received(queue, d) \in Queues /\ Alive(d) /\ From(d) \in Targets
        BY <2>1, Reads
    <2>3. Onward(d)
        BY <1>9, <2>1, Goes DEF ServeOffer
    <2> QED
        BY <1>9, <2>2, <2>3, TypesSplit, DragAssumption
        DEF ServeOffer, Onward, talk, shared, theirs, Calm, Course, Marking,
            Marks, Alive
<1>10. ASSUME NEW d \in Drags, Advance(d) PROVE (~Calm)'
    <2>1. Heads(d, {"delete"})
        BY <1>10 DEF Advance
    <2>2. Received(queue, d) \in Queues /\ Alive(d) /\ From(d) \in Targets
        BY <2>1, Reads
    <2>3. Onward(d)
        BY <1>10, <2>1, Goes DEF Advance
    <2> QED
        BY <1>10, <2>2, <2>3, TypesSplit, DragAssumption
        DEF Advance, Onward, talk, shared, theirs, Calm, Course, Marking,
            Marks, Alive
<1>11. ASSUME NEW d \in Drags, Finished(d) PROVE (~Calm)'
    <2>1. Heads(d, {"finished"})
        BY <1>11 DEF Finished
    <2>2. Received(queue, d) \in Queues /\ Alive(d) /\ From(d) \in Targets
        BY <2>1, Reads
    <2>3. Onward(d)
        BY <1>11, <2>1, Goes DEF Finished
    <2> QED
        BY <1>11, <2>2, <2>3, TypesSplit, DragAssumption
        DEF Finished, Onward, talk, shared, theirs, Calm, Course, Marking,
            Marks, Alive
<1>12. ASSUME NEW d \in Drags, Ignore(d) PROVE (~Calm)'
    <2>1. Onward(d) /\ Alive(d)
        <3>1. CASE Heads(d, {"finished"})
            BY <1>12, <3>1, Goes, Reads
            DEF Ignore
        <3>2. CASE Heads(d, {"motion", "yes", "no", "release"})
            BY <1>12, <3>2, Goes, Reads
            DEF Ignore
        <3> QED
            BY <1>12, <3>1, <3>2 DEF Ignore
    <2> QED
        BY <1>12, <2>1, TypesSplit, DragAssumption
        DEF Ignore, Onward, talk, shared, theirs, Calm, Course, Marking, Marks,
            Alive
<1>13. ASSUME NEW d \in Drags, Timeout(d) PROVE (~Calm)'
    BY <1>13, TypesSplit, DragAssumption
    DEF Timeout, Ended, Marked, talk, shared, theirs, Calm, Course, Marking,
        Marks, Alive
<1>14. ASSUME NEW t \in Targets, NEW d \in Drags, Reply(t, d) PROVE (~Calm)'
    BY <1>14, TypesSplit, DragAssumption
    DEF Reply, talk, shared, theirs, Calm, Course, Marking, Marks, Alive
<1>15. ASSUME NEW t \in Targets, NEW kind \in {"list", "ark"}, Ask(t, kind)
      PROVE  (~Calm)'
    BY <1>15, TypesSplit, DragAssumption
    DEF Ask, talk, shared, theirs, Calm, Course, Marking, Marks, Alive
<1>16. ASSUME NEW t \in Targets, Receive(t) PROVE (~Calm)'
    BY <1>16, TypesSplit, DragAssumption
    DEF Receive, Delete, talk, shared, theirs, Calm, Course, Marking, Marks,
        Alive
<1>17. ASSUME NEW t \in Targets, Take(t) PROVE (~Calm)'
    BY <1>17, TypesSplit, DragAssumption
    DEF Take, Delete, talk, shared, theirs, Calm, Course, Marking, Marks, Alive
<1>18. ASSUME NEW t \in Targets, Extract(t) PROVE (~Calm)'
    BY <1>18, TypesSplit, DragAssumption
    DEF Extract, talk, shared, theirs, Calm, Course, Marking, Marks, Alive
<1>19. ASSUME NEW t \in Targets, NEW d \in Drags, Finish(t, d) PROVE (~Calm)'
    BY <1>19, TypesSplit, DragAssumption
    DEF Finish, talk, shared, theirs, Calm, Course, Marking, Marks, Alive
<1>20. CASE UNCHANGED vars
    BY <1>20 DEF vars, talk, shared, theirs, Calm, Course, Marking, Marks,
                 Alive
<1> QED
    BY <1>1, <1>2, <1>3, <1>4, <1>5, <1>6, <1>7, <1>8, <1>9, <1>10, <1>11,
       <1>12, <1>13, <1>14, <1>15, <1>16, <1>17, <1>18, <1>19, <1>20
    DEF Next, Thread, Other

----------------------------------------------------------------------------
(* Lists arrive whole: queues.                                             *)

\* What does not matter to target t may happen to a queue.
Spares(old, new, t) ==
    /\ Turn(old, t) => Turn(new, t)
    /\ Lacks(old, t, Requests) => Lacks(new, t, Requests)
    /\ Lacks(old, t, {"delete"}) => Lacks(new, t, {"delete"})
    /\ OneDeletion(old, t) => OneDeletion(new, t)

LEMMA SparesSame == \A q, t : Spares(q, q, t)
BY DEF Spares

LEMMA SparesEmpty == \A q, t : Spares(q, <<>>, t)
<1>1. 1..Len(<<>>) = {}
    OBVIOUS
<1> QED
    BY <1>1 DEF Spares, Turn, Lacks, OneDeletion

\* Reading an event ...
LEMMA SparesTail ==
    ASSUME NEW q \in Seq(Events), q # <<>>, NEW t
    PROVE  Spares(q, Tail(q), t)
<1>1. /\ Len(q) \in Nat \ {0} /\ Len(Tail(q)) = Len(q) - 1
      /\ \A i \in 1..Len(Tail(q)) : i + 1 \in 1..Len(q) /\ Tail(q)[i] = q[i + 1]
    BY HeadTailProperties, EmptySeq
<1>2. Turn(q, t) => Turn(Tail(q), t)
    <2> SUFFICES ASSUME Turn(q, t), NEW i \in 1..Len(Tail(q)), NEW j \in 1..Len(Tail(q)), i < j,
                        Tail(q)[i].from = t, Tail(q)[i].kind \in Requests
                 PROVE  ~(Tail(q)[j].from = t /\ Tail(q)[j].kind \in Requests \cup {"delete"})
        BY DEF Turn
    <2>1. i + 1 < j + 1 /\ q[i + 1].from = t /\ q[i + 1].kind \in Requests
        BY <1>1
    <2>2. ~(q[j + 1].from = t /\ q[j + 1].kind \in Requests \cup {"delete"})
        BY <1>1, <2>1 DEF Turn
    <2> QED
        BY <1>1, <2>2
<1>3. \A kinds : Lacks(q, t, kinds) => Lacks(Tail(q), t, kinds)
    BY <1>1 DEF Lacks
<1>4. OneDeletion(q, t) => OneDeletion(Tail(q), t)
    <2> SUFFICES ASSUME OneDeletion(q, t), NEW i \in 1..Len(Tail(q)), NEW j \in 1..Len(Tail(q)),
                        Tail(q)[i].from = t /\ Tail(q)[i].kind = "delete",
                        Tail(q)[j].from = t /\ Tail(q)[j].kind = "delete"
                 PROVE  i = j
        BY DEF OneDeletion
    <2>1. i + 1 = j + 1
        BY <1>1 DEF OneDeletion
    <2> QED
        BY <1>1, <2>1
<1> QED
    BY <1>2, <1>3, <1>4 DEF Spares

\* ... which was a request, after which nothing of its target follows, or the
\* one deletion.
LEMMA RequestRead ==
    ASSUME NEW q \in Seq(Events), q # <<>>, NEW t, Turn(q, t),
           Head(q).from = t, Head(q).kind \in Requests
    PROVE  Lacks(Tail(q), t, Requests) /\ Lacks(Tail(q), t, {"delete"})
<1>1. /\ Len(q) \in Nat \ {0} /\ Len(Tail(q)) = Len(q) - 1 /\ Head(q) = q[1]
      /\ \A i \in 1..Len(Tail(q)) : i + 1 \in 1..Len(q) /\ 1 < i + 1 /\ Tail(q)[i] = q[i + 1]
    BY HeadTailProperties, EmptySeq
<1>2. \A i \in 1..Len(Tail(q)) :
          ~(Tail(q)[i].from = t /\ Tail(q)[i].kind \in Requests \cup {"delete"})
    BY <1>1 DEF Turn
<1> QED
    BY <1>2 DEF Lacks

LEMMA DeletionRead ==
    ASSUME NEW q \in Seq(Events), q # <<>>, NEW t, OneDeletion(q, t),
           Head(q).from = t, Head(q).kind = "delete"
    PROVE  Lacks(Tail(q), t, {"delete"})
<1>1. /\ Len(q) \in Nat \ {0} /\ Len(Tail(q)) = Len(q) - 1 /\ Head(q) = q[1]
      /\ \A i \in 1..Len(Tail(q)) : i + 1 \in 1..Len(q) /\ 1 # i + 1 /\ Tail(q)[i] = q[i + 1]
    BY HeadTailProperties, EmptySeq
<1>2. \A i \in 1..Len(Tail(q)) : ~(Tail(q)[i].from = t /\ Tail(q)[i].kind = "delete")
    BY <1>1 DEF OneDeletion
<1> QED
    BY <1>2 DEF Lacks

\* An event of a kind a queue lacks does not head it.
LEMMA HeadKind ==
    ASSUME NEW q \in Seq(Events), q # <<>>, NEW t, NEW kinds, Lacks(q, t, kinds), Head(q).from = t
    PROVE  Head(q).kind \notin kinds
<1>1. Head(q) = q[1] /\ 1 \in 1..Len(q)
    BY HeadTailProperties, EmptySeq
<1> QED
    BY <1>1 DEF Lacks

\* Appending an event.
LEMMA Appended ==
    ASSUME NEW q \in Seq(Events), NEW e \in Events
    PROVE  /\ Len(q) \in Nat /\ Len(Append(q, e)) = Len(q) + 1
           /\ \A i \in 1..Len(Append(q, e)) :
                 \/ i \in 1..Len(q) /\ Append(q, e)[i] = q[i]
                 \/ i = Len(q) + 1 /\ Append(q, e)[i] = e
<1>1. Len(q) \in Nat
    BY LenProperties
<1> QED
    BY <1>1, AppendProperties

LEMMA SparesAppend ==
    ASSUME NEW q \in Seq(Events), NEW e \in Events, NEW t,
           e.from = t => e.kind \notin Requests \cup {"delete"}
    PROVE  Spares(q, Append(q, e), t)
<1> DEFINE s == Append(q, e)
<1>1. /\ Len(q) \in Nat /\ Len(s) = Len(q) + 1
      /\ \A i \in 1..Len(s) :
            (i \in 1..Len(q) /\ s[i] = q[i]) \/ (i = Len(q) + 1 /\ s[i] = e)
    BY Appended
<1> HIDE DEF s
<1>2. Turn(q, t) => Turn(s, t)
    BY <1>1 DEF Turn
<1>3. \A kinds \in {Requests, {"delete"}} : Lacks(q, t, kinds) => Lacks(s, t, kinds)
    BY <1>1 DEF Lacks
<1>4. OneDeletion(q, t) => OneDeletion(s, t)
    BY <1>1 DEF OneDeletion
<1> QED
    BY <1>2, <1>3, <1>4 DEF Spares, s

LEMMA RequestAppended ==
    ASSUME NEW q \in Seq(Events), NEW e \in Events, NEW t, Lacks(q, t, Requests), Turn(q, t)
    PROVE  Turn(Append(q, e), t)
<1> DEFINE s == Append(q, e)
<1>1. /\ Len(q) \in Nat /\ Len(s) = Len(q) + 1
      /\ \A i \in 1..Len(s) :
            (i \in 1..Len(q) /\ s[i] = q[i]) \/ (i = Len(q) + 1 /\ s[i] = e)
    BY Appended
<1> HIDE DEF s
<1>2. Turn(s, t)
    BY <1>1 DEF Turn, Lacks
<1> QED
    BY <1>2 DEF s

LEMMA DeletionAppended ==
    ASSUME NEW q \in Seq(Events), NEW t \in Targets, Lacks(q, t, Requests)
    PROVE  /\ Turn(q, t) => Turn(Append(q, Event("delete", t)), t)
           /\ Lacks(Append(q, Event("delete", t)), t, Requests)
           /\ Lacks(q, t, {"delete"}) => OneDeletion(Append(q, Event("delete", t)), t)
<1> DEFINE e == Event("delete", t)
           s == Append(q, e)
<1>1. e \in Events /\ e.from = t /\ e.kind = "delete" /\ e.kind \notin Requests
    BY DEF Event, Events, Requests
<1>2. /\ Len(q) \in Nat /\ Len(s) = Len(q) + 1
      /\ \A i \in 1..Len(s) :
            (i \in 1..Len(q) /\ s[i] = q[i]) \/ (i = Len(q) + 1 /\ s[i] = e)
    BY <1>1, Appended
<1> HIDE DEF s, e
<1>3. Turn(q, t) => Turn(s, t)
    BY <1>1, <1>2 DEF Turn, Lacks
<1>4. Lacks(s, t, Requests)
    BY <1>1, <1>2 DEF Lacks
<1>5. Lacks(q, t, {"delete"}) => OneDeletion(s, t)
    BY <1>1, <1>2 DEF Lacks, OneDeletion
<1> QED
    BY <1>3, <1>4, <1>5 DEF s, e

----------------------------------------------------------------------------
(* Lists arrive whole: steps that leave a target alone.                    *)

Untouched(t) ==
    /\ property'[t] = property[t] /\ got'[t] = got[t] /\ fetch'[t] = fetch[t]
    /\ \A d \in Drags :
          /\ staged[d] => staged'[d] /\ size'[d] = size[d] /\ (Alive(d)' => Alive(d))
          /\ Alive(d)' =>
                /\ t \in DOMAIN transfers'[d] => Alive(d)
                /\ t \in DOMAIN transfers'[d] <=> t \in DOMAIN transfers[d]
                /\ t \in DOMAIN transfers[d] => transfers'[d][t] = transfers[d][t]
          /\ Spares(queue[d], queue'[d], t)
    /\ service \in Drags => service' \in Drags

LEMMA LeftAlone ==
    ASSUME NEW t \in Targets, Serving(t), Untouched(t)
    PROVE  Serving(t)'
<1>1. InOrder(t)'
    BY DEF Serving, InOrder, Untouched, Spares
<1>2. \A d \in Drags : Sends(t, d) => Sends(t, d)'
    BY DEF Sends, Untouched
<1>3. \A d \in Drags : \A k : Sends(t, d) /\ HasSent(t, d, k) => HasSent(t, d, k)'
    BY DEF Sends, HasSent, Untouched
<1>4. Handed(t) => Handed(t)'
    <2> SUFFICES ASSUME Handed(t) PROVE Handed(t)'
        OBVIOUS
    <2>1. PICK d \in Drags :
              \/ property[t] = Data("ark", d, 0) /\ service \in Drags
              \/ property[t] = Data("whole", d, 0) /\ staged[d] /\ size[d] = 0
              \/ property[t] = Data("incr", d, 0) /\ Sends(t, d) /\ HasSent(t, d, 0)
        BY DEF Handed
    <2>2. \/ property'[t] = Data("ark", d, 0) /\ service' \in Drags
          \/ property'[t] = Data("whole", d, 0) /\ staged'[d] /\ size'[d] = 0
          \/ property'[t] = Data("incr", d, 0) /\ Sends(t, d)' /\ HasSent(t, d, 0)'
        BY <1>2, <1>3, <2>1 DEF Untouched
    <2> QED
        BY <2>2 DEF Handed, Data
<1>5. ASSUME NEW d \in Drags, NEW k \in 0..size[d], Reading(t, d, k)
      PROVE  k \in 0..size'[d] /\ Reading(t, d, k)'
    <2>1. Sends(t, d) /\ Sends(t, d)' /\ size'[d] = size[d] /\ got'[t] = got[t] /\ property'[t] = property[t]
        BY <1>2, <1>5 DEF Reading, Sends, Untouched
    <2>2. OneDeletion(queue[d], t)' /\ (Lacks(queue[d], t, {"delete"}) => Lacks(queue[d], t, {"delete"})')
        BY <1>5 DEF Reading, Untouched, Spares
    <2>3. \A n : HasSent(t, d, n) => HasSent(t, d, n)'
        BY <1>3, <2>1
    <2>4. (Alive(d) => t \notin DOMAIN transfers[d]) => (Alive(d)' => t \notin DOMAIN transfers'[d])
        BY <2>1 DEF Untouched, Sends
    <2>5. Parts(got[t], d, k)'
        BY <1>5, <2>1 DEF Reading, Parts, Part, Data
    <2>6. \/ property'[t] = Nothing /\ HasSent(t, d, k)'
          \/ /\ property'[t] = Part(d, k + 1) /\ k < size'[d]
             /\ Lacks(queue[d], t, {"delete"})' /\ HasSent(t, d, k + 1)'
          \/ /\ property'[t] = Data("end", d, 0) /\ k = size'[d]
             /\ Alive(d)' => t \notin DOMAIN transfers'[d]
        BY <1>5, <2>1, <2>2, <2>3, <2>4 DEF Reading
    <2> QED
        BY <1>5, <2>1, <2>2, <2>5, <2>6 DEF Reading, Part, Data, Nothing
<1>6. Whole(t) => Whole(t)'
    <2>1. \A d \in Drags : staged[d] => staged'[d] /\ size'[d] = size[d]
        BY DEF Untouched
    <2>2. got'[t] = got[t]
        BY DEF Untouched
    <2> QED
        BY <2>1, <2>2 DEF Whole, Data
<1>7. fetch'[t] = fetch[t] /\ got'[t] = got[t] /\ (service \in Drags => service' \in Drags)
    BY DEF Untouched
<1>8. fetch'[t] = "parts" => \E d \in Drags : \E k \in 0..size'[d] : Reading(t, d, k)'
    BY <1>5, <1>7 DEF Serving
<1> QED
    BY <1>1, <1>4, <1>6, <1>7, <1>8 DEF Serving

\* A thread reads an event, or ends; in either case its queue gets shorter.
Consumes(d) ==
    /\ \A e \in Drags : e # d => queue'[e] = queue[e]
    /\ queue'[d] \in {Tail(queue[d]), <<>>}
    /\ \A e \in Drags : phase'[e] # phase[e] => phase'[e] \in {"done", "failed", "dropped"} /\ Alive(e)

LEMMA GoesConsumes ==
    ASSUME TypeOK, NEW d \in Drags, NEW kinds, Heads(d, kinds), GoesOn(d)
    PROVE  Consumes(d)
<1>1. CASE Ended(d)
    BY <1>1, TypesSplit DEF Ended, Consumes, Queued, Queues, Course, Heads
<1>2. CASE queue' = Received(queue, d) /\ UNCHANGED <<phase, owner>>
    BY <1>2, TypesSplit DEF Received, Consumes, Queued, Queues, Course
<1> QED
    BY <1>1, <1>2 DEF GoesOn

LEMMA ConsumesSpares ==
    ASSUME TypeOK, NEW d \in Drags, NEW kinds, Heads(d, kinds), Consumes(d), NEW t
    PROVE  \A e \in Drags : Spares(queue[e], queue'[e], t) /\ (Alive(e)' => Alive(e))
<1>1. queue[d] \in Seq(Events) /\ queue[d] # <<>>
    BY TypesSplit DEF Queued, Queues, Heads
<1>2. Spares(queue[d], queue'[d], t)
    BY <1>1, SparesTail, SparesEmpty DEF Consumes
<1>3. \A e \in Drags : e # d => Spares(queue[e], queue'[e], t)
    BY SparesSame DEF Consumes
<1>4. \A e \in Drags : Alive(e)' => Alive(e)
    BY DEF Consumes, Alive
<1> QED
    BY <1>2, <1>3, <1>4

\* Steps that are nothing to any target, as far as transfers go.
Silent ==
    /\ UNCHANGED <<property, got, fetch, transfers>>
    /\ \A d \in Drags :
          /\ staged[d] => staged'[d] /\ size'[d] = size[d] /\ (Alive(d)' => Alive(d))
          /\ Alive(d)' => Alive(d) \/ DOMAIN transfers[d] = {}
    /\ service \in Drags => service' \in Drags
    /\ \A t \in Targets : \A d \in Drags : Spares(queue[d], queue'[d], t)

LEMMA SilentLeavesAlone ==
    ASSUME Silent
    PROVE  \A t \in Targets : Untouched(t)
BY DEF Silent, Untouched

\* An event other than a request or a deletion joins a queue.
LEMMA MessageSpares ==
    ASSUME TypeOK, NEW d \in Drags, NEW e \in Events, e.kind \notin Requests \cup {"delete"},
           queue' = Sent(queue, d, e), NEW t, NEW f \in Drags
    PROVE  Spares(queue[f], queue'[f], t)
<1>1. queue[d] \in Seq(Events) /\ queue \in [Drags -> Seq(Events)]
    BY TypesSplit DEF Queued, Queues
<1>2. queue'[f] = queue[f] \/ (f = d /\ queue'[f] = Append(queue[d], e))
    BY <1>1 DEF Sent
<1>3. Spares(queue[d], Append(queue[d], e), t)
    BY <1>1, SparesAppend
<1> QED
    BY <1>2, <1>3, SparesSame

LEMMA SilentSteps ==
    ASSUME TypeOK, Begun,
           \/ \E d \in Drags : \/ Start(d) \/ LetGo(d) \/ Motion(d) \/ Status(d) \/ Release(d)
                               \/ StagingFails(d) \/ Finished(d) \/ Ignore(d) \/ Timeout(d)
                               \/ \E t \in Targets \cup {None} : Move(d, t)
           \/ \E t \in Targets, d \in Drags : Reply(t, d) \/ Finish(t, d)
    PROVE  Silent
<1>1. ASSUME NEW d \in Drags, Start(d) PROVE Silent
    <2>1. /\ UNCHANGED <<property, got, fetch, transfers, staged, queue>>
          /\ phase[d] = "idle" /\ phase' = [phase EXCEPT ![d] = "over"]
          /\ \A e \in Drags : e # d => size'[e] = size[e]
          /\ service' \in {d, service}
        BY <1>1, TypesSplit DEF Start, theirs, Course
    <2>2. ~staged[d] /\ DOMAIN transfers[d] = {}
        BY <2>1, TypesSplit DEF Begun, Course
    <2>3. \A t \in Targets : \A e \in Drags : Spares(queue[e], queue'[e], t)
        BY <2>1, SparesSame
    <2> QED
        BY <2>1, <2>2, <2>3, TypesSplit DEF Silent, Alive, Course
<1>2. ASSUME NEW d \in Drags, Heads(d, {"motion", "yes", "no", "release", "list", "finished"}), Consumes(d),
             UNCHANGED <<property, got, fetch, transfers, staged, size, service>>
      PROVE  Silent
    BY <1>2, ConsumesSpares DEF Silent
<1>3. ASSUME NEW d \in Drags, Motion(d) \/ Status(d) PROVE Silent
    <2>1. /\ Heads(d, {"motion", "yes", "no", "release", "list", "finished"})
          /\ queue' = Received(queue, d)
          /\ UNCHANGED <<phase, property, got, fetch, transfers, staged, size, service>>
        BY <1>3 DEF Motion, Status, Heads, shared, theirs
    <2>2. Consumes(d)
        BY <2>1, TypesSplit DEF Consumes, Received, Queued, Queues
    <2> QED
        BY <1>2, <2>1, <2>2
<1>4. ASSUME NEW d \in Drags, Release(d) PROVE Silent
    <2>1. /\ Heads(d, {"motion", "yes", "no", "release", "list", "finished"})
          /\ UNCHANGED <<property, got, fetch, transfers, staged, size, service>>
        BY <1>4 DEF Release, Heads
    <2>2. CASE target[d] # None /\ accepted[d]
        <3>1. phase' = [phase EXCEPT ![d] = "dropped"] /\ queue' = Received(queue, d) /\ Alive(d)
            BY <1>4, <2>2 DEF Release, Alive
        <3>2. Consumes(d)
            BY <3>1, TypesSplit DEF Consumes, Received, Queued, Queues, Course
        <3> QED
            BY <1>2, <2>1, <3>2
    <2>3. CASE ~(target[d] # None /\ accepted[d])
        <3>1. Ended(d) /\ Alive(d)
            BY <1>4, <2>3 DEF Release, Alive
        <3>2. Consumes(d)
            BY <3>1, TypesSplit DEF Consumes, Ended, Queued, Queues, Course
        <3> QED
            BY <1>2, <2>1, <3>2
    <2> QED
        BY <2>2, <2>3
<1>5. ASSUME NEW d \in Drags, StagingFails(d) PROVE Silent
    <2>1. /\ Heads(d, {"motion", "yes", "no", "release", "list", "finished"}) /\ Failed(d)
          /\ UNCHANGED <<property, got, fetch, transfers, staged, size, service>>
        BY <1>5 DEF StagingFails, Heads, theirs
    <2>2. Consumes(d)
        BY <2>1, TypesSplit DEF Consumes, Failed, Queued, Queues, Course, Heads
    <2> QED
        BY <1>2, <2>1, <2>2
<1>6. ASSUME NEW d \in Drags, Finished(d) \/ Ignore(d) PROVE Silent
    <2>1. /\ Heads(d, {"motion", "yes", "no", "release", "list", "finished"}) /\ GoesOn(d)
          /\ UNCHANGED <<property, got, fetch, transfers, staged, size, service>>
        BY <1>6 DEF Finished, Ignore, Heads, theirs
    <2>2. Consumes(d)
        BY <2>1, GoesConsumes
    <2> QED
        BY <1>2, <2>1, <2>2
<1>7. ASSUME NEW d \in Drags, Timeout(d) PROVE Silent
    <2>1. /\ Ended(d) /\ phase[d] = "dropped"
          /\ UNCHANGED <<property, got, fetch, transfers, staged, size, service>>
        BY <1>7 DEF Timeout, theirs
    <2>2. \A e \in Drags : /\ queue'[e] \in {queue[e], <<>>}
                           /\ Alive(e)' => Alive(e)
        BY <2>1, TypesSplit DEF Ended, Queued, Queues, Course, Alive
    <2>3. \A t \in Targets : \A e \in Drags : Spares(queue[e], queue'[e], t)
        BY <2>2, SparesSame, SparesEmpty
    <2> QED
        BY <2>1, <2>2, <2>3 DEF Silent
<1>8. ASSUME NEW d \in Drags, NEW e \in Events, e.kind \notin Requests \cup {"delete"},
             queue' = Sent(queue, d, e),
             UNCHANGED <<phase, property, got, fetch, transfers, staged, size, service>>
      PROVE  Silent
    <2>1. \A t \in Targets : \A f \in Drags : Spares(queue[f], queue'[f], t)
        BY <1>8, MessageSpares
    <2> QED
        BY <1>8, <2>1 DEF Silent, Alive
<1>9. ASSUME NEW d \in Drags, LetGo(d) \/ \E t \in Targets \cup {None} : Move(d, t) PROVE Silent
    <2>1. PICK e \in {Event("release", None), Event("motion", None)} :
              /\ queue' = Sent(queue, d, e)
              /\ UNCHANGED <<phase, property, got, fetch, transfers, staged, size, service>>
        BY <1>9 DEF LetGo, Move, shared, theirs
    <2>2. e \in Events /\ e.kind \notin Requests \cup {"delete"}
        BY DEF Event, Events, Requests
    <2> QED
        BY <1>8, <2>1, <2>2
<1>10. ASSUME NEW t \in Targets, NEW d \in Drags, Reply(t, d) \/ Finish(t, d) PROVE Silent
    <2>1. PICK e \in {Event("yes", t), Event("no", t), Event("finished", t)} :
              /\ queue' = Sent(queue, d, e)
              /\ UNCHANGED <<phase, property, got, fetch, transfers, staged, size, service>>
        BY <1>10 DEF Reply, Finish, shared, theirs
    <2>2. e \in Events /\ e.kind \notin Requests \cup {"delete"}
        BY DEF Event, Events, Requests
    <2> QED
        BY <1>8, <2>1, <2>2
<1> QED
    BY <1>1, <1>3, <1>4, <1>5, <1>6, <1>7, <1>9, <1>10

----------------------------------------------------------------------------
(* Lists arrive whole: which drags are under way.                          *)

\* Every step keeps the queues of windows that are gone empty.
LEMMA RestingKept ==
    TypeOK /\ Resting /\ [Next]_vars => Resting'
<1> SUFFICES ASSUME TypeOK, Resting, [Next]_vars
             PROVE  Resting'
    OBVIOUS
<1> USE TypesSplit
<1>1. ASSUME NEW d \in Drags, Ended(d) \/ Failed(d) PROVE Resting'
    BY <1>1 DEF Ended, Failed, Resting, Alive, Queued, Queues, Course
<1>2. ASSUME NEW d \in Drags, Alive(d), queue' = Received(queue, d),
             phase' = phase \/ phase' = [phase EXCEPT ![d] = "dropped"]
      PROVE  Resting'
    BY <1>2 DEF Received, Resting, Alive, Queued, Queues, Course
<1>3. ASSUME NEW d \in Drags, NEW e, queue' = Sent(queue, d, e), phase' = phase PROVE Resting'
    BY <1>3 DEF Sent, Resting, Alive, Queued, Queues
<1>4. ASSUME NEW t \in Targets, Delete(t), phase' = phase PROVE Resting'
    BY <1>4 DEF Delete, Resting, Alive
<1>5. ASSUME NEW d \in Drags, NEW kinds, Heads(d, kinds), GoesOn(d) PROVE Resting'
    BY <1>1, <1>2, <1>5 DEF GoesOn, Heads
<1>6. ASSUME NEW d \in Drags, Thread(d) PROVE Resting'
    <2>1. CASE Motion(d) \/ Status(d)
        BY <1>2, <2>1 DEF Motion, Status, Heads
    <2>2. CASE Release(d)
        BY <1>1, <1>2, <2>2 DEF Release, Heads
    <2>3. CASE StagingFails(d)
        BY <1>1, <2>3 DEF StagingFails
    <2>4. CASE ServeList(d) \/ ServeOffer(d) \/ Advance(d) \/ Finished(d)
        BY <1>5, <2>4 DEF ServeList, ServeOffer, Advance, Finished
    <2>5. CASE Ignore(d)
        BY <1>5, <2>5 DEF Ignore
    <2> QED
        BY <1>6, <2>1, <2>2, <2>3, <2>4, <2>5 DEF Thread
<1>7. ASSUME NEW d \in Drags,
             \/ Start(d) \/ LetGo(d) \/ Timeout(d) \/ \E t \in Targets \cup {None} : Move(d, t)
      PROVE  Resting'
    <2>1. CASE Start(d)
        BY <2>1 DEF Start, Resting, Alive, Course
    <2>2. CASE LetGo(d)
        BY <1>3, <2>2 DEF LetGo
    <2>3. CASE Timeout(d)
        BY <1>1, <2>3 DEF Timeout
    <2>4. CASE \E t \in Targets \cup {None} : Move(d, t)
        BY <1>3, <2>4 DEF Move
    <2> QED
        BY <1>7, <2>1, <2>2, <2>3, <2>4
<1>8. ASSUME NEW t \in Targets, Other(t) PROVE Resting'
    <2>1. ASSUME NEW d \in Drags, Reply(t, d) \/ Finish(t, d) PROVE Resting'
        BY <1>3, <2>1 DEF Reply, Finish
    <2>2. ASSUME NEW kind \in Requests, Ask(t, kind) PROVE Resting'
        <3>1. CASE owner = None
            BY <2>2, <3>1 DEF Ask, Resting, Alive
        <3>2. CASE owner # None
            BY <1>3, <2>2, <3>2 DEF Ask, Desk
        <3> QED
            BY <3>1, <3>2
    <2>3. CASE Receive(t) \/ Take(t)
        BY <1>4, <2>3 DEF Receive, Take
    <2>4. CASE Extract(t)
        BY <2>4 DEF Extract, talk, Resting, Alive
    <2> QED
        BY <1>8, <2>1, <2>2, <2>3, <2>4 DEF Other, Requests
<1>9. CASE UNCHANGED vars
    BY <1>9 DEF vars, talk, Resting, Alive
<1> QED
    BY <1>6, <1>7, <1>8, <1>9 DEF Next

\* A second drag under way at the same time is marked.
LEMMA OneAliveKept ==
    TypeOK /\ OneAlive /\ [Next]_vars /\ Calm' => OneAlive'
<1> SUFFICES ASSUME TypeOK, OneAlive, [Next]_vars, Calm'
             PROVE  OneAlive'
    OBVIOUS
<1>1. ASSUME NEW d \in Drags, Start(d) PROVE OneAlive'
    <2>1. \A f \in Drags : ~Alive(f)
        BY <1>1 DEF Start, Calm
    <2> QED
        BY <1>1, <2>1, TypesSplit DEF Start, OneAlive, Alive, Course
<1>2. ASSUME \A d \in Drags : Alive(d)' => Alive(d) PROVE OneAlive'
    BY <1>2 DEF OneAlive
<1>3. ASSUME NEW d \in Drags, Ended(d) \/ Failed(d) PROVE OneAlive'
    BY <1>2, <1>3, TypesSplit DEF Ended, Failed, Alive, Course
<1>4. CASE phase' = phase
    BY <1>2, <1>4 DEF Alive
<1>5. ASSUME NEW d \in Drags, Thread(d) PROVE OneAlive'
    <2>1. CASE Motion(d) \/ Status(d)
        BY <1>4, <2>1 DEF Motion, Status
    <2>2. CASE Release(d)
        <3>1. CASE target[d] # None /\ accepted[d]
            BY <1>2, <2>2, <3>1, TypesSplit DEF Release, Alive, Course
        <3> QED
            BY <1>3, <2>2, <3>1 DEF Release
    <2>3. CASE StagingFails(d)
        BY <1>3, <2>3 DEF StagingFails
    <2>4. CASE GoesOn(d)
        BY <1>3, <1>4, <2>4 DEF GoesOn
    <2> QED
        BY <1>5, <2>1, <2>2, <2>3, <2>4
        DEF Thread, ServeList, ServeOffer, Advance, Finished, Ignore
<1>6. ASSUME NEW d \in Drags, LetGo(d) \/ \E t \in Targets \cup {None} : Move(d, t) PROVE OneAlive'
    BY <1>4, <1>6 DEF LetGo, Move
<1>7. ASSUME NEW d \in Drags, Timeout(d) PROVE OneAlive'
    BY <1>3, <1>7 DEF Timeout
<1>8. ASSUME NEW t \in Targets, Other(t) PROVE OneAlive'
    BY <1>4, <1>8 DEF Other, Reply, Finish, Ask, Receive, Take, Extract, talk
<1>9. CASE UNCHANGED vars
    BY <1>4, <1>9 DEF vars, talk
<1> QED
    BY <1>1, <1>5, <1>6, <1>7, <1>8, <1>9 DEF Next

----------------------------------------------------------------------------
(* Lists arrive whole: steps of a transfer.                                *)

\* While a target is neither served nor sent parts, what its property holds,
\* and who would send it a part, does not matter.
LEMMA NotServed ==
    ASSUME NEW t \in Targets, Serving(t), fetch[t] \notin {"served", "parts"},
           fetch'[t] = fetch[t], got'[t] = got[t], service' = service,
           \A d \in Drags : /\ staged[d] => staged'[d] /\ size'[d] = size[d]
                            /\ Spares(queue[d], queue'[d], t)
    PROVE  Serving(t)'
<1>1. InOrder(t)'
    BY DEF Serving, InOrder, Spares
<1>2. Whole(t) => Whole(t)'
    BY DEF Whole, Data
<1> QED
    BY <1>1, <1>2 DEF Serving

\* A request is read while its target waits for an answer; nothing more of
\* that target is to be read then.
LEMMA RequestServed ==
    ASSUME TypeOK, Resting, OneAlive, NEW d \in Drags, NEW kinds, kinds \subseteq Requests,
           Heads(d, kinds), Consumes(d), NEW t \in Targets, t = From(d), Serving(t)
    PROVE  /\ fetch[t] = "asked" /\ got[t] = <<>>
           /\ \A e \in Drags : /\ Turn(queue'[e], t)
                               /\ Lacks(queue'[e], t, Requests)
                               /\ Lacks(queue'[e], t, {"delete"})
<1>1. /\ queue[d] \in Seq(Events) /\ queue[d] # <<>> /\ Alive(d)
      /\ Head(queue[d]).kind \in Requests /\ Head(queue[d]).from = t
    BY TypesSplit DEF Queued, Queues, Heads, From
<1>2. fetch[t] = "asked"
    BY <1>1, HeadKind DEF Serving, InOrder
<1>3. got[t] = <<>>
    BY <1>2 DEF Serving
<1>4. Turn(queue[d], t)
    BY DEF Serving, InOrder
<1>5. Lacks(Tail(queue[d]), t, Requests) /\ Lacks(Tail(queue[d]), t, {"delete"})
    BY <1>1, <1>4, RequestRead
<1>6. \A q, kind : q = <<>> => Lacks(q, t, kind)
    <2>1. 1..Len(<<>>) = {}
        OBVIOUS
    <2> QED
        BY <2>1 DEF Lacks
<1>7. \A e \in Drags : e # d => queue'[e] = <<>>
    BY <1>1 DEF OneAlive, Resting, Consumes
<1>8. \A e \in Drags : Turn(queue'[e], t)
    BY ConsumesSpares DEF Spares, Serving, InOrder
<1> QED
    BY <1>2, <1>3, <1>5, <1>6, <1>7, <1>8 DEF Consumes

\* serve_selection, for the list.
LEMMA ListServed ==
    ASSUME TypeOK, Resting, OneAlive, \A u \in Targets : Serving(u),
           NEW d \in Drags, ServeList(d), NEW u \in Targets
    PROVE  Serving(u)'
<1> DEFINE t == From(d)
<1>1. Heads(d, {"list"}) /\ GoesOn(d) /\ Alive(d)
    BY DEF ServeList, Heads
<1>2. t \in Targets
    BY <1>1, Reads
<1>3. Consumes(d)
    BY <1>1, GoesConsumes
<1>4. \A v : \A e \in Drags : Spares(queue[e], queue'[e], v) /\ (Alive(e)' => Alive(e))
    BY <1>1, <1>3, ConsumesSpares
<1>5. /\ \A e \in Drags : (staged[e] => staged'[e]) /\ size'[e] = size[e]
      /\ staged'[d] /\ service' = service /\ got' = got
    BY TypesSplit DEF ServeList, Course
<1>6. /\ \A e \in Drags : e # d => transfers'[e] = transfers[e]
      /\ size[d] = 0 => transfers' = transfers
      /\ size[d] # 0 => transfers'[d] = [v \in DOMAIN transfers[d] \cup {t} |->
                                            IF v = t THEN 0 ELSE transfers[d][v]]
    BY TypesSplit DEF ServeList, Course, BeginTransfer
<1>7. /\ fetch' = [fetch EXCEPT ![t] = "served"]
      /\ property' = [property EXCEPT ![t] = Data(IF size[d] = 0 THEN "whole" ELSE "incr", d, 0)]
      /\ DOMAIN fetch = Targets /\ DOMAIN property = Targets
    BY TypesSplit DEF ServeList, Others
<1> HIDE DEF t
<1>8. CASE u # t
    <2>1. property'[u] = property[u] /\ fetch'[u] = fetch[u] /\ got'[u] = got[u]
        BY <1>5, <1>7, <1>8
    <2>2. \A e \in Drags : /\ u \in DOMAIN transfers'[e] <=> u \in DOMAIN transfers[e]
                           /\ u \in DOMAIN transfers[e] => transfers'[e][u] = transfers[e][u]
        BY <1>6, <1>8
    <2>3. Untouched(u)
        BY <1>4, <1>5, <2>1, <2>2 DEF Untouched
    <2> QED
        BY <2>3, LeftAlone
<1>9. CASE u = t
    <2>1. /\ got[u] = <<>>
          /\ \A e \in Drags : /\ Turn(queue'[e], u)
                              /\ Lacks(queue'[e], u, Requests)
                              /\ Lacks(queue'[e], u, {"delete"})
        BY <1>1, <1>3, <1>9, RequestServed DEF Requests, t
    <2>2. fetch'[u] = "served" /\ got'[u] = <<>>
        BY <1>5, <1>7, <1>9, <2>1
    <2>3. InOrder(u)'
        BY <2>1 DEF InOrder
    <2>4. Handed(u)'
        <3>1. CASE size[d] = 0
            <4>1. property'[u] = Data("whole", d, 0) /\ staged'[d] /\ size'[d] = 0
                BY <1>5, <1>7, <1>9, <3>1
            <4> QED
                BY <4>1 DEF Handed, Data
        <3>2. CASE size[d] # 0
            <4>1. property'[u] = Data("incr", d, 0)
                BY <1>7, <1>9, <3>2
            <4>2. size'[d] > 0
                <5>1. size[d] \in Nat
                    <6>1. Sizes \cup {0} \subseteq Nat
                        BY DragAssumption
                    <6> QED
                        BY <6>1, TypesSplit DEF Course
                <5> QED
                    BY <1>5, <3>2, <5>1
            <4>3. \A e \in Drags : e # d => ~Alive(e)'
                BY <1>1, <1>4 DEF OneAlive
            <4>4. Sends(u, d)'
                BY <1>5, <4>2, <4>3 DEF Sends
            <4>5. HasSent(u, d, 0)'
                BY <1>6, <1>9, <3>2 DEF HasSent
            <4> QED
                BY <4>1, <4>4, <4>5 DEF Handed, Data
        <3> QED
            BY <3>1, <3>2
    <2> QED
        BY <2>2, <2>3, <2>4 DEF Serving
<1> QED
    BY <1>8, <1>9

\* serve_selection, for the extraction service.
LEMMA OfferServed ==
    ASSUME TypeOK, Resting, Offered, OneAlive, \A u \in Targets : Serving(u),
           NEW d \in Drags, ServeOffer(d), NEW u \in Targets
    PROVE  Serving(u)'
<1> DEFINE t == From(d)
<1>1. Heads(d, {"ark"}) /\ GoesOn(d) /\ Alive(d)
    BY DEF ServeOffer, Heads
<1>2. t \in Targets
    BY <1>1, Reads
<1>3. Consumes(d)
    BY <1>1, GoesConsumes
<1>4. \A v : \A e \in Drags : Spares(queue[e], queue'[e], v) /\ (Alive(e)' => Alive(e))
    BY <1>1, <1>3, ConsumesSpares
<1>5. UNCHANGED <<staged, size, service, got, transfers>>
    BY DEF ServeOffer
<1>6. /\ fetch' = [fetch EXCEPT ![t] = IF Offer THEN "served" ELSE "refused"]
      /\ property' = IF Offer THEN [property EXCEPT ![t] = Data("ark", d, 0)] ELSE property
      /\ DOMAIN fetch = Targets /\ DOMAIN property = Targets
    BY TypesSplit DEF ServeOffer, Others
<1> HIDE DEF t
<1>7. CASE u # t
    <2>1. property'[u] = property[u] /\ fetch'[u] = fetch[u]
        BY <1>6, <1>7
    <2>2. Untouched(u)
        BY <1>4, <1>5, <2>1 DEF Untouched
    <2> QED
        BY <2>2, LeftAlone
<1>8. CASE u = t
    <2>1. /\ got[u] = <<>>
          /\ \A e \in Drags : /\ Turn(queue'[e], u)
                              /\ Lacks(queue'[e], u, Requests)
                              /\ Lacks(queue'[e], u, {"delete"})
        BY <1>1, <1>3, <1>8, RequestServed DEF Requests, t
    <2>2. InOrder(u)' /\ got'[u] = <<>>
        BY <1>5, <2>1 DEF InOrder
    <2>3. CASE Offer
        <3>1. fetch'[u] = "served" /\ property'[u] = Data("ark", d, 0)
            BY <1>6, <1>8, <2>3
        <3>2. service' \in Drags
            BY <1>1, <1>5, <2>3 DEF Offered
        <3>3. Handed(u)'
            BY <3>1, <3>2 DEF Handed, Data
        <3> QED
            BY <2>2, <3>1, <3>3 DEF Serving
    <2>4. CASE ~Offer
        BY <1>6, <1>8, <2>2, <2>4 DEF Serving
    <2> QED
        BY <2>3, <2>4
<1> QED
    BY <1>7, <1>8

\* Nothing else is handed out, and a part is not the end.
LEMMA DataDiffer ==
    \A d, e, k, n : /\ Data("part", d, k) # Nothing /\ Data("end", d, k) # Nothing
                    /\ Data("part", d, k).kind = "part" /\ Data("end", d, k).kind = "end"
                    /\ Data("part", d, k) # Data("end", e, n)
BY DEF Data, Nothing

\* advance_incremental_transfer.
LEMMA PartSent ==
    ASSUME TypeOK, OneAlive, \A u \in Targets : Serving(u),
           NEW d \in Drags, Advance(d), NEW u \in Targets
    PROVE  Serving(u)'
<1> DEFINE t == From(d)
           More == t \in DOMAIN transfers[d] /\ transfers[d][t] < size[d]
           Last == t \in DOMAIN transfers[d] /\ ~(transfers[d][t] < size[d])
<1>1. Heads(d, {"delete"}) /\ GoesOn(d) /\ Alive(d)
    BY DEF Advance, Heads
<1>2. t \in Targets
    BY <1>1, Reads
<1>3. Consumes(d)
    BY <1>1, GoesConsumes
<1>4. \A v : \A e \in Drags : Spares(queue[e], queue'[e], v) /\ (Alive(e)' => Alive(e))
    BY <1>1, <1>3, ConsumesSpares
<1>5. UNCHANGED <<staged, size, service, got, fetch>>
    BY DEF Advance
<1>6. t \notin DOMAIN transfers[d] => UNCHANGED <<transfers, property>>
    BY DEF Advance
<1>7. More => /\ property' = [property EXCEPT ![t] = Data("part", d, transfers[d][t] + 1)]
              /\ transfers' = [transfers EXCEPT ![d][t] = @ + 1]
    BY DEF Advance
<1>8. Last => /\ property' = [property EXCEPT ![t] = Data("end", d, 0)]
              /\ transfers' = [transfers EXCEPT ![d] = Restrict(@, DOMAIN @ \ {t})]
    BY DEF Advance
<1>9. DOMAIN property = Targets /\ DOMAIN transfers = Drags /\ size \in [Drags -> Nat]
    <2>1. Sizes \cup {0} \subseteq Nat
        BY DragAssumption
    <2> QED
        BY <2>1, TypesSplit DEF Others, Course
<1>10. /\ queue[d] \in Seq(Events) /\ queue[d] # <<>>
       /\ Head(queue[d]).kind = "delete" /\ Head(queue[d]).from = t
    BY <1>1, TypesSplit DEF Queued, Queues, Heads, From
<1>11. More \/ Last \/ t \notin DOMAIN transfers[d]
    OBVIOUS
<1> HIDE DEF t, More, Last
\* Another target, and another transfer.
<1>12. ASSUME u # t \/ t \notin DOMAIN transfers[d] PROVE Serving(u)'
    <2>1. property'[u] = property[u]
        BY <1>6, <1>7, <1>8, <1>9, <1>11, <1>12
    <2>2. \A e \in Drags : /\ u \in DOMAIN transfers'[e] <=> u \in DOMAIN transfers[e]
                           /\ u \in DOMAIN transfers[e] => transfers'[e][u] = transfers[e][u]
        <3>1. CASE t \notin DOMAIN transfers[d]
            BY <1>6, <3>1
        <3>2. CASE u # t /\ More
            BY <1>7, <1>9, <3>2
        <3>3. CASE u # t /\ Last
            BY <1>8, <1>9, <3>3 DEF Restrict
        <3> QED
            BY <1>11, <1>12, <3>1, <3>2, <3>3
    <2>3. Untouched(u)
        BY <1>4, <1>5, <2>1, <2>2 DEF Untouched
    <2> QED
        BY <2>3, LeftAlone
\* The target's own transfer.
<1>13. ASSUME u = t, t \in DOMAIN transfers[d] PROVE Serving(u)'
    <2>1. CASE fetch[u] \notin {"served", "parts"}
        BY <1>4, <1>5, <2>1, NotServed
    <2>2. fetch[u] # "served"
        BY <1>10, <1>13, HeadKind DEF Serving, InOrder
    <2>3. CASE fetch[u] = "parts"
        <3>1. PICK s \in Drags : \E k \in 0..size[s] : Reading(u, s, k)
            BY <2>3 DEF Serving
        <3>2. PICK k \in 0..size[s] : Reading(u, s, k)
            BY <3>1
        <3>3. s = d
            BY <1>1, <1>13, <3>2 DEF Reading, Sends
        <3>4. Sends(u, d) /\ Sends(u, d)'
            <4>1. \A e \in Drags : e # d => ~Alive(e)'
                BY <1>1, <1>4 DEF OneAlive
            <4> QED
                BY <1>5, <3>2, <3>3, <4>1 DEF Reading, Sends
        <3>5. /\ k \in Nat /\ k <= size[d] /\ Parts(got[u], d, k) /\ OneDeletion(queue[d], u)
              /\ HasSent(u, d, k)
            <4>1. ~Lacks(queue[d], u, {"delete"})
                BY <1>10, <1>13, HeadKind
            <4> QED
                BY <1>1, <1>13, <3>2, <3>3, <4>1 DEF Reading
        <3>6. transfers[d][t] = k
            BY <1>1, <1>13, <3>5 DEF HasSent
        <3>7. Lacks(queue'[d], u, {"delete"}) /\ OneDeletion(queue'[d], u)
            <4>1. Lacks(Tail(queue[d]), u, {"delete"})
                BY <1>10, <1>13, <3>5, DeletionRead
            <4>2. Lacks(<<>>, u, {"delete"})
                <5>1. 1..Len(<<>>) = {}
                    OBVIOUS
                <5> QED
                    BY <5>1 DEF Lacks
            <4>3. OneDeletion(queue'[d], u)
                BY <1>4, <3>5 DEF Spares
            <4> QED
                BY <1>3, <4>1, <4>2, <4>3 DEF Consumes
        <3>8. Parts(got'[u], d, k)
            BY <1>5, <3>5
        <3>9. Reading(u, d, k)'
            <4>1. CASE More
                <5>1. k < size[d]
                    BY <3>6, <4>1 DEF More
                <5>2. property'[u] = Part(d, k + 1)
                    BY <1>7, <1>9, <1>13, <3>6, <4>1 DEF Part
                <5>3. t \in DOMAIN transfers'[d] /\ transfers'[d][t] = k + 1
                    <6>1. transfers'[d] = [transfers[d] EXCEPT ![t] = transfers[d][t] + 1]
                        BY <1>7, <1>9, <4>1
                    <6> QED
                        BY <1>13, <3>6, <6>1
                <5>4. HasSent(u, d, k + 1)'
                    BY <1>13, <5>3 DEF HasSent
                <5> QED
                    BY <1>5, <3>4, <3>5, <3>7, <3>8, <5>1, <5>2, <5>4
                    DEF Reading, Part, Data, Parts
            <4>2. CASE Last
                <5>1. k = size[d]
                    BY <1>9, <3>5, <3>6, <4>2 DEF Last
                <5>2. property'[u] = Data("end", d, 0)
                    BY <1>8, <1>9, <1>13, <4>2
                <5>3. t \notin DOMAIN transfers'[d]
                    BY <1>8, <1>9, <4>2 DEF Restrict
                <5> QED
                    BY <1>5, <1>13, <3>4, <3>5, <3>7, <3>8, <5>1, <5>2, <5>3
                    DEF Reading, Part, Data, Parts
            <4> QED
                BY <1>11, <1>13, <4>1, <4>2
        <3>10. InOrder(u)'
            BY <1>4, <1>5 DEF Serving, InOrder, Spares
        <3>11. k \in 0..size'[d] /\ fetch'[u] = "parts"
            BY <1>5, <2>3, <3>3
        <3> QED
            BY <3>9, <3>10, <3>11 DEF Serving
    <2> QED
        BY <2>1, <2>2, <2>3
<1> QED
    BY <1>12, <1>13

\* A target asks: it has no request in any queue yet.
LEMMA Asked ==
    ASSUME TypeOK, \A u \in Targets : Serving(u),
           NEW t \in Targets, NEW kind \in Requests, Ask(t, kind), NEW u \in Targets
    PROVE  Serving(u)'
<1>1. /\ UNCHANGED <<phase, staged, size, service, transfers, property>>
      /\ fetch[t] \notin {"asked", "served"}
      /\ fetch' = [fetch EXCEPT ![t] = IF owner = None THEN "refused" ELSE "asked"]
      /\ got' = [got EXCEPT ![t] = <<>>]
      /\ DOMAIN fetch = Targets /\ DOMAIN got = Targets
    BY TypesSplit DEF Ask, shared, Others
<1>2. Event(kind, t) \in Events /\ Event(kind, t).from = t /\ queue \in [Drags -> Seq(Events)]
    BY TypesSplit DEF Event, Events, Requests, Queued, Queues
<1>3. \A e \in Drags : \/ queue'[e] = queue[e]
                       \/ owner # None /\ queue'[e] = Append(queue[e], Event(kind, t))
    <2>1. CASE owner = None
        BY <2>1 DEF Ask
    <2>2. CASE owner # None
        BY <1>2, <2>2 DEF Ask, Sent
    <2> QED
        BY <2>1, <2>2
<1>4. CASE u # t
    <2>1. \A e \in Drags : Spares(queue[e], queue'[e], u)
        BY <1>2, <1>3, <1>4, SparesSame, SparesAppend
    <2>2. property'[u] = property[u] /\ fetch'[u] = fetch[u] /\ got'[u] = got[u]
        BY <1>1, <1>4
    <2>3. Untouched(u)
        BY <1>1, <2>1, <2>2 DEF Untouched, Alive
    <2> QED
        BY <2>3, LeftAlone
<1>5. CASE u = t
    <2>1. \A e \in Drags : Turn(queue[e], u) /\ Lacks(queue[e], u, Requests)
        BY <1>1, <1>5 DEF Serving, InOrder
    <2>2. \A e \in Drags : Turn(queue'[e], u)
        BY <1>2, <1>3, <2>1, RequestAppended
    <2>3. fetch'[u] # "asked" => \A e \in Drags : queue'[e] = queue[e]
        BY <1>1, <1>3, <1>5
    <2>4. fetch'[u] \in {"asked", "refused"} /\ got'[u] = <<>>
        BY <1>1, <1>5
    <2>5. InOrder(u)'
        BY <2>1, <2>2, <2>3, <2>4 DEF InOrder
    <2> QED
        BY <2>4, <2>5 DEF Serving
<1> QED
    BY <1>4, <1>5

\* A target reads its property and deletes it: the drags that watch are told.
LEMMA Deleted ==
    ASSUME TypeOK, \A u \in Targets : Serving(u), NEW t \in Targets, Delete(t),
           fetch[t] # "asked"
    PROVE  /\ \A u \in Targets : u # t => \A e \in Drags : Spares(queue[e], queue'[e], u)
           /\ \A e \in Drags : /\ Turn(queue'[e], t) /\ Lacks(queue'[e], t, Requests)
                               /\ Lacks(queue[e], t, {"delete"}) => OneDeletion(queue'[e], t)
           /\ property' = [property EXCEPT ![t] = Nothing]
<1>1. Event("delete", t) \in Events /\ Event("delete", t).from = t /\ queue \in [Drags -> Seq(Events)]
    BY TypesSplit DEF Event, Events, Queued, Queues
<1>2. \A e \in Drags : queue'[e] \in {queue[e], Append(queue[e], Event("delete", t))}
    BY <1>1 DEF Delete
<1>3. \A u \in Targets : u # t => \A e \in Drags : Spares(queue[e], queue'[e], u)
    BY <1>1, <1>2, SparesSame, SparesAppend
<1>4. \A e \in Drags : Turn(queue[e], t) /\ Lacks(queue[e], t, Requests)
    BY DEF Serving, InOrder
<1>5. \A q : Lacks(q, t, {"delete"}) => OneDeletion(q, t)
    BY DEF Lacks, OneDeletion
<1>6. \A e \in Drags : /\ Turn(queue'[e], t) /\ Lacks(queue'[e], t, Requests)
                       /\ Lacks(queue[e], t, {"delete"}) => OneDeletion(queue'[e], t)
    BY <1>1, <1>2, <1>4, <1>5, DeletionAppended
<1> QED
    BY <1>3, <1>6 DEF Delete

\* A target receives what it asked for, or that it comes in parts.
LEMMA Delivered ==
    ASSUME TypeOK, \A u \in Targets : Serving(u), NEW t \in Targets, Receive(t), NEW u \in Targets
    PROVE  Serving(u)'
<1>1. /\ UNCHANGED <<phase, staged, size, service, transfers>>
      /\ fetch[t] = "served" /\ Delete(t) /\ DOMAIN property = Targets
      /\ \A v \in Targets : v # t => fetch'[v] = fetch[v] /\ got'[v] = got[v]
    BY TypesSplit DEF Receive, shared, Others
<1>2. /\ \A v \in Targets : v # t => \A e \in Drags : Spares(queue[e], queue'[e], v)
      /\ \A e \in Drags : /\ Turn(queue'[e], t) /\ Lacks(queue'[e], t, Requests)
                          /\ Lacks(queue[e], t, {"delete"}) => OneDeletion(queue'[e], t)
      /\ property' = [property EXCEPT ![t] = Nothing]
    BY <1>1, Deleted
<1>3. CASE u # t
    <2>1. property'[u] = property[u]
        BY <1>1, <1>2, <1>3
    <2>2. Untouched(u)
        BY <1>1, <1>2, <1>3, <2>1 DEF Untouched, Alive
    <2> QED
        BY <2>2, LeftAlone
<1>4. CASE u = t
    <2>1. property'[u] = Nothing /\ got[u] = <<>>
        BY <1>1, <1>2, <1>4 DEF Serving
    <2>2. \A e \in Drags : OneDeletion(queue'[e], u)
        BY <1>1, <1>2, <1>4 DEF Serving, InOrder
    <2>3. PICK d \in Drags :
              \/ property[u] = Data("ark", d, 0) /\ service \in Drags
              \/ property[u] = Data("whole", d, 0) /\ staged[d] /\ size[d] = 0
              \/ property[u] = Data("incr", d, 0) /\ Sends(u, d) /\ HasSent(u, d, 0)
        BY <1>1, <1>4 DEF Serving, Handed
    <2>4. fetch'[u] # "served" => InOrder(u)'
        BY <1>2, <1>4 DEF InOrder
    <2>5. CASE property[u] = Data("ark", d, 0) /\ service \in Drags
        <3>1. fetch'[u] = "extract"
            BY <1>4, <2>5, TypesSplit DEF Receive, Data, Others
        <3> QED
            BY <1>1, <2>4, <2>5, <3>1 DEF Serving
    <2>6. CASE property[u] = Data("whole", d, 0) /\ staged[d] /\ size[d] = 0
        <3>1. fetch'[u] = "got" /\ got'[u] = <<property[u]>>
            BY <1>4, <2>6, TypesSplit DEF Receive, Data, Others
        <3>2. Whole(u)'
            BY <1>1, <2>6, <3>1 DEF Whole, Data
        <3> QED
            BY <2>4, <3>1, <3>2 DEF Serving
    <2>7. CASE property[u] = Data("incr", d, 0) /\ Sends(u, d) /\ HasSent(u, d, 0)
        <3>1. fetch'[u] = "parts" /\ got'[u] = <<>>
            BY <1>4, <2>1, <2>7, TypesSplit DEF Receive, Data, Others
        <3>2. Sends(u, d)' /\ HasSent(u, d, 0)' /\ size'[d] = size[d]
            BY <1>1, <2>7 DEF Sends, HasSent, Alive
        <3>3. size[d] \in Nat
            <4>1. Sizes \cup {0} \subseteq Nat
                BY DragAssumption
            <4> QED
                BY <4>1, TypesSplit DEF Course
        <3>4. Parts(<<>>, d, 0)
            BY EmptySeq DEF Parts
        <3>5. Reading(u, d, 0)' /\ 0 \in 0..size'[d]
            BY <2>1, <2>2, <3>1, <3>2, <3>3, <3>4 DEF Reading, Parts, Part, Data, Nothing
        <3> QED
            BY <2>4, <3>1, <3>5 DEF Serving
    <2> QED
        BY <2>3, <2>5, <2>6, <2>7
<1> QED
    BY <1>3, <1>4

\* A target takes the next part, or the end: what it has got is whole then.
LEMMA Taken ==
    ASSUME TypeOK, \A u \in Targets : Serving(u), NEW t \in Targets, Take(t), NEW u \in Targets
    PROVE  Serving(u)'
<1>1. /\ UNCHANGED <<phase, staged, size, service, transfers>>
      /\ fetch[t] = "parts" /\ property[t] # Nothing /\ Delete(t)
      /\ DOMAIN property = Targets /\ DOMAIN got = Targets /\ DOMAIN fetch = Targets
    BY TypesSplit DEF Take, shared, Others
<1>2. /\ \A v \in Targets : v # t => \A e \in Drags : Spares(queue[e], queue'[e], v)
      /\ \A e \in Drags : /\ Turn(queue'[e], t) /\ Lacks(queue'[e], t, Requests)
                          /\ Lacks(queue[e], t, {"delete"}) => OneDeletion(queue'[e], t)
      /\ property' = [property EXCEPT ![t] = Nothing]
    BY <1>1, Deleted
<1>3. CASE u # t
    <2>1. property'[u] = property[u] /\ fetch'[u] = fetch[u] /\ got'[u] = got[u]
        BY <1>1, <1>2, <1>3 DEF Take
    <2>2. Untouched(u)
        BY <1>1, <1>2, <1>3, <2>1 DEF Untouched, Alive
    <2> QED
        BY <2>2, LeftAlone
<1>4. CASE u = t
    <2>1. PICK d \in Drags : \E k \in 0..size[d] : Reading(u, d, k)
        BY <1>1, <1>4 DEF Serving
    <2>2. PICK k \in 0..size[d] : Reading(u, d, k)
        BY <2>1
    <2>3. size[d] \in Nat /\ k \in Nat
        <3>1. Sizes \cup {0} \subseteq Nat
            BY DragAssumption
        <3> QED
            BY <3>1, TypesSplit DEF Course
    <2>4. Sends(u, d) /\ k <= size[d] /\ Parts(got[u], d, k)
        BY <2>2 DEF Reading
    <2>5. Sends(u, d)'
        BY <1>1, <2>4 DEF Sends, Alive
    <2>6. property'[u] = Nothing
        BY <1>1, <1>2, <1>4
    <2>7. CASE property[u] = Part(d, k + 1) /\ k < size[d]
               /\ Lacks(queue[d], u, {"delete"}) /\ HasSent(u, d, k + 1)
        <3>1. fetch'[u] = "parts" /\ got'[u] = Append(got[u], Part(d, k + 1))
            BY <1>1, <1>4, <2>7, DataDiffer DEF Take, Part
        <3>2. Parts(got'[u], d, k + 1)
            <4> DEFINE P == [kind : {"part"}, drag : Drags, part : Nat]
            <4>1. Part(d, k + 1) \in P
                BY <2>3 DEF Part, Data
            <4>2. got[u] \in Seq(P) /\ Len(got[u]) = k /\ \A i \in 1..k : got[u][i] = Part(d, i)
                BY <2>4 DEF Parts
            <4> HIDE DEF P
            <4>3. /\ got'[u] \in Seq(P) /\ Len(got'[u]) = k + 1
                  /\ \A i \in 1..k : got'[u][i] = got[u][i]
                  /\ got'[u][k + 1] = Part(d, k + 1)
                BY <2>3, <3>1, <4>1, <4>2, AppendProperties
            <4>4. \A i \in 1..(k + 1) : got'[u][i] = Part(d, i)
                BY <2>3, <4>2, <4>3
            <4> QED
                BY <4>3, <4>4 DEF Parts, P
        <3>3. HasSent(u, d, k + 1)'
            BY <1>1, <2>7 DEF HasSent, Alive
        <3>4. OneDeletion(queue'[d], u)
            BY <1>2, <1>4, <2>7
        <3>5. k + 1 \in 0..size'[d] /\ k + 1 <= size'[d]
            BY <1>1, <2>3, <2>7
        <3>6. Reading(u, d, k + 1)'
            BY <2>5, <2>6, <3>2, <3>3, <3>4, <3>5 DEF Reading, Parts, Part, Data, Nothing
        <3>7. InOrder(u)'
            BY <1>2, <1>4, <3>1 DEF InOrder
        <3> QED
            BY <3>1, <3>5, <3>6, <3>7 DEF Serving
    <2>8. CASE property[u] = Data("end", d, 0) /\ k = size[d]
        <3>1. fetch'[u] = "got" /\ got'[u] = got[u]
            BY <1>1, <1>4, <2>8, DataDiffer DEF Take
        <3>2. got[u] = [i \in 1..size[d] |-> Data("part", d, i)]
            <4>1. /\ got[u] \in Seq([kind : {"part"}, drag : Drags, part : Nat])
                  /\ Len(got[u]) = k /\ \A i \in 1..k : got[u][i] = Part(d, i)
                BY <2>4 DEF Parts
            <4>2. got[u] \in [1..k -> [kind : {"part"}, drag : Drags, part : Nat]]
                BY <4>1, LenProperties
            <4> QED
                BY <2>8, <4>1, <4>2 DEF Part
        <3>3. Whole(u)'
            <4>1. staged'[d] /\ size'[d] # 0
                BY <1>1, <2>3, <2>4 DEF Sends
            <4>2. got'[u] = [i \in 1..size'[d] |-> Data("part", d, i)]
                BY <1>1, <3>1, <3>2
            <4> QED
                BY <4>1, <4>2 DEF Whole, Data
        <3>4. InOrder(u)'
            BY <1>2, <1>4, <3>1 DEF InOrder
        <3> QED
            BY <3>1, <3>3, <3>4 DEF Serving
    <2> QED
        BY <1>1, <1>4, <2>2, <2>7, <2>8 DEF Reading
<1> QED
    BY <1>3, <1>4

\* The extraction service writes the files.
LEMMA Extracted ==
    ASSUME TypeOK, \A u \in Targets : Serving(u), NEW t \in Targets, Extract(t), NEW u \in Targets
    PROVE  Serving(u)'
<1>1. /\ UNCHANGED <<phase, queue, staged, size, service, transfers, property>>
      /\ fetch[t] = "extract" /\ fetch' = [fetch EXCEPT ![t] = "got"]
      /\ got' = [got EXCEPT ![t] = <<Data("files", service, 0)>>]
      /\ DOMAIN fetch = Targets /\ DOMAIN got = Targets
    BY TypesSplit DEF Extract, talk, shared, Others
<1>2. CASE u # t
    <2>1. fetch'[u] = fetch[u] /\ got'[u] = got[u]
        BY <1>1, <1>2
    <2>2. Untouched(u)
        BY <1>1, <2>1, SparesSame DEF Untouched, Alive
    <2> QED
        BY <2>2, LeftAlone
<1>3. CASE u = t
    <2>1. service \in Drags /\ fetch'[u] = "got" /\ got'[u] = <<Data("files", service, 0)>>
        BY <1>1, <1>3 DEF Serving
    <2>2. Whole(u)'
        BY <2>1 DEF Whole, Data
    <2>3. InOrder(u)'
        BY <1>1, <1>3, <2>1 DEF Serving, InOrder
    <2> QED
        BY <2>1, <2>2, <2>3 DEF Serving
<1> QED
    BY <1>2, <1>3

\* Every step keeps the course of every transfer, as long as drags do not
\* overlap.
LEMMA ServingKept ==
    ASSUME IInv, [Next]_vars, Calm, NEW u \in Targets
    PROVE  Serving(u)'
<1> USE DEF IInv
<1>1. ASSUME Silent PROVE Serving(u)'
    BY <1>1, SilentLeavesAlone, LeftAlone
<1>2. ASSUME NEW d \in Drags, Thread(d) PROVE Serving(u)'
    <2>1. CASE Motion(d) \/ Status(d) \/ Release(d) \/ StagingFails(d) \/ Finished(d) \/ Ignore(d)
        BY <1>1, <2>1, SilentSteps
    <2>2. CASE ServeList(d)
        BY <2>2, ListServed
    <2>3. CASE ServeOffer(d)
        BY <2>3, OfferServed
    <2>4. CASE Advance(d)
        BY <2>4, PartSent
    <2> QED
        BY <1>2, <2>1, <2>2, <2>3, <2>4 DEF Thread
<1>3. ASSUME NEW d \in Drags,
             \/ Start(d) \/ LetGo(d) \/ Timeout(d) \/ \E t \in Targets \cup {None} : Move(d, t)
      PROVE  Serving(u)'
    BY <1>1, <1>3, SilentSteps
<1>4. ASSUME NEW t \in Targets, Other(t) PROVE Serving(u)'
    <2>1. CASE \E d \in Drags : Reply(t, d) \/ Finish(t, d)
        BY <1>1, <2>1, SilentSteps
    <2>2. CASE \E kind \in Requests : Ask(t, kind)
        BY <2>2, Asked
    <2>3. CASE Receive(t)
        BY <2>3, Delivered
    <2>4. CASE Take(t)
        BY <2>4, Taken
    <2>5. CASE Extract(t)
        BY <2>5, Extracted
    <2> QED
        BY <1>4, <2>1, <2>2, <2>3, <2>4, <2>5 DEF Other, Requests
<1>5. CASE UNCHANGED vars
    <2>1. Untouched(u)
        BY <1>5, SparesSame DEF vars, talk, shared, theirs, Untouched, Alive
    <2> QED
        BY <2>1, LeftAlone
<1> QED
    BY <1>2, <1>3, <1>4, <1>5 DEF Next
----------------------------------------------------------------------------
(* The theorems.                                                           *)

\* The first state satisfies the invariant.
LEMMA InvInit == Init => IInv
<1> SUFFICES ASSUME Init PROVE IInv
    OBVIOUS
<1>1. Queued
    BY DEF Init, Queued, Queues
<1>2. Course
    BY DEF Init, Course
<1>3. Desk
    BY DragAssumption DEF Init, Desk
<1>4. Others /\ Marking
    BY DEF Init, Others, Marking
<1>5. TypeOK
    BY <1>1, <1>2, <1>3, <1>4 DEF Queued, Course, Desk, Others, Marking, Queues, TypeOK
<1>6. NoneLeftHovering /\ AgreedHere /\ NotYet /\ NoneCutOff /\ DropWanted
    BY DEF Init, NoneLeftHovering, AgreedHere, NotYet, NoneCutOff, DropWanted
<1>7. Begun /\ Offered /\ Resting /\ OneAlive
    BY DEF Init, Begun, Offered, Resting, OneAlive, Alive
<1>8. ASSUME NEW t \in Targets PROVE Serving(t)
    <2>1. \A q, kinds : q = <<>> => Lacks(q, t, kinds) /\ Turn(q, t)
        <3>1. 1..Len(<<>>) = {}
            OBVIOUS
        <3> QED
            BY <3>1 DEF Lacks, Turn
    <2>2. InOrder(t)
        BY <2>1 DEF Init, InOrder
    <2> QED
        BY <2>2 DEF Init, Serving
<1> QED
    BY <1>5, <1>6, <1>7, <1>8 DEF IInv

\* The invariant holds in every reachable state.
THEOREM Invariance == Spec => []IInv
<1>1. IInv /\ [Next]_vars => IInv'
    <2> SUFFICES ASSUME IInv, [Next]_vars PROVE IInv'
        OBVIOUS
    <2>1. /\ TypeOK' /\ NoneLeftHovering' /\ AgreedHere' /\ NotYet' /\ NoneCutOff' /\ DropWanted'
          /\ Begun' /\ Offered' /\ Resting'
        BY TypesKept, HoverKept, AgreedKept, NotYetKept, WantedKept, CutOffKept,
           BegunKept, OfferedKept, RestingKept DEF IInv
    <2>2. ASSUME Calm' PROVE OneAlive' /\ \A t \in Targets : Serving(t)'
        BY <2>2, CalmBefore, OneAliveKept, ServingKept DEF IInv
    <2> QED
        BY <2>1, <2>2 DEF IInv
<1> QED
    BY <1>1, InvInit, PTL DEF Spec

\* Every variable has its type; events are those of the protocol, and come from
\* whom the protocol has them come.
THEOREM TypeCorrect == Spec => []TypeOK
<1>1. IInv => TypeOK
    BY DEF IInv
<1> QED
    BY <1>1, Invariance, PTL

\* run and finish_drag: a drag is over one target at a time, and when it
\* has ended, unless its connection failed, no target thinks it still hovers.
THEOREM NoTargetLeft == Spec => []NoneLeftHovering
<1>1. IInv => NoneLeftHovering
    BY DEF IInv
<1> QED
    BY <1>1, Invariance, PTL

\* finish_drag: a drag that was dropped and did not time out goes on until its
\* target has finished and every transfer under way is complete.
THEOREM NoTransferCut == Spec => []NoneCutOff
<1>1. IInv => NoneCutOff
    BY DEF IInv
<1> QED
    BY <1>1, Invariance, PTL

\* finish_drag: a drop goes only to a target that agreed since it was entered,
\* unless a late answer of an earlier target was taken for its own.
THEOREM DropsWanted == Spec => []DropWanted
<1>1. IInv => DropWanted
    BY DEF IInv
<1> QED
    BY <1>1, Invariance, PTL

\* serve_selection and advance_incremental_transfer: the list a target has got
\* is whole, its parts in order, and its files are written, unless two drags
\* have overlapped.
THEOREM ListsArriveWhole == Spec => []GetsWhole
<1>1. IInv => GetsWhole
    <2> SUFFICES ASSUME IInv, NEW t \in Targets, fetch[t] = "got", Calm
                 PROVE  Whole(t)
        BY DEF GetsWhole, Whole, Calm
    <2> QED
        BY DEF IInv, Serving
<1> QED
    BY <1>1, Invariance, PTL
=============================================================================
