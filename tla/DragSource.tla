----------------------------- MODULE DragSource -----------------------------
(***************************************************************************)
(* Drags out of the window: the XDND conversation of drag_out.rs and the   *)
(* extraction service of dnd_extract.rs.  Each drag is a thread with an X  *)
(* connection and a window of its own, which reads its events in order.    *)
(* The targets are windows of other programs; they answer when they like.  *)
(* All drags share one pointer, one selection, one extraction service, and *)
(* with a target the one property on it through which data are handed.     *)
(*                                                                         *)
(* A message to a target changes what the target knows at once; that it    *)
(* may be read late shows in the answers, which may come at any time.      *)
(***************************************************************************)
EXTENDS Naturals, Sequences, FiniteSets, Functions

CONSTANTS
    Drags,       \* 1..n, in the order in which the user makes them
    Targets,
    None,        \* no drag, no target
    Sizes,       \* of a list in parts; 0: it fits into one property
    Offer,       \* whether the session has the extraction service
    MaxMoves,    \* bound: movements of the pointer
    MaxAsks      \* bound: requests of the targets

Marks == {"drop", "timeout", "misled", "overlap"}    \* what ghosts tell of a drag

ASSUME DragAssumption ==
    /\ Drags \subseteq Nat \ {0} /\ Sizes \subseteq Nat /\ Offer \in BOOLEAN
    /\ None \notin Drags \cup Targets /\ MaxMoves \in Nat /\ MaxAsks \in Nat
    /\ Targets \cap Marks = {}

VARIABLES
    phase,      \* of each drag: "idle", "over", "dropped", "done", "failed"
    queue,      \* events of each drag's window, oldest first
    target,     \* the target each drag believes to be over, or None
    accepted,   \* what the last XdndStatus said
    size,       \* of each drag's list
    staged,     \* whether its files have been written (LazyStaging)
    transfers,  \* per drag: offsets of its incremental transfers, by target
    watched,    \* per drag: the targets whose properties it is told of
    finished,   \* per drag: target_finished
    pointer,    \* the target under the pointer, or None
    owner,      \* the drag that owns the selection, or None
    service,    \* the drag whose entries the extraction service has
    hover,      \* per target: the drag it was last entered by, and not left
    owes,       \* per target: the drags it has a position of to answer
    drops,      \* per target: the drags dropped on it and not finished
    fetch,      \* per target: "none", "asked", "served", "parts", "extract",
                \* "got" or "refused"
    property,   \* per target: what its property holds
    got,        \* per target: the parts it has read
    moves, asks,
    ghosts      \* per drag: which of these happened: "drop" (it was sent),
                \* "timeout", "misled" (a status of another target was taken
                \* for the current one's), "overlap" (a second drag ran);
                \* and the targets that said yes since they were entered

talk   == <<phase, queue, target, accepted, size, staged, transfers, watched, finished>>
shared == <<pointer, owner, service>>
theirs == <<hover, owes, drops, fetch, property, got>>
vars   == <<talk, shared, theirs, moves, asks, ghosts>>

Alive(d) == phase[d] \in {"over", "dropped"}
Event(kind, from) == [kind |-> kind, from |-> from]
Nothing == [kind |-> "empty", drag |-> None, part |-> 0]
Data(kind, d, part) == [kind |-> kind, drag |-> d, part |-> part]

\* An event for drag d; one for a window that is gone is lost.
Sent(q, d, e) == IF Alive(d) THEN [q EXCEPT ![d] = Append(@, e)] ELSE q
Received(q, d) == [q EXCEPT ![d] = Tail(@)]
Heads(d, kinds) == Alive(d) /\ queue[d] # <<>> /\ Head(queue[d]).kind \in kinds
From(d) == Head(queue[d]).from
Marked(d, mark) == [ghosts EXCEPT ![d] = @ \cup {mark}]

----------------------------------------------------------------------------
(* The user.                                                               *)

\* drag_selected and the beginning of run: a window, the selection, the grab
\* of the pointer, which an earlier drag must have given up.  Without it the
\* thread ends before it has told anybody.
Start(d) ==
    /\ phase[d] = "idle" /\ \A e \in Drags : e < d => phase[e] \notin {"idle", "over"}
    /\ \E s \in Sizes : size' = [size EXCEPT ![d] = s]
    /\ phase' = [phase EXCEPT ![d] = "over"]
    /\ owner' = d /\ service' = IF Offer THEN d ELSE service
    /\ ghosts' = [e \in Drags |-> IF phase[e] = "dropped" \/ (e = d /\ \E f \in Drags : Alive(f))
                                  THEN ghosts[e] \cup {"overlap"} ELSE ghosts[e]]
    /\ UNCHANGED <<queue, target, accepted, staged, transfers, watched, finished,
                   pointer, theirs, moves, asks>>

\* The pointer moves, over another window or within one.
Move(d, t) ==
    /\ phase[d] = "over" /\ moves < MaxMoves
    /\ Event("release", None) \notin Range(queue[d])
    /\ pointer' = t /\ moves' = moves + 1
    /\ queue' = Sent(queue, d, Event("motion", None))
    /\ UNCHANGED <<phase, target, accepted, size, staged, transfers, watched, finished,
                   owner, service, theirs, asks, ghosts>>

LetGo(d) ==
    /\ phase[d] = "over" /\ Event("release", None) \notin Range(queue[d])
    /\ queue' = Sent(queue, d, Event("release", None))
    /\ UNCHANGED <<phase, target, accepted, size, staged, transfers, watched, finished,
                   shared, theirs, moves, asks, ghosts>>

----------------------------------------------------------------------------
(* The thread of a drag: run and finish_drag, one action per event.        *)

\* The end of run: the selection is given up, whoever owns it by now, and
\* the window goes.
Ended(d) ==
    /\ phase' = [phase EXCEPT ![d] = "done"] /\ owner' = None
    /\ queue' = [queue EXCEPT ![d] = <<>>]

\* An error ends the thread; the server takes back what was this window's.
Failed(d) ==
    /\ phase' = [phase EXCEPT ![d] = "failed"] /\ owner' = IF owner = d THEN None ELSE owner
    /\ queue' = [queue EXCEPT ![d] = <<>>]

\* Mutant: the end of a drag does not wait for transfers under way.
GoesOnHasty(d) ==
    IF phase[d] = "dropped" /\ finished'[d]
    THEN Ended(d)
    ELSE queue' = Received(queue, d) /\ UNCHANGED <<phase, owner>>

\* After each event of finish_drag: whether this was all.
GoesOn(d) ==
    IF phase[d] = "dropped" /\ finished'[d] /\ DOMAIN transfers'[d] = {}
    THEN Ended(d)
    ELSE queue' = Received(queue, d) /\ UNCHANGED <<phase, owner>>

\* Mutant: a target that is left is not told.
EnterQuietly(d, next) ==
    /\ hover' = [t \in Targets |-> IF t = next THEN d ELSE hover[t]]
    /\ accepted' = [accepted EXCEPT ![d] = FALSE]
\* Mutant: the answer of the target left behind goes on counting.
EnterAccepted(d, next) ==
    /\ hover' = [t \in Targets |-> IF t = next THEN d
                                   ELSE IF t = target[d] THEN None ELSE hover[t]]
    /\ accepted' = accepted

\* XdndLeave for the old target, XdndEnter for the new one.
Enter(d, next) ==
    /\ hover' = [t \in Targets |-> IF t = next THEN d
                                   ELSE IF t = target[d] THEN None ELSE hover[t]]
    /\ accepted' = [accepted EXCEPT ![d] = FALSE]

\* MotionNotify: find_target asks where the pointer is now.
Motion(d) ==
    /\ phase[d] = "over" /\ Heads(d, {"motion"})
    /\ queue' = Received(queue, d)
    /\ target' = [target EXCEPT ![d] = pointer]
    /\ IF pointer = target[d] THEN UNCHANGED <<hover, accepted, ghosts>>
       ELSE /\ Enter(d, pointer)
            /\ ghosts' = [ghosts EXCEPT ![d] = @ \ Targets]
    /\ owes' = IF pointer = None THEN owes ELSE [owes EXCEPT ![pointer] = @ \cup {d}]
    /\ UNCHANGED <<phase, size, staged, transfers, watched, finished, shared,
                   drops, fetch, property, got, moves, asks>>

\* XdndStatus: the sender is not looked at.
Status(d) ==
    /\ phase[d] = "over" /\ Heads(d, {"yes", "no"})
    /\ accepted' = [accepted EXCEPT ![d] = Head(queue[d]).kind = "yes"]
    /\ ghosts' = IF From(d) # target[d] THEN Marked(d, "misled")
                 ELSE IF accepted'[d] THEN Marked(d, From(d)) ELSE ghosts
    /\ queue' = Received(queue, d)
    /\ UNCHANGED <<phase, target, size, staged, transfers, watched, finished, shared,
                   theirs, moves, asks>>

\* ButtonRelease: finish_drag up to its loop.
Release(d) ==
    /\ phase[d] = "over" /\ Heads(d, {"release"})
    /\ hover' = [t \in Targets |-> IF t = target[d] THEN None ELSE hover[t]]
    /\ IF target[d] # None /\ accepted[d]
       THEN /\ phase' = [phase EXCEPT ![d] = "dropped"]
            /\ queue' = Received(queue, d)
            /\ drops' = [drops EXCEPT ![target[d]] = @ \cup {d}]
            /\ ghosts' = Marked(d, "drop") /\ owner' = owner
       ELSE Ended(d) /\ UNCHANGED <<drops, ghosts>>
    /\ UNCHANGED <<target, accepted, size, staged, transfers, watched, finished,
                   pointer, service, owes, fetch, property, got, moves, asks>>

\* Mutant: an older transfer through the same property goes on.
BeginTransferBeside(d, t) ==
    [transfers EXCEPT ![d] = IF t \in DOMAIN @ THEN @ ELSE [u \in DOMAIN @ \cup {t} |-> IF u = t THEN 0 ELSE @[u]]]
\* A new incremental transfer; replace_transfer forgets an older one through
\* the same property.
BeginTransfer(d, t) ==
    [transfers EXCEPT ![d] = [u \in DOMAIN @ \cup {t} |-> IF u = t THEN 0 ELSE @[u]]]

\* SelectionRequest for the list: the files are written when it is first
\* asked for.
ServeList(d) ==
    /\ Heads(d, {"list"})
    /\ LET t == From(d) IN
       /\ staged' = [staged EXCEPT ![d] = TRUE]
       /\ transfers' = IF size[d] = 0 THEN transfers ELSE BeginTransfer(d, t)
       /\ watched' = IF size[d] = 0 THEN watched ELSE [watched EXCEPT ![d] = @ \cup {t}]
       /\ property' = [property EXCEPT ![t] = Data(IF size[d] = 0 THEN "whole" ELSE "incr", d, 0)]
       /\ fetch' = [fetch EXCEPT ![t] = "served"]
    /\ finished' = finished /\ GoesOn(d)
    /\ UNCHANGED <<target, accepted, size, pointer, service, hover, owes, drops, got,
                   moves, asks, ghosts>>

\* Or they cannot be written.
StagingFails(d) ==
    /\ Heads(d, {"list"}) /\ ~staged[d]
    /\ Failed(d)
    /\ UNCHANGED <<target, accepted, size, staged, transfers, watched, finished,
                   pointer, service, theirs, moves, asks, ghosts>>

\* SelectionRequest for the extraction service.
ServeOffer(d) ==
    /\ Heads(d, {"ark"})
    /\ fetch' = [fetch EXCEPT ![From(d)] = IF Offer THEN "served" ELSE "refused"]
    /\ property' = IF Offer THEN [property EXCEPT ![From(d)] = Data("ark", d, 0)] ELSE property
    /\ UNCHANGED <<transfers, finished>> /\ GoesOn(d)
    /\ UNCHANGED <<target, accepted, size, staged, watched, pointer, service,
                   hover, owes, drops, got, moves, asks, ghosts>>

\* PropertyNotify: advance_incremental_transfer.
Advance(d) ==
    /\ Heads(d, {"delete"})
    /\ LET t == From(d) IN
       IF t \notin DOMAIN transfers[d] THEN UNCHANGED <<transfers, property>>
       ELSE IF transfers[d][t] < size[d]
       THEN /\ property' = [property EXCEPT ![t] = Data("part", d, transfers[d][t] + 1)]
            /\ transfers' = [transfers EXCEPT ![d][t] = @ + 1]
       ELSE /\ property' = [property EXCEPT ![t] = Data("end", d, 0)]
            /\ transfers' = [transfers EXCEPT ![d] = Restrict(@, DOMAIN @ \ {t})]
    /\ finished' = finished /\ GoesOn(d)
    /\ UNCHANGED <<target, accepted, size, staged, watched, pointer, service,
                   hover, owes, drops, fetch, got, moves, asks, ghosts>>

\* XdndFinished, after the drop.
Finished(d) ==
    /\ phase[d] = "dropped" /\ Heads(d, {"finished"})
    /\ finished' = [finished EXCEPT ![d] = TRUE]
    /\ UNCHANGED transfers /\ GoesOn(d)
    /\ UNCHANGED <<target, accepted, size, staged, watched, pointer, service, theirs,
                   moves, asks, ghosts>>

\* Events that the loop before, or after, the drop does not know.
Ignore(d) ==
    /\ \/ phase[d] = "over" /\ Heads(d, {"finished"})
       \/ phase[d] = "dropped" /\ Heads(d, {"motion", "yes", "no", "release"})
    /\ UNCHANGED <<finished, transfers>> /\ GoesOn(d)
    /\ UNCHANGED <<target, accepted, size, staged, watched, pointer, service, theirs,
                   moves, asks, ghosts>>

\* The deadline of drop_timeout.
Timeout(d) ==
    /\ phase[d] = "dropped"
    /\ Ended(d) /\ ghosts' = Marked(d, "timeout")
    /\ UNCHANGED <<target, accepted, size, staged, transfers, watched, finished,
                   pointer, service, theirs, moves, asks>>

Thread(d) ==
    \/ Motion(d) \/ Status(d) \/ Release(d) \/ ServeList(d) \/ StagingFails(d)
    \/ ServeOffer(d) \/ Advance(d) \/ Finished(d) \/ Ignore(d)

----------------------------------------------------------------------------
(* The targets.                                                            *)

\* XdndStatus, to any position that was not answered yet.
Reply(t, d) ==
    /\ d \in owes[t]
    /\ owes' = [owes EXCEPT ![t] = @ \ {d}]
    /\ \E answer \in {"yes", "no"} : queue' = Sent(queue, d, Event(answer, t))
    /\ UNCHANGED <<phase, target, accepted, size, staged, transfers, watched, finished,
                   shared, hover, drops, fetch, property, got, moves, asks, ghosts>>

\* A request to whoever owns the selection, while the pointer is over the
\* target or after a drop; also in place of a transfer it has given up.
Ask(t, kind) ==
    /\ asks < MaxAsks /\ asks' = asks + 1
    /\ hover[t] # None \/ drops[t] # {}
    /\ fetch[t] \in {"none", "parts", "got", "refused"}
    /\ got' = [got EXCEPT ![t] = <<>>]
    /\ fetch' = [fetch EXCEPT ![t] = IF owner = None THEN "refused" ELSE "asked"]
    /\ queue' = IF owner = None THEN queue ELSE Sent(queue, owner, Event(kind, t))
    /\ UNCHANGED <<phase, target, accepted, size, staged, transfers, watched, finished,
                   shared, hover, owes, drops, property, moves, ghosts>>

\* A property is read and deleted, which the drags that watch it are told.
Delete(t) ==
    /\ property' = [property EXCEPT ![t] = Nothing]
    /\ queue' = [d \in Drags |-> IF Alive(d) /\ t \in watched[d]
                                 THEN Append(queue[d], Event("delete", t)) ELSE queue[d]]

\* SelectionNotify has come.
Receive(t) ==
    /\ fetch[t] = "served"
    /\ LET p == property[t] IN
       /\ fetch' = [fetch EXCEPT ![t] = CASE p.kind = "incr" -> "parts"
                                          [] p.kind = "ark" -> "extract"
                                          [] OTHER -> "got"]
       /\ got' = IF p.kind \in {"incr", "ark"} THEN got ELSE [got EXCEPT ![t] = <<p>>]
    /\ Delete(t)
    /\ UNCHANGED <<phase, target, accepted, size, staged, transfers, watched, finished,
                   shared, hover, owes, drops, moves, asks, ghosts>>

\* The next part, or the empty one that ends the transfer.
Take(t) ==
    /\ fetch[t] = "parts" /\ property[t] # Nothing
    /\ IF property[t].kind = "end"
       THEN fetch' = [fetch EXCEPT ![t] = "got"] /\ got' = got
       ELSE got' = [got EXCEPT ![t] = Append(@, property[t])] /\ fetch' = fetch
    /\ Delete(t)
    /\ UNCHANGED <<phase, target, accepted, size, staged, transfers, watched, finished,
                   shared, hover, owes, drops, moves, asks, ghosts>>

\* extract_selected_files_to: the service writes the entries it has now.
Extract(t) ==
    /\ fetch[t] = "extract"
    /\ fetch' = [fetch EXCEPT ![t] = "got"]
    /\ got' = [got EXCEPT ![t] = <<Data("files", service, 0)>>]
    /\ UNCHANGED <<talk, shared, hover, owes, drops, property, moves, asks, ghosts>>

\* XdndFinished, before a transfer has ended too.
Finish(t, d) ==
    /\ d \in drops[t]
    /\ drops' = [drops EXCEPT ![t] = @ \ {d}]
    /\ queue' = Sent(queue, d, Event("finished", t))
    /\ UNCHANGED <<phase, target, accepted, size, staged, transfers, watched, finished,
                   shared, hover, owes, fetch, property, got, moves, asks, ghosts>>

Other(t) ==
    \/ \E d \in Drags : Reply(t, d) \/ Finish(t, d)
    \/ \E kind \in {"list", "ark"} : Ask(t, kind)
    \/ Receive(t) \/ Take(t) \/ Extract(t)

----------------------------------------------------------------------------
Init ==
    /\ phase = [d \in Drags |-> "idle"] /\ queue = [d \in Drags |-> <<>>]
    /\ target = [d \in Drags |-> None] /\ accepted = [d \in Drags |-> FALSE]
    /\ size = [d \in Drags |-> 0] /\ staged = [d \in Drags |-> FALSE]
    /\ transfers = [d \in Drags |-> [t \in {} |-> 0]]
    /\ watched = [d \in Drags |-> {}] /\ finished = [d \in Drags |-> FALSE]
    /\ pointer = None /\ owner = None /\ service = None
    /\ hover = [t \in Targets |-> None] /\ owes = [t \in Targets |-> {}]
    /\ drops = [t \in Targets |-> {}] /\ fetch = [t \in Targets |-> "none"]
    /\ property = [t \in Targets |-> Nothing] /\ got = [t \in Targets |-> <<>>]
    /\ moves = 0 /\ asks = 0 /\ ghosts = [d \in Drags |-> {}]

Next ==
    \/ \E d \in Drags :
          \/ Start(d) \/ LetGo(d) \/ Thread(d) \/ Timeout(d)
          \/ \E t \in Targets \cup {None} : Move(d, t)
    \/ \E t \in Targets : Other(t)

Spec == Init /\ [][Next]_vars

----------------------------------------------------------------------------
\* The types; not among the properties that are checked.
Events ==
    [kind : {"motion", "release"}, from : {None}]
        \cup [kind : {"yes", "no", "list", "ark", "delete", "finished"}, from : Targets]

TypeOK ==
    /\ phase \in [Drags -> {"idle", "over", "dropped", "done", "failed"}]
    /\ queue \in [Drags -> Seq(Events)]
    /\ target \in [Drags -> Targets \cup {None}] /\ accepted \in [Drags -> BOOLEAN]
    /\ size \in [Drags -> Sizes \cup {0}] /\ staged \in [Drags -> BOOLEAN]
    /\ watched \in [Drags -> SUBSET Targets] /\ DOMAIN transfers = Drags
    /\ \A d \in Drags : DOMAIN transfers[d] \subseteq watched[d]
    /\ finished \in [Drags -> BOOLEAN] /\ pointer \in Targets \cup {None}
    /\ owner \in Drags \cup {None} /\ service \in Drags \cup {None}
    /\ hover \in [Targets -> Drags \cup {None}] /\ owes \in [Targets -> SUBSET Drags]
    /\ drops \in [Targets -> SUBSET Drags] /\ moves \in 0..MaxMoves /\ asks \in 0..MaxAsks
    /\ fetch \in [Targets -> {"none", "asked", "served", "parts", "extract", "got", "refused"}]
    /\ DOMAIN property = Targets /\ DOMAIN got = Targets
    /\ ghosts \in [Drags -> SUBSET (Targets \cup Marks)]

\* A list that a target has got is whole: the parts of one drag's list, each
\* once and in order, even when the target has given up an earlier transfer
\* through the same property; and the files it names have been written.  Two
\* drags that overlap may both hand out parts through one property.
GetsWhole ==
    \A t \in Targets : fetch[t] = "got" =>
        \/ \E d \in Drags :
              /\ staged[d]
              /\ got[t] = IF size[d] = 0 THEN <<Data("whole", d, 0)>>
                          ELSE [i \in 1..size[d] |-> Data("part", d, i)]
        \/ \E d \in Drags : got[t] = <<Data("files", d, 0)>>
        \/ \E d \in Drags : "overlap" \in ghosts[d]

\* A drag that was dropped goes on until its target has finished and the
\* transfers under way, to other windows too, are complete.
NoneCutOff ==
    \A d \in Drags :
        phase[d] = "done" /\ "drop" \in ghosts[d] /\ "timeout" \notin ghosts[d]
            => finished[d] /\ DOMAIN transfers[d] = {}

\* A drop goes only to a target that agreed since it was last entered, unless
\* the late answer of an earlier target was taken for its own.
DropWanted ==
    \A d \in Drags : "drop" \in ghosts[d] /\ "misled" \notin ghosts[d] => target[d] \in ghosts[d]

\* A drag is over one target at a time, and when it has ended no target
\* thinks that it still hovers.
NoneLeftHovering ==
    \A t \in Targets : LET d == hover[t] IN
        d # None => phase[d] = "failed" \/ (phase[d] = "over" /\ target[d] = t)
=============================================================================
