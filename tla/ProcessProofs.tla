---------------------------- MODULE ProcessProofs ---------------------------
(***************************************************************************)
(* Proofs about the components that several processes make up: about       *)
(* SingleInstance, for any number of launches and exits, and about         *)
(* TempCleanup, for any number of programs and directories, any delays,    *)
(* and any number of exports the worker holds.                             *)
(***************************************************************************)
EXTENDS SingleInstance, TempCleanup, FiniteSetTheorems, SequenceTheorems, TLAPS

----------------------------------------------------------------------------
(* SingleInstance: where the paths of a launch are.                        *)

\* A launch that is still being routed has not given its paths to anybody.
Unplaced ==
    \A p, q \in Launches : Routing(p) \/ pc[p] = "off" =>
        /\ p \notin opened[q]
        /\ p \notin Range(channel[q])
        /\ p \notin Range(backlog[q])

\* A launch's paths are opened by one window, or in one channel, or in one
\* backlog, and in no two of these.
Sole ==
    \A p, q, r \in Launches :
        /\ p \in opened[q] /\ p \in opened[r] => q = r
        /\ p \in Range(channel[q]) /\ p \in Range(channel[r]) => q = r
        /\ p \in Range(backlog[q]) /\ p \in Range(backlog[r]) => q = r
        /\ p \in opened[q] => p \notin Range(channel[r]) \cup Range(backlog[r])
        /\ p \in Range(channel[q]) => p \notin Range(backlog[r])

\* No message is twice in a queue.
NoRepeats ==
    \A q \in Launches : IsInjective(channel[q]) /\ IsInjective(backlog[q])

Placed == Unplaced /\ Sole /\ NoRepeats

\* Launches have not raced, and none has too many paths.
Calm == ~raced /\ \A p \in TooMany : pc[p] = "off"

\* As long as launches do not race one at most is routed; the only window is
\* the listener at the endpoint; who is past asking it has found none.
OneAtATime ==
    Calm =>
        /\ \A p, q \in Launches : Routing(p) /\ Routing(q) => p = q
        /\ \A p \in Launches :
              /\ Window(p) => pc[p] = "listening" /\ endpoint = p
              /\ pc[p] \notin {"again", "lastWrite", "alone"}
              /\ pc[p] = "write" => peer[p] = endpoint
              /\ pc[p] \in {"remove", "bind"} => \A q \in Launches : ~Window(q)
              /\ pc[p] = "bind" => endpoint = NoListener

\* The inductive invariant.
RouteInv == RouteTypeOK /\ Placed /\ OneAtATime

----------------------------------------------------------------------------
(* Queues.                                                                 *)

\* The empty queue holds nothing.
LEMMA EmptyQueue ==
    IsInjective(<<>>) /\ Range(<<>>) = {} /\ <<>> \in Seq(Launches)
BY DEF IsInjective, Range

\* A message joins a queue.
LEMMA Joins ==
    ASSUME NEW s \in Seq(Launches), NEW p \in Launches
    PROVE  /\ Append(s, p) \in Seq(Launches)
           /\ Range(Append(s, p)) = Range(s) \cup {p}
           /\ IsInjective(s) /\ p \notin Range(s) => IsInjective(Append(s, p))
<1> DEFINE t == Append(s, p)
<1>1. /\ t \in Seq(Launches) /\ Len(s) \in Nat /\ Len(t) = Len(s) + 1
      /\ \A k \in 1..Len(s) : t[k] = s[k]
      /\ t[Len(s) + 1] = p
      /\ DOMAIN s = 1..Len(s) /\ DOMAIN t = 1..Len(t)
    BY AppendProperties
<1> HIDE DEF t
<1>2. Range(t) = Range(s) \cup {p}
    BY <1>1 DEF Range
<1>3. ASSUME IsInjective(s), p \notin Range(s) PROVE IsInjective(t)
    BY <1>1, <1>3 DEF IsInjective, Range
<1> QED
    BY <1>1, <1>2, <1>3 DEF t

\* The first message leaves a queue without repetitions for good.
LEMMA Leaves ==
    ASSUME NEW s \in Seq(Launches), s # <<>>, IsInjective(s)
    PROVE  /\ Tail(s) \in Seq(Launches) /\ IsInjective(Tail(s))
           /\ Head(s) \in Range(s) /\ Head(s) \in Launches
           /\ Range(Tail(s)) = Range(s) \ {Head(s)}
<1> DEFINE t == Tail(s)
<1>1. /\ t \in Seq(Launches) /\ Len(s) \in Nat /\ Len(s) > 0 /\ Len(t) = Len(s) - 1
      /\ \A k \in 1..Len(t) : t[k] = s[k + 1]
      /\ Head(s) = s[1] /\ s[1] \in Launches
      /\ DOMAIN s = 1..Len(s) /\ DOMAIN t = 1..Len(t)
    BY HeadTailProperties, EmptySeq
<1> HIDE DEF t
<1>2. /\ 1 \in 1..Len(s)
      /\ \A k \in 1..Len(t) : k + 1 \in 1..Len(s) /\ k + 1 # 1
    BY <1>1
<1>3. \A k, l \in 1..Len(s) : s[k] = s[l] => k = l
    BY <1>1 DEF IsInjective
<1>4. IsInjective(t)
    <2> SUFFICES ASSUME NEW k \in 1..Len(t), NEW l \in 1..Len(t), t[k] = t[l]
                 PROVE  k = l
        BY <1>1 DEF IsInjective
    <2>1. k + 1 = l + 1
        BY <1>1, <1>2, <1>3
    <2> QED
        BY <2>1
<1>5. Head(s) \in Range(s)
    BY <1>1, <1>2 DEF Range
<1>6. ASSUME NEW k \in 1..Len(t) PROVE t[k] \in Range(s) /\ t[k] # Head(s)
    <2>1. t[k] = s[k + 1] /\ k + 1 \in 1..Len(s) /\ k + 1 # 1
        BY <1>1, <1>2
    <2> QED
        BY <1>1, <1>2, <1>3, <2>1 DEF Range
<1>7. ASSUME NEW k \in 1..Len(s), s[k] # Head(s) PROVE s[k] \in Range(t)
    <2>1. k - 1 \in 1..Len(t) /\ t[k - 1] = s[k]
        BY <1>1, <1>7
    <2> QED
        BY <1>1, <2>1 DEF Range
<1>8. Range(t) = Range(s) \ {Head(s)}
    <2>1. \A x : x \in Range(t) <=> \E k \in 1..Len(t) : t[k] = x
        BY <1>1 DEF Range
    <2>2. \A x : x \in Range(s) <=> \E k \in 1..Len(s) : s[k] = x
        BY <1>1 DEF Range
    <2> QED
        BY <1>6, <1>7, <2>1, <2>2
<1> QED
    BY <1>1, <1>4, <1>5, <1>8 DEF t

----------------------------------------------------------------------------
(* One lemma per part of the invariant.                                    *)

\* A launch may be given to a window.
LEMMA OwnOpened ==
    ASSUME RouteTypeOK, NEW p \in Launches
    PROVE  [opened EXCEPT ![p] = {p}] \in [Launches -> SUBSET Launches]
<1>1. opened \in [Launches -> SUBSET Launches] /\ {p} \in SUBSET Launches
    BY DEF RouteTypeOK
<1> QED
    BY <1>1

\* Every step keeps the types.
LEMMA RouteTypesKept == RouteTypeOK /\ [RouteNext]_routeVars => RouteTypeOK'
<1> SUFFICES ASSUME RouteTypeOK, [RouteNext]_routeVars PROVE RouteTypeOK'
    OBVIOUS
<1> USE RouteAssumption
<1>1. ASSUME NEW p \in Launches, Start(p) PROVE RouteTypeOK'
    BY <1>1 DEF Start, Goto, RouteTypeOK
<1>2. ASSUME NEW p \in Launches, Connect(p) PROVE RouteTypeOK'
    <2>1. \A q \in Launches : peer[q] # p
        BY <1>2 DEF Connect, RouteTypeOK
    <2>2. pc' \in [Launches -> {"off", "connect", "write", "remove", "bind", "again",
                             "lastWrite", "listening", "alone", "forwarded", "dead"}]
        BY <1>2 DEF Connect, Goto, RouteTypeOK
    <2>3. CASE Listening
        <3>1. /\ endpoint \in Launches /\ endpoint # p /\ pc[endpoint] = "listening"
              /\ peer' = [peer EXCEPT ![p] = endpoint]
              /\ pc' = [pc EXCEPT ![p] = pc'[p]] /\ pc'[p] \in {"write", "lastWrite"}
              /\ UNCHANGED <<opened, endpoint, backlog, channel, raced, deaths>>
            BY <1>2, <2>3 DEF Connect, Listening, Goto, RouteTypeOK
        <3> QED
            BY <2>1, <2>2, <3>1 DEF RouteTypeOK
    <2>4. CASE ~Listening
        <3>1. /\ peer' = peer /\ (opened' = opened \/ opened' = [opened EXCEPT ![p] = {p}])
              /\ pc' = [pc EXCEPT ![p] = pc'[p]] /\ pc'[p] \in {"remove", "alone"}
              /\ UNCHANGED <<endpoint, backlog, channel, raced, deaths>>
            BY <1>2, <2>4 DEF Connect, Goto, RouteTypeOK
        <3>2. peer[p] = NoListener
            BY <1>2 DEF Connect, RouteTypeOK
        <3>3. opened' \in [Launches -> SUBSET Launches]
                <4>1. CASE opened' = opened
                    BY <4>1 DEF RouteTypeOK
                <4>2. CASE opened' = [opened EXCEPT ![p] = {p}]
                    BY <4>2, OwnOpened
                <4> QED
                    BY <3>1, <4>1, <4>2
        <3> QED
            BY <2>1, <2>2, <3>1, <3>2, <3>3 DEF RouteTypeOK
    <2> QED
        BY <2>3, <2>4
<1>3. ASSUME NEW p \in Launches, Write(p) PROVE RouteTypeOK'
    <2>1. CASE Delivered(p) /\ Goto(p, "forwarded") /\ UNCHANGED opened
        <3>1. peer[p] \in Launches
            BY <1>3 DEF Write, RouteTypeOK
        <3>2. Append(backlog[peer[p]], p) \in Seq(Launches)
            BY <3>1, Joins DEF RouteTypeOK
        <3>3. backlog' \in [Launches -> Seq(Launches)]
            BY <2>1, <3>1, <3>2 DEF Delivered, RouteTypeOK
        <3> QED
            BY <1>3, <2>1, <3>3 DEF Write, Goto, Disconnect, RouteTypeOK
    <2>2. CASE NotForwarded(p)
        BY <1>3, <2>2 DEF Write, NotForwarded, Goto, Disconnect, RouteTypeOK
    <2> QED
        BY <1>3, <2>1, <2>2 DEF Write
<1>4. ASSUME NEW p \in Launches, RemoveName(p) PROVE RouteTypeOK'
    BY <1>4 DEF RemoveName, Goto, RouteTypeOK
<1>5. ASSUME NEW p \in Launches, Bind(p) PROVE RouteTypeOK'
    <2>1. \A q \in Launches : peer[q] # p
        BY <1>5 DEF Bind, RouteTypeOK
    <2>2. (opened' = opened \/ opened' = [opened EXCEPT ![p] = {p}]) /\ endpoint' \in {endpoint, p}
        BY <1>5 DEF Bind
    <2>3. /\ pc' = [pc EXCEPT ![p] = pc'[p]] /\ pc'[p] \in {"listening", "again"}
          /\ pc[p] = "bind" /\ UNCHANGED <<peer, backlog, channel, raced, deaths>>
        BY <1>5 DEF Bind, Goto, RouteTypeOK
    <2>4. opened' \in [Launches -> SUBSET Launches]
            <3>1. CASE opened' = opened
                BY <3>1 DEF RouteTypeOK
            <3>2. CASE opened' = [opened EXCEPT ![p] = {p}]
                BY <3>2, OwnOpened
            <3> QED
                BY <2>2, <3>1, <3>2
    <2>5. pc' \in [Launches -> {"off", "connect", "write", "remove", "bind", "again",
                             "lastWrite", "listening", "alone", "forwarded", "dead"}]
        BY <2>3 DEF RouteTypeOK
    <2> QED
        BY <2>1, <2>2, <2>3, <2>4, <2>5 DEF RouteTypeOK
<1>6. ASSUME NEW p \in Launches, Receive(p) PROVE RouteTypeOK'
    <2>1. Head(backlog[p]) \in Launches /\ Tail(backlog[p]) \in Seq(Launches)
        BY <1>6, HeadTailProperties DEF Receive, RouteTypeOK
    <2>2. Append(channel[p], Head(backlog[p])) \in Seq(Launches)
        BY <2>1, Joins DEF RouteTypeOK
    <2>3. /\ channel' \in [Launches -> Seq(Launches)]
          /\ backlog' \in [Launches -> Seq(Launches)]
        BY <1>6, <2>1, <2>2 DEF Receive, RouteTypeOK
    <2> QED
        BY <1>6, <2>3 DEF Receive, RouteTypeOK
<1>7. ASSUME NEW p \in Launches, Frame(p) PROVE RouteTypeOK'
    <2>1. Range(channel[p]) \subseteq Launches
        BY DEF Range, RouteTypeOK
    <2>2. channel' \in [Launches -> Seq(Launches)]
        BY <1>7, EmptyQueue DEF Frame, RouteTypeOK
    <2> QED
        BY <1>7, <2>1, <2>2 DEF Frame, RouteTypeOK
<1>8. ASSUME NEW p \in Launches, Exit(p) PROVE RouteTypeOK'
    <2>1. /\ channel' \in [Launches -> Seq(Launches)]
          /\ backlog' \in [Launches -> Seq(Launches)]
        BY <1>8, EmptyQueue DEF Exit, RouteTypeOK
    <2> QED
        BY <1>8, <2>1 DEF Exit, Goto, Window, Routing, RouteTypeOK
<1>9. CASE UNCHANGED routeVars
    BY <1>9 DEF routeVars, RouteTypeOK
<1> QED
    BY <1>1, <1>2, <1>3, <1>4, <1>5, <1>6, <1>7, <1>8, <1>9 DEF RouteNext, Route

\* A launch that is routed after a step was so before, or has just started.
LEMMA StillRouted ==
    ASSUME RouteTypeOK, [RouteNext]_routeVars, NEW p \in Launches, (Routing(p) \/ pc[p] = "off")'
    PROVE  Routing(p) \/ pc[p] = "off"
<1>1. ASSUME NEW q \in Launches, Start(q) PROVE Routing(p) \/ pc[p] = "off"
    BY <1>1 DEF Start, Goto, Routing, RouteTypeOK
<1>2. ASSUME NEW q \in Launches, Connect(q) PROVE Routing(p) \/ pc[p] = "off"
    BY <1>2 DEF Connect, Goto, Routing, RouteTypeOK
<1>3. ASSUME NEW q \in Launches, Write(q) PROVE Routing(p) \/ pc[p] = "off"
    BY <1>3 DEF Write, NotForwarded, Goto, Routing, RouteTypeOK
<1>4. ASSUME NEW q \in Launches, RemoveName(q) PROVE Routing(p) \/ pc[p] = "off"
    BY <1>4 DEF RemoveName, Goto, Routing, RouteTypeOK
<1>5. ASSUME NEW q \in Launches, Bind(q) PROVE Routing(p) \/ pc[p] = "off"
    BY <1>5 DEF Bind, Goto, Routing, RouteTypeOK
<1>6. ASSUME NEW q \in Launches, Receive(q) PROVE Routing(p) \/ pc[p] = "off"
    BY <1>6 DEF Receive, Routing
<1>7. ASSUME NEW q \in Launches, Frame(q) PROVE Routing(p) \/ pc[p] = "off"
    BY <1>7 DEF Frame, Routing
<1>8. ASSUME NEW q \in Launches, Exit(q) PROVE Routing(p) \/ pc[p] = "off"
    BY <1>8 DEF Exit, Goto, Routing, RouteTypeOK
<1>9. CASE UNCHANGED routeVars
    BY <1>9 DEF routeVars, Routing
<1> QED
    BY <1>1, <1>2, <1>3, <1>4, <1>5, <1>6, <1>7, <1>8, <1>9 DEF RouteNext, Route

\* A step that moves no paths keeps them where they are ...
LEMMA NothingMoves ==
    ASSUME RouteTypeOK, Placed, [RouteNext]_routeVars, UNCHANGED <<opened, channel, backlog>>
    PROVE  Placed'
<1>1. Unplaced'
    BY StillRouted DEF Placed, Unplaced
<1>2. Sole' /\ NoRepeats'
    BY DEF Placed, Sole, NoRepeats
<1> QED
    BY <1>1, <1>2 DEF Placed

\* ... and a launch that becomes a window opens its own.
LEMMA OpensItsOwn ==
    ASSUME RouteTypeOK, Placed, [RouteNext]_routeVars, NEW p \in Launches, Routing(p),
           ~Routing(p)', (pc[p] # "off")',
           opened' = [opened EXCEPT ![p] = {p}], UNCHANGED <<channel, backlog>>
    PROVE  Placed'
<1>1. \A q \in Launches : opened'[q] = IF q = p THEN {p} ELSE opened[q]
    BY DEF RouteTypeOK
<1>2. Unplaced'
    BY <1>1, StillRouted DEF Placed, Unplaced
<1>3. Sole'
    BY <1>1 DEF Placed, Sole, Unplaced
<1>4. NoRepeats'
    BY DEF Placed, NoRepeats
<1> QED
    BY <1>2, <1>3, <1>4 DEF Placed

\* Every step keeps a launch's paths in one place.
LEMMA PlacedKept == RouteTypeOK /\ Placed /\ [RouteNext]_routeVars => Placed'
<1> SUFFICES ASSUME RouteTypeOK, Placed, [RouteNext]_routeVars PROVE Placed'
    OBVIOUS
<1>1. ASSUME NEW p \in Launches, Start(p) PROVE Placed'
    BY <1>1, NothingMoves DEF Start
<1>2. ASSUME NEW p \in Launches, Connect(p) PROVE Placed'
    <2>1. CASE opened' = opened
        BY <1>2, <2>1, NothingMoves DEF Connect
    <2>2. CASE opened' # opened
        <3>1. /\ Routing(p) /\ pc'[p] = "alone" /\ opened' = [opened EXCEPT ![p] = {p}]
              /\ UNCHANGED <<channel, backlog>>
            BY <1>2, <2>2 DEF Connect, Goto, Routing, RouteTypeOK
        <3> QED
            BY <3>1, OpensItsOwn DEF Routing
    <2> QED
        BY <2>1, <2>2
<1>3. ASSUME NEW p \in Launches, Write(p) PROVE Placed'
    <2>1. CASE Delivered(p) /\ Goto(p, "forwarded") /\ UNCHANGED opened
        <3>1. peer[p] \in Launches /\ Routing(p)
            BY <1>3 DEF Write, Routing, RouteTypeOK
        <3>2. channel' = channel /\ opened' = opened
            BY <1>3, <2>1 DEF Write
        <3>3. /\ backlog'[peer[p]] = Append(backlog[peer[p]], p)
              /\ \A q \in Launches : q # peer[p] => backlog'[q] = backlog[q]
            BY <2>1, <3>1 DEF Delivered, RouteTypeOK
        <3>4. \A q \in Launches : p \notin Range(backlog[q]) /\ p \notin Range(channel[q])
                                     /\ p \notin opened[q]
            BY <3>1 DEF Placed, Unplaced
        <3>5. /\ Range(backlog'[peer[p]]) = Range(backlog[peer[p]]) \cup {p}
              /\ IsInjective(backlog'[peer[p]])
            BY <3>1, <3>3, <3>4, Joins DEF RouteTypeOK, Placed, NoRepeats
        <3>6. ~Routing(p)' /\ pc'[p] # "off"
            BY <2>1 DEF Goto, Routing, RouteTypeOK
        <3>7. Unplaced'
            BY <3>1, <3>2, <3>3, <3>5, <3>6, StillRouted DEF Placed, Unplaced
        <3>8. Sole'
            <4>1. \A q \in Launches : \A x \in Range(backlog'[q]) :
                     x \in Range(backlog[q]) \/ (x = p /\ q = peer[p])
                <5> SUFFICES ASSUME NEW q \in Launches, NEW x \in Range(backlog'[q])
                             PROVE  x \in Range(backlog[q]) \/ (x = p /\ q = peer[p])
                    OBVIOUS
                <5>1. CASE q = peer[p]
                    BY <3>5, <5>1
                <5>2. CASE q # peer[p]
                    BY <3>3, <5>2
                <5> QED
                    BY <5>1, <5>2
            <4> QED
                BY <3>2, <3>4, <4>1 DEF Placed, Sole
        <3>9. NoRepeats'
            BY <3>1, <3>2, <3>3, <3>5 DEF Placed, NoRepeats
        <3> QED
            BY <3>7, <3>8, <3>9 DEF Placed
    <2>2. CASE NotForwarded(p) /\ opened' = opened
        BY <1>3, <2>2, NothingMoves DEF Write, NotForwarded
    <2>3. CASE NotForwarded(p) /\ opened' # opened
        <3>1. /\ Routing(p) /\ pc'[p] = "alone" /\ opened' = [opened EXCEPT ![p] = {p}]
              /\ UNCHANGED <<channel, backlog>>
            BY <1>3, <2>3 DEF Write, NotForwarded, Goto, Routing, RouteTypeOK
        <3> QED
            BY <3>1, OpensItsOwn DEF Routing
    <2> QED
        BY <1>3, <2>1, <2>2, <2>3 DEF Write
<1>4. ASSUME NEW p \in Launches, RemoveName(p) PROVE Placed'
    BY <1>4, NothingMoves DEF RemoveName
<1>5. ASSUME NEW p \in Launches, Bind(p) PROVE Placed'
    <2>1. CASE endpoint = NoListener
        <3>1. /\ Routing(p) /\ pc'[p] = "listening" /\ opened' = [opened EXCEPT ![p] = {p}]
              /\ UNCHANGED <<channel, backlog>>
            BY <1>5, <2>1 DEF Bind, Goto, Routing, RouteTypeOK
        <3> QED
            BY <3>1, OpensItsOwn DEF Routing
    <2>2. CASE endpoint # NoListener
        BY <1>5, <2>2, NothingMoves DEF Bind
    <2> QED
        BY <2>1, <2>2
<1>6. ASSUME NEW p \in Launches, Receive(p) PROVE Placed'
    <2> DEFINE m == Head(backlog[p])
    <2>1. /\ m \in Launches /\ m \in Range(backlog[p])
          /\ Range(backlog'[p]) = Range(backlog[p]) \ {m} /\ IsInjective(backlog'[p])
          /\ \A q \in Launches : q # p => backlog'[q] = backlog[q]
        BY <1>6, Leaves DEF Receive, RouteTypeOK, Placed, NoRepeats
    <2>2. \A q \in Launches : m \notin opened[q] /\ m \notin Range(channel[q])
        BY <2>1 DEF Placed, Sole
    <2>3. opened' = opened /\ pc' = pc
        BY <1>6 DEF Receive
    <2>4. Range(Append(channel[p], m)) = Range(channel[p]) \cup {m}
          /\ IsInjective(Append(channel[p], m))
        BY <2>1, <2>2, Joins DEF RouteTypeOK, Placed, NoRepeats
    <2>5. /\ Range(channel'[p]) \subseteq Range(channel[p]) \cup {m}
          /\ IsInjective(channel'[p])
          /\ \A q \in Launches : q # p => channel'[q] = channel[q]
        <3>1. CASE m \in TooMany
            BY <1>6, <3>1 DEF Receive, Placed, NoRepeats
        <3>2. CASE m \notin TooMany
            BY <1>6, <2>4, <3>2 DEF Receive, RouteTypeOK
        <3> QED
            BY <3>1, <3>2
    <2> HIDE DEF m
    <2>6. Unplaced'
        BY <2>1, <2>3, <2>5 DEF Placed, Unplaced, Routing
    <2>7. Sole'
        BY <2>1, <2>2, <2>3, <2>5 DEF Placed, Sole
    <2>8. NoRepeats'
        BY <2>1, <2>5 DEF Placed, NoRepeats
    <2> QED
        BY <2>6, <2>7, <2>8 DEF Placed
<1>7. ASSUME NEW p \in Launches, Frame(p) PROVE Placed'
    <2>1. /\ opened'[p] = opened[p] \cup Range(channel[p])
          /\ Range(channel'[p]) = {} /\ IsInjective(channel'[p])
          /\ \A q \in Launches : q # p => opened'[q] = opened[q] /\ channel'[q] = channel[q]
        BY <1>7, EmptyQueue DEF Frame, RouteTypeOK
    <2>2. backlog' = backlog /\ pc' = pc
        BY <1>7 DEF Frame
    <2>3. Unplaced'
        BY <2>1, <2>2 DEF Placed, Unplaced, Routing
    <2>4. Sole'
        BY <2>1, <2>2 DEF Placed, Sole
    <2>5. NoRepeats'
        BY <2>1, <2>2 DEF Placed, NoRepeats
    <2> QED
        BY <2>3, <2>4, <2>5 DEF Placed
<1>8. ASSUME NEW p \in Launches, Exit(p) PROVE Placed'
    <2>1. \A q \in Launches :
             IF q = p THEN channel'[q] = <<>> /\ backlog'[q] = <<>>
             ELSE channel'[q] = channel[q] /\ backlog'[q] = backlog[q]
        BY <1>8 DEF Exit, RouteTypeOK
    <2>2. \A q \in Launches :
             /\ Range(channel'[q]) \subseteq Range(channel[q]) /\ IsInjective(channel'[q])
             /\ Range(backlog'[q]) \subseteq Range(backlog[q]) /\ IsInjective(backlog'[q])
        BY <2>1, EmptyQueue DEF Placed, NoRepeats
    <2>3. opened' = opened
        BY <1>8 DEF Exit
    <2>4. Unplaced'
        BY <2>2, <2>3, StillRouted DEF Placed, Unplaced
    <2>5. Sole'
        BY <2>2, <2>3 DEF Placed, Sole
    <2>6. NoRepeats'
        BY <2>2 DEF NoRepeats
    <2> QED
        BY <2>4, <2>5, <2>6 DEF Placed
<1>9. CASE UNCHANGED routeVars
    BY <1>9, NothingMoves DEF routeVars
<1> QED
    BY <1>1, <1>2, <1>3, <1>4, <1>5, <1>6, <1>7, <1>8, <1>9 DEF RouteNext, Route

\* Launches that have not raced had not raced before.
LEMMA CalmBefore ==
    ASSUME RouteTypeOK, [RouteNext]_routeVars, Calm'
    PROVE  Calm
<1> SUFFICES ASSUME NEW p \in Launches,
                    \/ Start(p) \/ Connect(p) \/ Write(p) \/ RemoveName(p) \/ Bind(p)
                    \/ Receive(p) \/ Frame(p) \/ Exit(p)
             PROVE  Calm
    BY DEF RouteNext, Route, Calm, routeVars
<1>1. ~raced
    BY DEF Start, Connect, Write, RemoveName, Bind, Receive, Frame, Exit, Calm
<1>2. \A q \in Launches : pc[q] # "off" => pc'[q] # "off"
    BY DEF Start, Connect, Write, NotForwarded, RemoveName, Bind, Receive, Frame, Exit,
           Goto, RouteTypeOK
<1> QED
    BY <1>1, <1>2, RouteAssumption DEF Calm

\* Every step keeps launches that do not race to one window.
LEMMA OneKept == RouteTypeOK /\ OneAtATime /\ [RouteNext]_routeVars => OneAtATime'
<1> SUFFICES ASSUME RouteTypeOK, OneAtATime, [RouteNext]_routeVars, Calm, Calm' PROVE OneAtATime'
    BY CalmBefore DEF OneAtATime
<1> USE RouteAssumption DEF OneAtATime, Window, Routing
<1>1. ASSUME NEW p \in Launches, Start(p) PROVE OneAtATime'
    <2>1. \A q \in Launches : ~Routing(q)
        BY <1>1 DEF Start, Calm
    <2>2. /\ pc'[p] = "connect" /\ pc[p] = "off"
          /\ \A q \in Launches : q # p => pc'[q] = pc[q]
          /\ UNCHANGED <<peer, endpoint>>
        BY <1>1 DEF Start, Goto, RouteTypeOK
    <2> QED
        BY <2>1, <2>2
<1>2. ASSUME NEW p \in Launches, Connect(p) PROVE OneAtATime'
    <2>1. pc[p] = "connect" /\ endpoint' = endpoint
        BY <1>2 DEF Connect
    <2>2. \A q \in Launches : q # p => pc'[q] = pc[q] /\ peer'[q] = peer[q]
        BY <1>2 DEF Connect, Goto, RouteTypeOK
    <2>3. CASE Listening
        <3>1. pc'[p] = "write" /\ peer'[p] = endpoint
            BY <1>2, <2>1, <2>3 DEF Connect, Goto, RouteTypeOK
        <3> QED
            BY <2>1, <2>2, <3>1
    <2>4. CASE ~Listening
        <3>1. pc'[p] = "remove" /\ \A q \in Launches : ~Window(q)
            BY <1>2, <2>1, <2>4 DEF Connect, Listening, Goto, RouteTypeOK
        <3> QED
            BY <2>1, <2>2, <3>1
    <2> QED
        BY <2>3, <2>4
<1>3. ASSUME NEW p \in Launches, Write(p) PROVE OneAtATime'
    <2>1. CASE Goto(p, "forwarded")
        BY <1>3, <2>1 DEF Write, Disconnect, Goto, RouteTypeOK
    <2>2. CASE NotForwarded(p)
        <3>1. p \notin TooMany /\ pc[p] = "write" /\ peer[p] = endpoint
            BY <1>3 DEF Write, Calm
        <3>2. pc[endpoint] = "dead"
            BY <2>2, <3>1 DEF NotForwarded, MayClose
        <3>3. pc' = [pc EXCEPT ![p] = "remove"] /\ endpoint' = endpoint
              /\ peer' = [peer EXCEPT ![p] = NoListener]
            BY <1>3, <2>2, <3>1 DEF Write, NotForwarded, Disconnect, Goto
        <3> QED
            BY <3>1, <3>2, <3>3 DEF RouteTypeOK
    <2> QED
        BY <1>3, <2>1, <2>2 DEF Write
<1>4. ASSUME NEW p \in Launches, RemoveName(p) PROVE OneAtATime'
    BY <1>4 DEF RemoveName, Goto, RouteTypeOK
<1>5. ASSUME NEW p \in Launches, Bind(p) PROVE OneAtATime'
    <2>1. /\ pc'[p] = "listening" /\ endpoint' = p /\ peer' = peer
          /\ \A q \in Launches : q # p => pc'[q] = pc[q]
        BY <1>5 DEF Bind, Goto, RouteTypeOK
    <2>2. pc[p] = "bind" /\ \A q \in Launches : ~Window(q) /\ (Routing(q) => q = p)
        BY <1>5 DEF Bind
    <2> QED
        BY <2>1, <2>2
<1>6. ASSUME NEW p \in Launches, Receive(p) PROVE OneAtATime'
    BY <1>6 DEF Receive
<1>7. ASSUME NEW p \in Launches, Frame(p) PROVE OneAtATime'
    BY <1>7 DEF Frame
<1>8. ASSUME NEW p \in Launches, Exit(p) PROVE OneAtATime'
    BY <1>8 DEF Exit, Goto, RouteTypeOK
<1>9. CASE UNCHANGED routeVars
    BY <1>9 DEF routeVars
<1> QED
    BY <1>1, <1>2, <1>3, <1>4, <1>5, <1>6, <1>7, <1>8, <1>9 DEF RouteNext, Route

----------------------------------------------------------------------------
(* The theorems.                                                           *)

\* The first state satisfies the invariant.
LEMMA RouteInvInit == RouteInit => RouteInv
<1> SUFFICES ASSUME RouteInit PROVE RouteInv
    OBVIOUS
<1>1. RouteTypeOK
    <2>1. \A p \in Launches : pc[p] = "off" /\ peer[p] = NoListener
        BY DEF RouteInit
    <2>2. /\ backlog \in [Launches -> Seq(Launches)]
          /\ channel \in [Launches -> Seq(Launches)]
        BY EmptyQueue DEF RouteInit
    <2>3. deaths \in 0..MaxExits
        BY RouteAssumption DEF RouteInit
    <2> QED
        BY <2>1, <2>2, <2>3 DEF RouteInit, RouteTypeOK
<1>2. Placed
    BY EmptyQueue DEF RouteInit, Placed, Unplaced, Sole, NoRepeats
<1>3. OneAtATime
    BY DEF RouteInit, OneAtATime, Window, Routing
<1> QED
    BY <1>1, <1>2, <1>3 DEF RouteInv

\* The invariant holds in every reachable state.
THEOREM RouteInvariance == RouteSpec => []RouteInv
<1>1. RouteInv /\ [RouteNext]_routeVars => RouteInv'
    BY RouteTypesKept, PlacedKept, OneKept DEF RouteInv
<1> QED
    BY <1>1, RouteInvInit, PTL DEF RouteSpec

\* Every variable has its type, and a connection is to a process that listens
\* or has died.
THEOREM RouteTypesCorrect == RouteSpec => []RouteTypeOK
<1>1. RouteInv => RouteTypeOK
    BY DEF RouteInv
<1> QED
    BY <1>1, RouteInvariance, PTL

\* A set any two of whose elements are equal has one at most.
LEMMA AtMostOne ==
    ASSUME NEW S, \A x, y \in S : x = y
    PROVE  Cardinality(S) <= 1
<1>1. CASE S = {}
    BY <1>1, FS_EmptySet
<1>2. CASE S # {}
    <2> PICK x \in S : TRUE
        BY <1>2
    <2>1. S = {x}
        OBVIOUS
    <2> QED
        BY <2>1, FS_Singleton
<1> QED
    BY <1>1, <1>2

\* route, the listener thread and logic: a launch's paths are opened by one
\* window at most, whatever dies and however launches race; a launch that gave
\* its paths away does not open them.
THEOREM PathsOpenedOnce == RouteSpec => []OpenedOnce
<1>1. RouteInv => OpenedOnce
    <2> SUFFICES ASSUME RouteInv, NEW p \in Launches
                 PROVE  Cardinality(Places(p)) <= 1
        BY DEF OpenedOnce
    <2>1. ASSUME NEW x \in Places(p), NEW y \in Places(p) PROVE x = y
        <3>1. PICK q \in Launches :
                 \/ x = <<q, "opened">> /\ p \in opened[q]
                 \/ x = <<q, "channel">> /\ p \in Range(channel[q])
                 \/ x = <<q, "backlog">> /\ p \in Range(backlog[q])
            BY DEF Places
        <3>2. PICK r \in Launches :
                 \/ y = <<r, "opened">> /\ p \in opened[r]
                 \/ y = <<r, "channel">> /\ p \in Range(channel[r])
                 \/ y = <<r, "backlog">> /\ p \in Range(backlog[r])
            BY DEF Places
        <3> QED
            BY <3>1, <3>2 DEF RouteInv, Placed, Sole
    <2> QED
        BY <2>1, AtMostOne
<1> QED
    BY <1>1, RouteInvariance, PTL

\* route: launches that do not race leave one window at most, even if a window
\* died and left its name behind, as long as no message is too long.
THEOREM OneWindowOnly == RouteSpec => []OneWindow
<1>1. RouteInv => OneWindow
    <2> SUFFICES ASSUME RouteInv, ~raced, \A p \in TooMany : pc[p] = "off"
                 PROVE  Cardinality({p \in Launches : Window(p)}) <= 1
        BY DEF OneWindow
    <2>1. \A p, q \in {r \in Launches : Window(r)} : p = q
        BY DEF RouteInv, OneAtATime, Calm
    <2> QED
        BY <2>1, AtMostOne
<1> QED
    BY <1>1, RouteInvariance, PTL
----------------------------------------------------------------------------
(* TempCleanup: which directories are needed, and who removes the others.  *)

\* A directory is made by a program that has been launched; before, nothing is
\* known of it.
Made ==
    \A d \in Dirs :
        IF owner[d] = None THEN use[d] = "none" /\ promised[d] = 0 /\ d \notin present
        ELSE prog[owner[d]] # "none"

\* A program that has made a drag has looked for ancient directories.
SweptFirst ==
    \A d \in Dirs :
        owner[d] # None /\ use[d] \in {"drag", "kept"} /\ Running(owner[d]) => owner[d] \in swept

\* What a program still uses itself is not promised to a drop target, except
\* what its worker holds.
HeldIfPromised ==
    \A d \in Dirs :
        use[d] \in {"drag", "clipboard", "work"} /\ owner[d] # None /\ Running(owner[d]) =>
            promised[d] <= now

\* What the worker holds are dropped exports of its program, each once, and
\* none is promised for longer than it is held.
Held ==
    \A p \in Programs :
        /\ \A i \in 1..Len(kept[p]) :
              LET d == kept[p][i].dir IN
              owner[d] = p /\ use[d] = "kept" /\ promised[d] <= kept[p][i].until
        /\ \A i, j \in 1..Len(kept[p]) : kept[p][i].dir = kept[p][j].dir => i = j

\* The threads of schedule_in_process watch leftovers of other programs.
OthersPlanned ==
    \A p \in Programs : \A d \in DOMAIN planned[p] : owner[d] \notin {None, p}

\* The helper of its program removes no directory before its promise is over.
LateEnough ==
    \A d \in Dirs : owner[d] # None /\ d \in DOMAIN known[owner[d]] =>
        promised[d] <= known[owner[d]][d] \/ promised[d] <= now

\* More than NoneForgotten: what a program that runs will remove, a helper
\* was told of as well, unless it is a directory of the clipboard.
Covered ==
    \A d \in present :
        \/ d \in excused
        \/ \E p \in Programs : helper[p] = "alive" /\ d \in DOMAIN known[p]
        \/ owner[d] # None /\ Running(owner[d]) /\ use[d] = "clipboard"

\* The inductive invariant.
IInv ==
    /\ TypeOK /\ Made /\ SweptFirst /\ HeldIfPromised /\ Held /\ OthersPlanned /\ LateEnough
    /\ KeptWhileNeeded /\ Covered

----------------------------------------------------------------------------
(* Constants, types and the operators of the model.                        *)

LEMMA Constants ==
    /\ Grace \in Nat /\ Unconfirmed \in Nat /\ Abandoned \in Nat /\ MaxRetained \in Nat
    /\ MaxTime \in Nat /\ None \notin Programs /\ \A p \in Programs : p \in Nat
BY CleanupAssumption

\* The types in parts: of the clock and the processes, of the worker, of the
\* directories, and of what is recorded for the properties.
Processes ==
    /\ now \in Nat /\ now <= MaxTime /\ prog \in [Programs -> {"none", "running", "ended"}]
    /\ helper \in [Programs -> {"none", "alive", "dead"}] /\ swept \subseteq Programs
Holding ==
    /\ kept \in [Programs -> Seq([dir : Dirs, until : Nat])]
    /\ \A p \in Programs : Len(kept[p]) <= MaxRetained
Catalogue ==
    /\ owner \in [Dirs -> Programs \cup {None}] /\ present \subseteq Dirs
    /\ use \in [Dirs -> {"none", "drag", "kept", "clipboard", "work", "over"}]
    /\ changed \in [Dirs -> Nat] /\ promised \in [Dirs -> Nat]
Ghosts == taken \in [Dirs -> Programs \cup {None}] /\ evicted \subseteq Dirs /\ excused \subseteq Dirs

LEMMA TypesSplit ==
    TypeOK => Processes /\ Plans(known) /\ Plans(planned) /\ Holding /\ Catalogue /\ Ghosts
<1> SUFFICES ASSUME TypeOK
             PROVE  Processes /\ Plans(known) /\ Plans(planned) /\ Holding /\ Catalogue /\ Ghosts
    OBVIOUS
<1>1. Processes
    BY Constants DEF TypeOK, Processes
<1>2. Plans(known) /\ Plans(planned)
    BY DEF TypeOK
<1>3. Holding
    BY DEF TypeOK, Holding
<1>4. Catalogue /\ Ghosts
    BY DEF TypeOK, Catalogue, Ghosts
<1> QED
    BY <1>1, <1>2, <1>3, <1>4

\* After a step, too, the parts make the whole.
LEMMA TypesJoin ==
    Processes' /\ Plans(known)' /\ Plans(planned)' /\ Holding' /\ Catalogue' /\ Ghosts' => TypeOK'
<1> SUFFICES ASSUME Processes', Plans(known)', Plans(planned)', Holding', Catalogue', Ghosts'
             PROVE  TypeOK'
    OBVIOUS
<1>1. now' \in 0..MaxTime
    BY Constants DEF Processes
<1> QED
    BY <1>1 DEF TypeOK, Processes, Holding, Catalogue, Ghosts

\* Plans after directories are removed: those of the others, unchanged.
Fewer(new, old, gone) ==
    /\ Plans(new)
    /\ \A p \in Programs :
          /\ DOMAIN new[p] = DOMAIN old[p] \ gone
          /\ \A d \in DOMAIN new[p] : new[p][d] = old[p][d]

LEMMA WithoutGone ==
    ASSUME NEW plans, Plans(plans), NEW gone
    PROVE  Fewer(Without(plans, gone), plans, gone)
BY DEF Without, Restrict, Plans, Fewer

\* What the helpers know after one is told of a directory.
Informed(new, p, d, deadline) ==
    /\ Plans(new)
    /\ \A q \in Programs \ {p} : new[q] = known[q]
    /\ d \in DOMAIN new[p] /\ new[p][d] = deadline
    /\ helper[p] = "alive" => DOMAIN known[p] \subseteq DOMAIN new[p]
    /\ \A e \in DOMAIN new[p] : e # d => e \in DOMAIN known[p] /\ new[p][e] = known[p][e]

LEMMA ToldOne ==
    ASSUME TypeOK, NEW p \in Programs, NEW d \in Dirs, NEW delay \in Nat
    PROVE  Informed(Told(p, d, delay), p, d, now + delay)
<1>1. CASE helper[p] = "alive"
    BY <1>1, TypesSplit DEF Told, Informed, Recorded, With, Plans, Processes
<1>2. CASE helper[p] # "alive"
    BY <1>2, TypesSplit DEF Told, Informed, Recorded, With, Plans, Processes, Empty
<1> QED
    BY <1>1, <1>2

\* What the worker holds.
Exports == [dir : Dirs, until : Nat]

LEMMA OldestHeld ==
    ASSUME NEW s \in Seq(Exports), s # <<>>
    PROVE  /\ Head(s).dir \in Dirs /\ Head(s).until \in Nat /\ Head(s) = s[1]
           /\ Len(s) \in Nat \ {0}
<1>1. Head(s) \in Exports /\ Len(s) \in Nat \ {0}
    BY HeadTailProperties, EmptySeq
<1>2. Head(s) = s[1]
    OBVIOUS
<1> QED
    BY <1>1, <1>2 DEF Exports

\* The end of a drag: the worker takes its directory, and lets go of another,
\* or of this one, if it holds too many.
Ending(p, d, out) ==
    /\ Running(p) /\ owner[d] = p /\ use[d] = "drag" /\ out \subseteq Dirs
    /\ \A e \in out : owner[e] = p /\ (e = d \/ use[e] = "kept")
    /\ helper' = [helper EXCEPT ![p] = "alive"]
    /\ promised' = [promised EXCEPT ![d] = now + Grace]
    /\ use' = [e \in Dirs |-> IF e \in out THEN "over" ELSE IF e = d THEN "kept" ELSE use[e]]
    /\ RemoveDirs(out) /\ evicted' = evicted \cup {e \in out : Needed(e)}
    /\ Plans(known') /\ \A q \in Programs \ {p} : known'[q] = known[q]
    /\ d \in present \ out => d \in DOMAIN known'[p] /\ known'[p][d] = now + Grace
    /\ helper[p] = "alive" => DOMAIN known[p] \cap (present \ out) \subseteq DOMAIN known'[p]
    /\ \A e \in DOMAIN known'[p] : e # d => e \in DOMAIN known[p] /\ known'[p][e] = known[p][e]
    /\ DOMAIN known'[p] \subseteq present
    /\ d \in DOMAIN known'[p] => known'[p][d] = now + Grace
    /\ Fewer(planned', planned, out)
    /\ UNCHANGED <<now, prog, swept, owner, taken>>

\* What the worker then holds.
Retained(p, d, all, out) ==
    /\ Len(all) = Len(kept[p]) + 1 /\ \A i \in 1..Len(kept[p]) : all[i] = kept[p][i]
    /\ all[Len(all)] = [dir |-> d, until |-> now + Grace]
    /\ kept' = [kept EXCEPT ![p] = IF Len(all) > MaxRetained THEN Tail(all) ELSE all]
    /\ out = IF Len(all) > MaxRetained THEN {Head(all).dir} ELSE {}

LEMMA EndsDrag ==
    ASSUME TypeOK, Held, NEW p \in Programs, NEW d \in Dirs, EndDrag(p, d)
    PROVE  \E all \in Seq(Exports), out \in SUBSET Dirs :
              Ending(p, d, out) /\ Retained(p, d, all, out)
<1> DEFINE all == Append(kept[p], [dir |-> d, until |-> now + Grace])
           out == IF Len(all) > MaxRetained THEN {Head(all).dir} ELSE {}
<1>1. [dir |-> d, until |-> now + Grace] \in Exports
    BY TypesSplit, Constants DEF Processes, Exports
<1>2. kept[p] \in Seq(Exports)
    BY TypesSplit DEF Holding, Exports
<1>3. all \in Seq(Exports) /\ all # <<>>
    <2> HIDE DEF out
    <2> QED
        BY <1>1, <1>2, AppendProperties
<1>4. Head(all).dir \in Dirs
    BY <1>3, OldestHeld
<1>5. out \in SUBSET Dirs
    <2> HIDE DEF all
    <2> QED
        BY <1>4
<1>6. /\ kept' = [kept EXCEPT ![p] = IF Len(all) > MaxRetained THEN Tail(all) ELSE all]
      /\ use' = [e \in Dirs |-> IF e \in out THEN "over" ELSE IF e = d THEN "kept" ELSE use[e]]
      /\ RemoveDirs(out) /\ evicted' = evicted \cup {e \in out : Needed(e)}
      /\ known' = [Told(p, d, Grace) EXCEPT ![p] = Restrict(@, DOMAIN @ \cap (present \ out))]
      /\ planned' = Without(planned, out)
    BY Zenon DEF EndDrag
<1> HIDE DEF out, all
<1>7. Informed(Told(p, d, Grace), p, d, now + Grace)
    BY ToldOne, Constants
<1>8. /\ Plans(known') /\ \A q \in Programs \ {p} : known'[q] = known[q]
      /\ DOMAIN known'[p] = DOMAIN Told(p, d, Grace)[p] \cap (present \ out)
      /\ \A e \in DOMAIN known'[p] : known'[p][e] = Told(p, d, Grace)[p][e]
    BY <1>6, <1>7 DEF Informed, Plans, Restrict
<1>9. Fewer(planned', planned, out)
    BY <1>6, WithoutGone, TypesSplit
<1>10. /\ Len(kept[p]) \in Nat /\ Len(all) = Len(kept[p]) + 1
       /\ \A i \in 1..Len(kept[p]) : all[i] = kept[p][i]
       /\ all[Len(all)] = [dir |-> d, until |-> now + Grace]
    BY <1>1, <1>2, AppendProperties, LenProperties DEF all
<1>11. \A e \in out : owner[e] = p /\ (e = d \/ use[e] = "kept")
    <2>1. ASSUME NEW e \in out PROVE e = all[1].dir
        BY <1>3, OldestHeld DEF out
    <2>2. CASE Len(kept[p]) = 0
        <3>1. all[1].dir = d
            BY <1>10, <2>2
        <3> QED
            BY <2>1, <3>1 DEF EndDrag
    <2>3. CASE Len(kept[p]) > 0
        <3>1. all[1] = kept[p][1] /\ 1 \in 1..Len(kept[p])
            BY <1>10, <2>3
        <3> QED
            BY <2>1, <3>1 DEF Held
    <2> QED
        BY <1>10, <2>2, <2>3
<1>12. Ending(p, d, out)
    <2>1. /\ Running(p) /\ owner[d] = p /\ use[d] = "drag"
          /\ helper' = [helper EXCEPT ![p] = "alive"]
          /\ promised' = [promised EXCEPT ![d] = now + Grace]
          /\ UNCHANGED <<now, prog, swept, owner, taken>>
        BY DEF EndDrag, Register
    <2>2. /\ d \in present \ out => d \in DOMAIN known'[p] /\ known'[p][d] = now + Grace
          /\ helper[p] = "alive" => DOMAIN known[p] \cap (present \ out) \subseteq DOMAIN known'[p]
          /\ \A e \in DOMAIN known'[p] : e # d => e \in DOMAIN known[p] /\ known'[p][e] = known[p][e]
          /\ DOMAIN known'[p] \subseteq present
          /\ d \in DOMAIN known'[p] => known'[p][d] = now + Grace
        BY <1>7, <1>8 DEF Informed
    <2> QED
        BY <1>5, <1>6, <1>8, <1>9, <1>11, <2>1, <2>2 DEF Ending
<1>13. Retained(p, d, all, out)
    BY <1>6, <1>10 DEF Retained, out
<1> QED
    BY <1>3, <1>5, <1>12, <1>13

LEMMA HeldDirs ==
    ASSUME TypeOK, NEW p \in Programs
    PROVE  /\ Len(kept[p]) \in Nat
           /\ \A i \in 1..Len(kept[p]) : kept[p][i].dir \in Dirs /\ kept[p][i].until \in Nat
<1>1. kept[p] \in Seq(Exports)
    BY TypesSplit DEF Holding, Exports
<1>2. Len(kept[p]) \in Nat /\ \A i \in 1..Len(kept[p]) : kept[p][i] \in Exports
    BY <1>1, LenProperties
<1> QED
    BY <1>2 DEF Exports

\* A directory is removed by a thread or a helper when its time has come, or
\* by its program.
Removing(d) ==
    /\ d \in Dirs /\ RemoveDirs({d})
    /\ Fewer(known', known, {d}) /\ Fewer(planned', planned, {d})
    /\ UNCHANGED <<now, prog, helper, swept, owner, promised, evicted>>

LEMMA WorkerRemoves ==
    ASSUME TypeOK, Held, NEW p \in Programs, Expire(p)
    PROVE  \E d \in Dirs :
              /\ Removing(d) /\ d = kept[p][1].dir /\ kept[p][1].until <= now /\ Len(kept[p]) > 0
              /\ owner[d] = p /\ use[d] = "kept" /\ promised[d] <= now
              /\ use' = [use EXCEPT ![d] = "over"] /\ taken' = taken
              /\ kept' = [kept EXCEPT ![p] = Tail(@)]
<1> DEFINE d == Head(kept[p]).dir
<1>1. kept[p] \in Seq(Exports) /\ kept[p] # <<>>
    BY TypesSplit DEF Holding, Exports, Expire
<1>2. Head(kept[p]) \in Exports /\ Head(kept[p]) = kept[p][1] /\ Len(kept[p]) \in Nat \ {0}
    BY <1>1, OldestHeld, HeadTailProperties DEF Exports
<1>3. d \in Dirs
    BY <1>1, OldestHeld
<1>4. /\ Head(kept[p]).until <= now
      /\ use' = [use EXCEPT ![d] = "over"] /\ RemoveDirs({d})
      /\ known' = Without(known, {d}) /\ planned' = Without(planned, {d})
      /\ kept' = [kept EXCEPT ![p] = Tail(@)] /\ taken' = taken
      /\ UNCHANGED <<now, prog, helper, swept, owner, promised, evicted>>
    BY DEF Expire
<1>5. owner[d] = p /\ use[d] = "kept" /\ promised[d] <= Head(kept[p]).until
    BY <1>2 DEF Held
<1>6. promised[d] <= now
    BY <1>1, <1>3, <1>4, <1>5, OldestHeld, TypesSplit DEF Catalogue, Processes
<1> HIDE DEF d
<1>7. Fewer(known', known, {d}) /\ Fewer(planned', planned, {d})
    BY <1>4, WithoutGone, TypesSplit
<1>8. Removing(d)
    BY <1>3, <1>4, <1>7 DEF Removing
<1>9. d = kept[p][1].dir
    BY <1>2 DEF d
<1>10. kept[p][1].until <= now /\ Len(kept[p]) > 0
    BY <1>2, <1>4
<1> QED
    BY <1>3, <1>4, <1>5, <1>6, <1>8, <1>9, <1>10

LEMMA ProgramRemoves ==
    ASSUME TypeOK, NEW p \in Programs, NEW d \in Dirs, Done(p, d)
    PROVE  /\ Removing(d) /\ Running(p) /\ owner[d] = p /\ use[d] \in {"drag", "clipboard", "work"}
           /\ use' = [use EXCEPT ![d] = "over"] /\ UNCHANGED <<kept, taken>>
<1>1. Fewer(known', known, {d}) /\ Fewer(planned', planned, {d})
    BY WithoutGone, TypesSplit DEF Done
<1> QED
    BY <1>1 DEF Done, Removing

LEMMA ThreadRemoves ==
    ASSUME TypeOK, NEW p \in Programs, Planned(p)
    PROVE  \E d \in DOMAIN planned[p] :
              /\ Removing(d) /\ Running(p) /\ planned[p][d] <= now /\ Take(p, {d})
              /\ UNCHANGED <<use, kept>>
<1>1. PICK d \in DOMAIN planned[p] :
          /\ Running(p) /\ planned[p][d] <= now /\ RemoveDirs({d}) /\ Take(p, {d})
          /\ known' = Without(known, {d}) /\ planned' = Without(planned, {d})
          /\ UNCHANGED <<now, prog, helper, kept, swept, owner, use, promised, evicted>>
    BY DEF Planned
<1>2. Fewer(known', known, {d}) /\ Fewer(planned', planned, {d})
    BY <1>1, WithoutGone, TypesSplit
<1>3. d \in Dirs
    BY TypesSplit DEF Plans
<1>4. Removing(d)
    BY <1>1, <1>2, <1>3 DEF Removing
<1> QED
    BY <1>1, <1>4

LEMMA HelperRemoves ==
    ASSUME TypeOK, NEW p \in Programs, Help(p)
    PROVE  \E d \in DOMAIN known[p] :
              /\ Removing(d) /\ helper[p] = "alive" /\ prog[p] = "ended" /\ known[p][d] <= now
              /\ Take(p, {d}) /\ UNCHANGED <<use, kept>>
<1>1. PICK d \in DOMAIN known[p] :
          /\ helper[p] = "alive" /\ prog[p] = "ended" /\ known[p][d] <= now
          /\ RemoveDirs({d}) /\ Take(p, {d})
          /\ known' = Without(known, {d}) /\ planned' = Without(planned, {d})
          /\ UNCHANGED <<now, prog, helper, kept, swept, owner, use, promised, evicted>>
    BY DEF Help
<1>2. Fewer(known', known, {d}) /\ Fewer(planned', planned, {d})
    BY <1>1, WithoutGone, TypesSplit
<1>3. d \in Dirs
    BY TypesSplit DEF Plans
<1>4. Removing(d)
    BY <1>1, <1>2, <1>3 DEF Removing
<1> QED
    BY <1>1, <1>4

\* A program makes a directory.
New(p, d, purpose) ==
    /\ Running(p) /\ owner[d] = None /\ use[d] = "none" /\ promised[d] = 0 /\ d \notin present
    /\ owner' = [owner EXCEPT ![d] = p] /\ use' = [use EXCEPT ![d] = purpose]

LEMMA Makes ==
    ASSUME Made, NEW p \in Programs, NEW d \in Dirs, NEW purpose, Make(p, d, purpose)
    PROVE  New(p, d, purpose)
BY DEF Made, Make, New

\* A launch removes what is old and plans the removal of what is not.
Launching(p, old, plan) ==
    /\ prog[p] = "none" /\ prog' = [prog EXCEPT ![p] = "running"] /\ old \subseteq present
    /\ present' = present \ old
    /\ changed' = [d \in Dirs |-> IF d \in old THEN 0 ELSE changed[d]]
    /\ Take(p, old) /\ excused' = {}
    /\ DOMAIN plan = present \ old
    /\ Plans(planned') /\ planned'[p] = plan
    /\ \A q \in Programs \ {p} : DOMAIN planned'[q] \subseteq DOMAIN planned[q]
    /\ Plans(known') /\ known'[p] = plan
    /\ \A q \in Programs \ {p} :
          /\ DOMAIN known'[q] \subseteq DOMAIN known[q]
          /\ \A d \in DOMAIN known'[q] : known'[q][d] = known[q][d]
    /\ helper' = [helper EXCEPT ![p] = IF present \ old = {} THEN "none" ELSE "alive"]
    /\ UNCHANGED <<now, kept, swept, owner, use, promised, evicted>>

LEMMA LaunchParts ==
    ASSUME TypeOK, NEW p \in Programs, Launch(p)
    PROVE  \E old, plan : Launching(p, old, plan)
<1> DEFINE old == {d \in present : Remaining(d) = 0}
           plan == [d \in present \ old |-> now + Remaining(d)]
<1>1. /\ prog[p] = "none" /\ prog' = [prog EXCEPT ![p] = "running"] /\ present' = present \ old
      /\ changed' = [d \in Dirs |-> IF d \in old THEN 0 ELSE changed[d]]
      /\ Take(p, old) /\ excused' = {}
      /\ planned' = [Without(planned, old) EXCEPT ![p] = plan]
      /\ known' = [Without(known, old) EXCEPT ![p] = plan]
      /\ helper' = [helper EXCEPT ![p] = IF present \ old = {} THEN "none" ELSE "alive"]
      /\ UNCHANGED <<now, kept, swept, owner, use, promised, evicted>>
    BY Zenon DEF Launch
<1>2. \A d \in Dirs : Remaining(d) \in Nat
    BY TypesSplit, Constants DEF Remaining, Age, Catalogue, Processes
<1>3. /\ DOMAIN plan = present \ old /\ DOMAIN plan \subseteq Dirs
      /\ \A d \in DOMAIN plan : plan[d] \in Nat
    BY <1>2, TypesSplit DEF Catalogue, Processes
<1>4. old \subseteq present
    OBVIOUS
<1> HIDE DEF old, plan
<1>5. Fewer(Without(planned, old), planned, old) /\ Fewer(Without(known, old), known, old)
    BY WithoutGone, TypesSplit
<1>6. /\ Plans(planned') /\ planned'[p] = plan
      /\ \A q \in Programs \ {p} : DOMAIN planned'[q] \subseteq DOMAIN planned[q]
    BY <1>1, <1>3, <1>5 DEF Fewer, Plans
<1>7. /\ Plans(known') /\ known'[p] = plan
      /\ \A q \in Programs \ {p} :
            /\ DOMAIN known'[q] \subseteq DOMAIN known[q]
            /\ \A d \in DOMAIN known'[q] : known'[q][d] = known[q][d]
    BY <1>1, <1>3, <1>5 DEF Fewer, Plans
<1>8. Launching(p, old, plan)
    BY <1>1, <1>3, <1>4, <1>6, <1>7 DEF Launching
<1> QED
    BY <1>8

\* A program whose window is closed takes its clipboard along, and its plans.
Quitting(p, clips) ==
    /\ Running(p) /\ Ended(p) /\ RemoveDirs(clips)
    /\ clips = {d \in Dirs : owner[d] = p /\ use[d] = "clipboard"}
    /\ Fewer(known', known, clips) /\ Plans(planned') /\ DOMAIN planned'[p] = {}
    /\ \A q \in Programs \ {p} : DOMAIN planned'[q] \subseteq DOMAIN planned[q]
    /\ use' = [d \in Dirs |-> IF d \in clips THEN "over"
                              ELSE IF owner[d] = p /\ use[d] = "kept" THEN "drag" ELSE use[d]]
    /\ UNCHANGED <<now, helper, swept, owner, promised, taken, evicted>>

LEMMA Quits ==
    ASSUME TypeOK, NEW p \in Programs, Quit(p)
    PROVE  \E clips : Quitting(p, clips)
<1> DEFINE clips == {d \in Dirs : owner[d] = p /\ use[d] = "clipboard"}
<1>1. /\ Running(p) /\ Ended(p) /\ RemoveDirs(clips) /\ known' = Without(known, clips)
      /\ planned' = [Without(planned, clips) EXCEPT ![p] = Empty]
      /\ use' = [d \in Dirs |-> IF d \in clips THEN "over"
                                ELSE IF owner[d] = p /\ use[d] = "kept" THEN "drag" ELSE use[d]]
      /\ UNCHANGED <<now, helper, swept, owner, promised, taken, evicted>>
    BY Zenon DEF Quit
<1> HIDE DEF clips
<1>2. Fewer(known', known, clips) /\ Fewer(Without(planned, clips), planned, clips)
    BY <1>1, WithoutGone, TypesSplit
<1>3. /\ Plans(planned') /\ DOMAIN planned'[p] = {}
      /\ \A q \in Programs \ {p} : DOMAIN planned'[q] \subseteq DOMAIN planned[q]
    BY <1>1, <1>2 DEF Fewer, Plans, Empty
<1>4. Quitting(p, clips)
    BY <1>1, <1>2, <1>3 DEF Quitting, clips
<1> QED
    BY <1>4

\* One that dies leaves everything.
LEMMA Dies ==
    ASSUME TypeOK, NEW p \in Programs, Die(p)
    PROVE  /\ Plans(planned') /\ DOMAIN planned'[p] = {}
           /\ \A q \in Programs \ {p} : DOMAIN planned'[q] \subseteq DOMAIN planned[q]
BY TypesSplit DEF Die, Plans, Empty

----------------------------------------------------------------------------
(* One lemma per part of the invariant.                                    *)

\* Who has made a directory has been launched.
LEMMA MadeKept ==
    TypeOK /\ Held /\ Made /\ [Next]_vars => Made'
<1> SUFFICES ASSUME TypeOK, Held, Made, [Next]_vars
             PROVE  Made'
    OBVIOUS
<1>1. ASSUME NEW p \in Programs, Launch(p) PROVE Made'
    <2>1. PICK old, plan : Launching(p, old, plan)
        BY <1>1, LaunchParts
    <2> QED
        BY <2>1, TypesSplit, Constants
        DEF Launching, Take, Made, Catalogue, Processes, Running
<1>2. ASSUME NEW p \in Programs, Expire(p) PROVE Made'
    <2>1. PICK d \in Dirs :
              /\ Removing(d) /\ d = kept[p][1].dir /\ kept[p][1].until <= now /\ Len(kept[p]) > 0
              /\ owner[d] = p /\ use[d] = "kept" /\ promised[d] <= now
              /\ use' = [use EXCEPT ![d] = "over"] /\ taken' = taken
              /\ kept' = [kept EXCEPT ![p] = Tail(@)]
        BY <1>2, WorkerRemoves
    <2> QED
        BY <2>1, TypesSplit, Constants
        DEF Removing, Fewer, RemoveDirs, Made, Catalogue, Processes, Running
<1>3. ASSUME NEW p \in Programs, Planned(p) PROVE Made'
    <2>1. PICK d \in DOMAIN planned[p] :
              /\ Removing(d) /\ Running(p) /\ planned[p][d] <= now /\ Take(p, {d})
              /\ UNCHANGED <<use, kept>>
        BY <1>3, ThreadRemoves
    <2> QED
        BY <2>1, TypesSplit, Constants
        DEF Removing, Fewer, RemoveDirs, Made, Catalogue, Processes, Running
<1>4. ASSUME NEW p \in Programs, Quit(p) PROVE Made'
    <2>1. PICK clips : Quitting(p, clips)
        BY <1>4, Quits
    <2> QED
        BY <2>1, TypesSplit, Constants
        DEF Quitting, Ended, RemoveDirs, Fewer, Made, Catalogue, Processes, Running
<1>5. ASSUME NEW p \in Programs, Die(p) PROVE Made'
    BY <1>5, TypesSplit, Constants, Dies
    DEF Die, Ended, Made, Catalogue, Processes, Running
<1>6. ASSUME NEW p \in Programs, Help(p) PROVE Made'
    <2>1. PICK d \in DOMAIN known[p] :
              /\ Removing(d) /\ helper[p] = "alive" /\ prog[p] = "ended" /\ known[p][d] <= now
              /\ Take(p, {d}) /\ UNCHANGED <<use, kept>>
        BY <1>6, HelperRemoves
    <2> QED
        BY <2>1, TypesSplit, Constants
        DEF Removing, Fewer, RemoveDirs, Made, Catalogue, Processes, Running
<1>7. ASSUME NEW p \in Programs, HelperDies(p) PROVE Made'
    BY <1>7, TypesSplit, Constants DEF HelperDies, Made, Catalogue, Processes,
                                       Running
<1>8. ASSUME NEW p \in Programs, NEW d \in Dirs, StartDrag(p, d) PROVE Made'
    <2>1. New(p, d, "drag")
        BY <1>8, Makes DEF StartDrag
    <2>2. Informed(known', p, d, now + Unconfirmed)
        BY <1>8, ToldOne, Constants DEF StartDrag
    <2> QED
        BY <2>1, <2>2, <1>8, TypesSplit, Constants
        DEF Informed, New, StartDrag, Register, Made, Catalogue, Processes,
            Running
<1>9. ASSUME NEW p \in Programs, NEW d \in Dirs, Stage(p, d) PROVE Made'
    BY <1>9, TypesSplit, Constants DEF Stage, Made, Catalogue, Processes,
                                       Running
<1>10. ASSUME NEW p \in Programs, NEW d \in Dirs, EndDrag(p, d) PROVE Made'
    <2>1. PICK all \in Seq(Exports), out \in SUBSET Dirs :
              Ending(p, d, out) /\ Retained(p, d, all, out)
        BY <1>10, EndsDrag
    <2> QED
        BY <2>1, TypesSplit, Constants
        DEF Ending, Fewer, RemoveDirs, Made, Catalogue, Processes, Running
<1>11. ASSUME NEW p \in Programs, NEW d \in Dirs, Done(p, d) PROVE Made'
    <2>1. /\ Removing(d) /\ Running(p) /\ owner[d] = p /\ use[d] \in {"drag", "clipboard", "work"}
          /\ use' = [use EXCEPT ![d] = "over"] /\ UNCHANGED <<kept, taken>>
        BY <1>11, ProgramRemoves
    <2> QED
        BY <2>1, TypesSplit, Constants
        DEF Removing, Fewer, RemoveDirs, Made, Catalogue, Processes, Running
<1>12. ASSUME NEW p \in Programs, NEW d \in Dirs, Copy(p, d) PROVE Made'
    <2>1. New(p, d, "clipboard")
        BY <1>12, Makes DEF Copy
    <2> QED
        BY <2>1, <1>12, TypesSplit, Constants
        DEF New, Copy, Register, Made, Catalogue, Processes, Running
<1>13. ASSUME NEW p \in Programs, NEW d \in Dirs, Compile(p, d) PROVE Made'
    <2>1. New(p, d, "work")
        BY <1>13, Makes DEF Compile
    <2>2. Informed(known', p, d, now + 0)
        BY <1>13, ToldOne, Constants
        DEF Compile
    <2> QED
        BY <2>1, <2>2, <1>13, TypesSplit, Constants
        DEF Informed, New, Compile, Register, Made, Catalogue, Processes,
            Running
<1>14. CASE Tick
    BY <1>14, TypesSplit, Constants DEF Tick, Made, Catalogue, Processes,
                                        Running
<1>15. CASE UNCHANGED vars
    BY <1>15 DEF vars, Made, Catalogue, Processes, Running
<1> QED
    BY <1>1, <1>2, <1>3, <1>4, <1>5, <1>6, <1>7, <1>8, <1>9, <1>10, <1>11,
       <1>12, <1>13, <1>14, <1>15 DEF Next

\* The first drag of a program looks for ancient directories.
LEMMA SweptFirstKept ==
    TypeOK /\ Held /\ Made /\ SweptFirst /\ [Next]_vars => SweptFirst'
<1> SUFFICES ASSUME TypeOK, Held, Made, SweptFirst, [Next]_vars
             PROVE  SweptFirst'
    OBVIOUS
<1>1. ASSUME NEW p \in Programs, Launch(p) PROVE SweptFirst'
    <2>1. PICK old, plan : Launching(p, old, plan)
        BY <1>1, LaunchParts
    <2> QED
        BY <2>1, TypesSplit DEF Launching, Take, SweptFirst, Made, Catalogue,
                                Processes, Running
<1>2. ASSUME NEW p \in Programs, Expire(p) PROVE SweptFirst'
    <2>1. PICK d \in Dirs :
              /\ Removing(d) /\ d = kept[p][1].dir /\ kept[p][1].until <= now /\ Len(kept[p]) > 0
              /\ owner[d] = p /\ use[d] = "kept" /\ promised[d] <= now
              /\ use' = [use EXCEPT ![d] = "over"] /\ taken' = taken
              /\ kept' = [kept EXCEPT ![p] = Tail(@)]
        BY <1>2, WorkerRemoves
    <2> QED
        BY <2>1, TypesSplit DEF Removing, Fewer, RemoveDirs, SweptFirst, Made,
                                Catalogue, Processes, Running
<1>3. ASSUME NEW p \in Programs, Planned(p) PROVE SweptFirst'
    <2>1. PICK d \in DOMAIN planned[p] :
              /\ Removing(d) /\ Running(p) /\ planned[p][d] <= now /\ Take(p, {d})
              /\ UNCHANGED <<use, kept>>
        BY <1>3, ThreadRemoves
    <2> QED
        BY <2>1, TypesSplit DEF Removing, Fewer, RemoveDirs, SweptFirst, Made,
                                Catalogue, Processes, Running
<1>4. ASSUME NEW p \in Programs, Quit(p) PROVE SweptFirst'
    <2>1. PICK clips : Quitting(p, clips)
        BY <1>4, Quits
    <2> QED
        BY <2>1, TypesSplit DEF Quitting, Ended, RemoveDirs, Fewer, SweptFirst,
                                Made, Catalogue, Processes, Running
<1>5. ASSUME NEW p \in Programs, Die(p) PROVE SweptFirst'
    BY <1>5, TypesSplit, Dies DEF Die, Ended, SweptFirst, Made, Catalogue,
                                  Processes, Running
<1>6. ASSUME NEW p \in Programs, Help(p) PROVE SweptFirst'
    <2>1. PICK d \in DOMAIN known[p] :
              /\ Removing(d) /\ helper[p] = "alive" /\ prog[p] = "ended" /\ known[p][d] <= now
              /\ Take(p, {d}) /\ UNCHANGED <<use, kept>>
        BY <1>6, HelperRemoves
    <2> QED
        BY <2>1, TypesSplit DEF Removing, Fewer, RemoveDirs, SweptFirst, Made,
                                Catalogue, Processes, Running
<1>7. ASSUME NEW p \in Programs, HelperDies(p) PROVE SweptFirst'
    BY <1>7, TypesSplit DEF HelperDies, SweptFirst, Made, Catalogue, Processes,
                            Running
<1>8. ASSUME NEW p \in Programs, NEW d \in Dirs, StartDrag(p, d)
      PROVE  SweptFirst'
    <2>1. New(p, d, "drag")
        BY <1>8, Makes DEF StartDrag
    <2>2. Informed(known', p, d, now + Unconfirmed)
        BY <1>8, ToldOne, Constants DEF StartDrag
    <2> QED
        BY <2>1, <2>2, <1>8, TypesSplit
        DEF Informed, New, StartDrag, Register, SweptFirst, Made, Catalogue,
            Processes, Running
<1>9. ASSUME NEW p \in Programs, NEW d \in Dirs, Stage(p, d) PROVE SweptFirst'
    BY <1>9, TypesSplit DEF Stage, SweptFirst, Made, Catalogue, Processes,
                            Running
<1>10. ASSUME NEW p \in Programs, NEW d \in Dirs, EndDrag(p, d)
      PROVE  SweptFirst'
    <2>1. PICK all \in Seq(Exports), out \in SUBSET Dirs :
              Ending(p, d, out) /\ Retained(p, d, all, out)
        BY <1>10, EndsDrag
    <2> QED
        BY <2>1, TypesSplit DEF Ending, Fewer, RemoveDirs, SweptFirst, Made,
                                Catalogue, Processes, Running
<1>11. ASSUME NEW p \in Programs, NEW d \in Dirs, Done(p, d) PROVE SweptFirst'
    <2>1. /\ Removing(d) /\ Running(p) /\ owner[d] = p /\ use[d] \in {"drag", "clipboard", "work"}
          /\ use' = [use EXCEPT ![d] = "over"] /\ UNCHANGED <<kept, taken>>
        BY <1>11, ProgramRemoves
    <2> QED
        BY <2>1, TypesSplit DEF Removing, Fewer, RemoveDirs, SweptFirst, Made,
                                Catalogue, Processes, Running
<1>12. ASSUME NEW p \in Programs, NEW d \in Dirs, Copy(p, d) PROVE SweptFirst'
    <2>1. New(p, d, "clipboard")
        BY <1>12, Makes DEF Copy
    <2> QED
        BY <2>1, <1>12, TypesSplit DEF New, Copy, Register, SweptFirst, Made,
                                       Catalogue, Processes, Running
<1>13. ASSUME NEW p \in Programs, NEW d \in Dirs, Compile(p, d)
      PROVE  SweptFirst'
    <2>1. New(p, d, "work")
        BY <1>13, Makes DEF Compile
    <2>2. Informed(known', p, d, now + 0)
        BY <1>13, ToldOne, Constants
        DEF Compile
    <2> QED
        BY <2>1, <2>2, <1>13, TypesSplit
        DEF Informed, New, Compile, Register, SweptFirst, Made, Catalogue,
            Processes, Running
<1>14. CASE Tick
    BY <1>14, TypesSplit DEF Tick, SweptFirst, Made, Catalogue, Processes,
                             Running
<1>15. CASE UNCHANGED vars
    BY <1>15 DEF vars, SweptFirst, Made, Catalogue, Processes, Running
<1> QED
    BY <1>1, <1>2, <1>3, <1>4, <1>5, <1>6, <1>7, <1>8, <1>9, <1>10, <1>11,
       <1>12, <1>13, <1>14, <1>15 DEF Next

\* Only a drag that ends makes a promise, and then the worker holds it.
LEMMA HeldIfPromisedKept ==
    TypeOK /\ Held /\ Made /\ HeldIfPromised /\ [Next]_vars => HeldIfPromised'
<1> SUFFICES ASSUME TypeOK, Held, Made, HeldIfPromised, [Next]_vars
             PROVE  HeldIfPromised'
    OBVIOUS
<1>1. ASSUME NEW p \in Programs, Launch(p) PROVE HeldIfPromised'
    <2>1. PICK old, plan : Launching(p, old, plan)
        BY <1>1, LaunchParts
    <2> QED
        BY <2>1, TypesSplit DEF Launching, Take, HeldIfPromised, Made,
                                Catalogue, Processes, Running
<1>2. ASSUME NEW p \in Programs, Expire(p) PROVE HeldIfPromised'
    <2>1. PICK d \in Dirs :
              /\ Removing(d) /\ d = kept[p][1].dir /\ kept[p][1].until <= now /\ Len(kept[p]) > 0
              /\ owner[d] = p /\ use[d] = "kept" /\ promised[d] <= now
              /\ use' = [use EXCEPT ![d] = "over"] /\ taken' = taken
              /\ kept' = [kept EXCEPT ![p] = Tail(@)]
        BY <1>2, WorkerRemoves
    <2> QED
        BY <2>1, TypesSplit DEF Removing, Fewer, RemoveDirs, HeldIfPromised, Made,
                                Catalogue, Processes, Running
<1>3. ASSUME NEW p \in Programs, Planned(p) PROVE HeldIfPromised'
    <2>1. PICK d \in DOMAIN planned[p] :
              /\ Removing(d) /\ Running(p) /\ planned[p][d] <= now /\ Take(p, {d})
              /\ UNCHANGED <<use, kept>>
        BY <1>3, ThreadRemoves
    <2> QED
        BY <2>1, TypesSplit DEF Removing, Fewer, RemoveDirs, HeldIfPromised, Made,
                                Catalogue, Processes, Running
<1>4. ASSUME NEW p \in Programs, Quit(p) PROVE HeldIfPromised'
    <2>1. PICK clips : Quitting(p, clips)
        BY <1>4, Quits
    <2> QED
        BY <2>1, TypesSplit DEF Quitting, Ended, RemoveDirs, Fewer, HeldIfPromised,
                                Made, Catalogue, Processes, Running
<1>5. ASSUME NEW p \in Programs, Die(p) PROVE HeldIfPromised'
    BY <1>5, TypesSplit, Dies DEF Die, Ended, HeldIfPromised, Made, Catalogue,
                                  Processes, Running
<1>6. ASSUME NEW p \in Programs, Help(p) PROVE HeldIfPromised'
    <2>1. PICK d \in DOMAIN known[p] :
              /\ Removing(d) /\ helper[p] = "alive" /\ prog[p] = "ended" /\ known[p][d] <= now
              /\ Take(p, {d}) /\ UNCHANGED <<use, kept>>
        BY <1>6, HelperRemoves
    <2> QED
        BY <2>1, TypesSplit DEF Removing, Fewer, RemoveDirs, HeldIfPromised, Made,
                                Catalogue, Processes, Running
<1>7. ASSUME NEW p \in Programs, HelperDies(p) PROVE HeldIfPromised'
    BY <1>7, TypesSplit DEF HelperDies, HeldIfPromised, Made, Catalogue,
                            Processes, Running
<1>8. ASSUME NEW p \in Programs, NEW d \in Dirs, StartDrag(p, d)
      PROVE  HeldIfPromised'
    <2>1. New(p, d, "drag")
        BY <1>8, Makes DEF StartDrag
    <2>2. Informed(known', p, d, now + Unconfirmed)
        BY <1>8, ToldOne, Constants DEF StartDrag
    <2> QED
        BY <2>1, <2>2, <1>8, TypesSplit
        DEF Informed, New, StartDrag, Register, HeldIfPromised, Made,
            Catalogue, Processes, Running
<1>9. ASSUME NEW p \in Programs, NEW d \in Dirs, Stage(p, d)
      PROVE  HeldIfPromised'
    BY <1>9, TypesSplit DEF Stage, HeldIfPromised, Made, Catalogue, Processes,
                            Running
<1>10. ASSUME NEW p \in Programs, NEW d \in Dirs, EndDrag(p, d)
      PROVE  HeldIfPromised'
    <2>1. PICK all \in Seq(Exports), out \in SUBSET Dirs :
              Ending(p, d, out) /\ Retained(p, d, all, out)
        BY <1>10, EndsDrag
    <2> QED
        BY <2>1, TypesSplit DEF Ending, Fewer, RemoveDirs, HeldIfPromised, Made,
                                Catalogue, Processes, Running
<1>11. ASSUME NEW p \in Programs, NEW d \in Dirs, Done(p, d)
      PROVE  HeldIfPromised'
    <2>1. /\ Removing(d) /\ Running(p) /\ owner[d] = p /\ use[d] \in {"drag", "clipboard", "work"}
          /\ use' = [use EXCEPT ![d] = "over"] /\ UNCHANGED <<kept, taken>>
        BY <1>11, ProgramRemoves
    <2> QED
        BY <2>1, TypesSplit DEF Removing, Fewer, RemoveDirs, HeldIfPromised, Made,
                                Catalogue, Processes, Running
<1>12. ASSUME NEW p \in Programs, NEW d \in Dirs, Copy(p, d)
      PROVE  HeldIfPromised'
    <2>1. New(p, d, "clipboard")
        BY <1>12, Makes DEF Copy
    <2> QED
        BY <2>1, <1>12, TypesSplit DEF New, Copy, Register, HeldIfPromised,
                                       Made, Catalogue, Processes, Running
<1>13. ASSUME NEW p \in Programs, NEW d \in Dirs, Compile(p, d)
      PROVE  HeldIfPromised'
    <2>1. New(p, d, "work")
        BY <1>13, Makes DEF Compile
    <2>2. Informed(known', p, d, now + 0)
        BY <1>13, ToldOne, Constants
        DEF Compile
    <2> QED
        BY <2>1, <2>2, <1>13, TypesSplit
        DEF Informed, New, Compile, Register, HeldIfPromised, Made, Catalogue,
            Processes, Running
<1>14. CASE Tick
    BY <1>14, TypesSplit DEF Tick, HeldIfPromised, Made, Catalogue, Processes,
                             Running
<1>15. CASE UNCHANGED vars
    BY <1>15 DEF vars, HeldIfPromised, Made, Catalogue, Processes, Running
<1> QED
    BY <1>1, <1>2, <1>3, <1>4, <1>5, <1>6, <1>7, <1>8, <1>9, <1>10, <1>11,
       <1>12, <1>13, <1>14, <1>15 DEF Next

\* Leftovers of other programs are planned at launch.
LEMMA OthersPlannedKept ==
    TypeOK /\ Held /\ Made /\ OthersPlanned /\ [Next]_vars => OthersPlanned'
<1> SUFFICES ASSUME TypeOK, Held, Made, OthersPlanned, [Next]_vars
             PROVE  OthersPlanned'
    OBVIOUS
<1>1. ASSUME NEW p \in Programs, Launch(p) PROVE OthersPlanned'
    <2>1. PICK old, plan : Launching(p, old, plan)
        BY <1>1, LaunchParts
    <2> QED
        BY <2>1, TypesSplit DEF Launching, Take, OthersPlanned, Made,
                                Catalogue, Processes, Running, Plans
<1>2. ASSUME NEW p \in Programs, Expire(p) PROVE OthersPlanned'
    <2>1. PICK d \in Dirs :
              /\ Removing(d) /\ d = kept[p][1].dir /\ kept[p][1].until <= now /\ Len(kept[p]) > 0
              /\ owner[d] = p /\ use[d] = "kept" /\ promised[d] <= now
              /\ use' = [use EXCEPT ![d] = "over"] /\ taken' = taken
              /\ kept' = [kept EXCEPT ![p] = Tail(@)]
        BY <1>2, WorkerRemoves
    <2> QED
        BY <2>1, TypesSplit DEF Removing, Fewer, RemoveDirs, OthersPlanned, Made,
                                Catalogue, Processes, Running, Plans
<1>3. ASSUME NEW p \in Programs, Planned(p) PROVE OthersPlanned'
    <2>1. PICK d \in DOMAIN planned[p] :
              /\ Removing(d) /\ Running(p) /\ planned[p][d] <= now /\ Take(p, {d})
              /\ UNCHANGED <<use, kept>>
        BY <1>3, ThreadRemoves
    <2> QED
        BY <2>1, TypesSplit DEF Removing, Fewer, RemoveDirs, OthersPlanned, Made,
                                Catalogue, Processes, Running, Plans
<1>4. ASSUME NEW p \in Programs, Quit(p) PROVE OthersPlanned'
    <2>1. PICK clips : Quitting(p, clips)
        BY <1>4, Quits
    <2> QED
        BY <2>1, TypesSplit DEF Quitting, Ended, RemoveDirs, Fewer, OthersPlanned,
                                Made, Catalogue, Processes, Running, Plans
<1>5. ASSUME NEW p \in Programs, Die(p) PROVE OthersPlanned'
    BY <1>5, TypesSplit, Dies DEF Die, Ended, OthersPlanned, Made, Catalogue,
                                  Processes, Running, Plans
<1>6. ASSUME NEW p \in Programs, Help(p) PROVE OthersPlanned'
    <2>1. PICK d \in DOMAIN known[p] :
              /\ Removing(d) /\ helper[p] = "alive" /\ prog[p] = "ended" /\ known[p][d] <= now
              /\ Take(p, {d}) /\ UNCHANGED <<use, kept>>
        BY <1>6, HelperRemoves
    <2> QED
        BY <2>1, TypesSplit DEF Removing, Fewer, RemoveDirs, OthersPlanned, Made,
                                Catalogue, Processes, Running, Plans
<1>7. ASSUME NEW p \in Programs, HelperDies(p) PROVE OthersPlanned'
    BY <1>7, TypesSplit DEF HelperDies, OthersPlanned, Made, Catalogue,
                            Processes, Running, Plans
<1>8. ASSUME NEW p \in Programs, NEW d \in Dirs, StartDrag(p, d)
      PROVE  OthersPlanned'
    <2>1. New(p, d, "drag")
        BY <1>8, Makes DEF StartDrag
    <2>2. Informed(known', p, d, now + Unconfirmed)
        BY <1>8, ToldOne, Constants DEF StartDrag
    <2> QED
        BY <2>1, <2>2, <1>8, TypesSplit
        DEF Informed, New, StartDrag, Register, OthersPlanned, Made, Catalogue,
            Processes, Running, Plans
<1>9. ASSUME NEW p \in Programs, NEW d \in Dirs, Stage(p, d)
      PROVE  OthersPlanned'
    BY <1>9, TypesSplit DEF Stage, OthersPlanned, Made, Catalogue, Processes,
                            Running, Plans
<1>10. ASSUME NEW p \in Programs, NEW d \in Dirs, EndDrag(p, d)
      PROVE  OthersPlanned'
    <2>1. PICK all \in Seq(Exports), out \in SUBSET Dirs :
              Ending(p, d, out) /\ Retained(p, d, all, out)
        BY <1>10, EndsDrag
    <2> QED
        BY <2>1, TypesSplit DEF Ending, Fewer, RemoveDirs, OthersPlanned, Made,
                                Catalogue, Processes, Running, Plans
<1>11. ASSUME NEW p \in Programs, NEW d \in Dirs, Done(p, d)
      PROVE  OthersPlanned'
    <2>1. /\ Removing(d) /\ Running(p) /\ owner[d] = p /\ use[d] \in {"drag", "clipboard", "work"}
          /\ use' = [use EXCEPT ![d] = "over"] /\ UNCHANGED <<kept, taken>>
        BY <1>11, ProgramRemoves
    <2> QED
        BY <2>1, TypesSplit DEF Removing, Fewer, RemoveDirs, OthersPlanned, Made,
                                Catalogue, Processes, Running, Plans
<1>12. ASSUME NEW p \in Programs, NEW d \in Dirs, Copy(p, d)
      PROVE  OthersPlanned'
    <2>1. New(p, d, "clipboard")
        BY <1>12, Makes DEF Copy
    <2> QED
        BY <2>1, <1>12, TypesSplit DEF New, Copy, Register, OthersPlanned,
                                       Made, Catalogue, Processes, Running,
                                       Plans
<1>13. ASSUME NEW p \in Programs, NEW d \in Dirs, Compile(p, d)
      PROVE  OthersPlanned'
    <2>1. New(p, d, "work")
        BY <1>13, Makes DEF Compile
    <2>2. Informed(known', p, d, now + 0)
        BY <1>13, ToldOne, Constants
        DEF Compile
    <2> QED
        BY <2>1, <2>2, <1>13, TypesSplit
        DEF Informed, New, Compile, Register, OthersPlanned, Made, Catalogue,
            Processes, Running, Plans
<1>14. CASE Tick
    BY <1>14, TypesSplit DEF Tick, OthersPlanned, Made, Catalogue, Processes,
                             Running, Plans
<1>15. CASE UNCHANGED vars
    BY <1>15 DEF vars, OthersPlanned, Made, Catalogue, Processes, Running,
                 Plans
<1> QED
    BY <1>1, <1>2, <1>3, <1>4, <1>5, <1>6, <1>7, <1>8, <1>9, <1>10, <1>11,
       <1>12, <1>13, <1>14, <1>15 DEF Next

\* Every directory is known to a helper from the first, except those of the
\* clipboard, which go with their program.
LEMMA CoveredKept ==
    TypeOK /\ Held /\ Made /\ Covered /\ [Next]_vars => Covered'
<1> SUFFICES ASSUME TypeOK, Held, Made, Covered, [Next]_vars
             PROVE  Covered'
    OBVIOUS
<1>1. ASSUME NEW p \in Programs, Launch(p) PROVE Covered'
    <2>1. PICK old, plan : Launching(p, old, plan)
        BY <1>1, LaunchParts
    <2> QED
        BY <2>1, TypesSplit, Constants
        DEF Launching, Take, Covered, Catalogue, Processes, Running
<1>2. ASSUME NEW p \in Programs, Expire(p) PROVE Covered'
    <2>1. PICK d \in Dirs :
              /\ Removing(d) /\ d = kept[p][1].dir /\ kept[p][1].until <= now /\ Len(kept[p]) > 0
              /\ owner[d] = p /\ use[d] = "kept" /\ promised[d] <= now
              /\ use' = [use EXCEPT ![d] = "over"] /\ taken' = taken
              /\ kept' = [kept EXCEPT ![p] = Tail(@)]
        BY <1>2, WorkerRemoves
    <2>2. \A e \in present' :
              /\ e \in present /\ e # d /\ (e \in excused => e \in excused') /\ use'[e] = use[e]
              /\ \A q \in Programs : e \in DOMAIN known[q] => e \in DOMAIN known'[q]
        BY <2>1, TypesSplit DEF Removing, Fewer, RemoveDirs, Catalogue
    <2>3. UNCHANGED <<helper, owner, prog>>
        BY <2>1 DEF Removing
    <2> QED
        BY <2>2, <2>3 DEF Covered, Running
<1>3. ASSUME NEW p \in Programs, Planned(p) PROVE Covered'
    <2>1. PICK d \in DOMAIN planned[p] :
              /\ Removing(d) /\ Running(p) /\ planned[p][d] <= now /\ Take(p, {d})
              /\ UNCHANGED <<use, kept>>
        BY <1>3, ThreadRemoves
    <2>2. \A e \in present' :
              /\ e \in present /\ e # d /\ (e \in excused => e \in excused')
              /\ \A q \in Programs : e \in DOMAIN known[q] => e \in DOMAIN known'[q]
        BY <2>1, TypesSplit DEF Removing, Fewer, RemoveDirs, Catalogue
    <2>3. UNCHANGED <<helper, owner, prog, use>>
        BY <2>1 DEF Removing
    <2> QED
        BY <2>2, <2>3 DEF Covered, Running
<1>4. ASSUME NEW p \in Programs, Quit(p) PROVE Covered'
    <2>1. PICK clips : Quitting(p, clips)
        BY <1>4, Quits
    <2> QED
        BY <2>1, TypesSplit, Constants
        DEF Quitting, Ended, RemoveDirs, Fewer, Covered, Catalogue, Processes,
            Running
<1>5. ASSUME NEW p \in Programs, Die(p) PROVE Covered'
    BY <1>5, TypesSplit, Constants, Dies
    DEF Die, Ended, Covered, Catalogue, Processes, Running
<1>6. ASSUME NEW p \in Programs, Help(p) PROVE Covered'
    <2>1. PICK d \in DOMAIN known[p] :
              /\ Removing(d) /\ helper[p] = "alive" /\ prog[p] = "ended" /\ known[p][d] <= now
              /\ Take(p, {d}) /\ UNCHANGED <<use, kept>>
        BY <1>6, HelperRemoves
    <2>2. \A e \in present' :
              /\ e \in present /\ e # d /\ (e \in excused => e \in excused')
              /\ \A q \in Programs : e \in DOMAIN known[q] => e \in DOMAIN known'[q]
        BY <2>1, TypesSplit DEF Removing, Fewer, RemoveDirs, Catalogue
    <2>3. UNCHANGED <<helper, owner, prog, use>>
        BY <2>1 DEF Removing
    <2> QED
        BY <2>2, <2>3 DEF Covered, Running
<1>7. ASSUME NEW p \in Programs, HelperDies(p) PROVE Covered'
    BY <1>7, TypesSplit, Constants DEF HelperDies, Covered, Catalogue,
                                       Processes, Running
<1>8. ASSUME NEW p \in Programs, NEW d \in Dirs, StartDrag(p, d) PROVE Covered'
    <2>1. New(p, d, "drag")
        BY <1>8, Makes DEF StartDrag
    <2>2. Informed(known', p, d, now + Unconfirmed)
        BY <1>8, ToldOne, Constants DEF StartDrag
    <2> QED
        BY <2>1, <2>2, <1>8, TypesSplit, Constants
        DEF Informed, New, StartDrag, Register, Covered, Catalogue, Processes,
            Running
<1>9. ASSUME NEW p \in Programs, NEW d \in Dirs, Stage(p, d) PROVE Covered'
    BY <1>9, TypesSplit, Constants DEF Stage, Covered, Catalogue, Processes,
                                       Running
<1>10. ASSUME NEW p \in Programs, NEW d \in Dirs, EndDrag(p, d) PROVE Covered'
    <2>1. PICK all \in Seq(Exports), out \in SUBSET Dirs :
              Ending(p, d, out) /\ Retained(p, d, all, out)
        BY <1>10, EndsDrag
    <2> SUFFICES ASSUME NEW e \in present', e \notin excused'
                 PROVE  \/ \E q \in Programs : helper'[q] = "alive" /\ e \in DOMAIN known'[q]
                        \/ owner'[e] # None /\ Running(owner[e])' /\ use'[e] = "clipboard"
        BY DEF Covered
    <2>2. e \in present \ out /\ e \notin excused /\ e \in Dirs /\ helper'[p] = "alive"
        BY <2>1, TypesSplit DEF Ending, RemoveDirs, Catalogue, Processes
    <2>3. CASE e = d
        BY <2>1, <2>2, <2>3 DEF Ending
    <2>4. ASSUME e # d, NEW q \in Programs, helper[q] = "alive", e \in DOMAIN known[q]
          PROVE  helper'[q] = "alive" /\ e \in DOMAIN known'[q]
        <3>1. CASE q = p
            BY <2>1, <2>2, <2>4, <3>1 DEF Ending
        <3>2. CASE q # p
            BY <2>1, <2>4, <3>2, TypesSplit DEF Ending, Processes
        <3> QED
            BY <3>1, <3>2
    <2>5. ASSUME e # d, owner[e] # None /\ Running(owner[e]) /\ use[e] = "clipboard"
          PROVE  owner'[e] # None /\ Running(owner[e])' /\ use'[e] = "clipboard"
        BY <2>1, <2>2, <2>5 DEF Ending, Running
    <2> QED
        BY <2>2, <2>3, <2>4, <2>5 DEF Covered
<1>11. ASSUME NEW p \in Programs, NEW d \in Dirs, Done(p, d) PROVE Covered'
    <2>1. /\ Removing(d) /\ Running(p) /\ owner[d] = p /\ use[d] \in {"drag", "clipboard", "work"}
          /\ use' = [use EXCEPT ![d] = "over"] /\ UNCHANGED <<kept, taken>>
        BY <1>11, ProgramRemoves
    <2> QED
        BY <2>1, TypesSplit, Constants
        DEF Removing, Fewer, RemoveDirs, Covered, Catalogue, Processes, Running
<1>12. ASSUME NEW p \in Programs, NEW d \in Dirs, Copy(p, d) PROVE Covered'
    <2>1. New(p, d, "clipboard")
        BY <1>12, Makes DEF Copy
    <2> QED
        BY <2>1, <1>12, TypesSplit, Constants
        DEF New, Copy, Register, Covered, Catalogue, Processes, Running
<1>13. ASSUME NEW p \in Programs, NEW d \in Dirs, Compile(p, d) PROVE Covered'
    <2>1. New(p, d, "work")
        BY <1>13, Makes DEF Compile
    <2>2. Informed(known', p, d, now + 0)
        BY <1>13, ToldOne, Constants
        DEF Compile
    <2> QED
        BY <2>1, <2>2, <1>13, TypesSplit, Constants
        DEF Informed, New, Compile, Register, Covered, Catalogue, Processes,
            Running
<1>14. CASE Tick
    BY <1>14, TypesSplit, Constants DEF Tick, Covered, Catalogue, Processes,
                                        Running
<1>15. CASE UNCHANGED vars
    BY <1>15 DEF vars, Covered, Catalogue, Processes, Running
<1> QED
    BY <1>1, <1>2, <1>3, <1>4, <1>5, <1>6, <1>7, <1>8, <1>9, <1>10, <1>11,
       <1>12, <1>13, <1>14, <1>15 DEF Next

\* The helper learns of a promise when it is made.
LEMMA LateEnoughKept ==
    TypeOK /\ Held /\ Made /\ LateEnough /\ [Next]_vars => LateEnough'
<1> SUFFICES ASSUME TypeOK, Held, Made, LateEnough, [Next]_vars
             PROVE  LateEnough'
    OBVIOUS
<1>1. ASSUME NEW p \in Programs, Launch(p) PROVE LateEnough'
    <2>1. PICK old, plan : Launching(p, old, plan)
        BY <1>1, LaunchParts
    <2> QED
        BY <2>1, TypesSplit, Constants
        DEF Launching, Take, LateEnough, Made, Catalogue, Processes, Running,
            Plans
<1>2. ASSUME NEW p \in Programs, Expire(p) PROVE LateEnough'
    <2>1. PICK d \in Dirs :
              /\ Removing(d) /\ d = kept[p][1].dir /\ kept[p][1].until <= now /\ Len(kept[p]) > 0
              /\ owner[d] = p /\ use[d] = "kept" /\ promised[d] <= now
              /\ use' = [use EXCEPT ![d] = "over"] /\ taken' = taken
              /\ kept' = [kept EXCEPT ![p] = Tail(@)]
        BY <1>2, WorkerRemoves
    <2> QED
        BY <2>1, TypesSplit, Constants
        DEF Removing, Fewer, RemoveDirs, LateEnough, Made, Catalogue, Processes,
            Running, Plans
<1>3. ASSUME NEW p \in Programs, Planned(p) PROVE LateEnough'
    <2>1. PICK d \in DOMAIN planned[p] :
              /\ Removing(d) /\ Running(p) /\ planned[p][d] <= now /\ Take(p, {d})
              /\ UNCHANGED <<use, kept>>
        BY <1>3, ThreadRemoves
    <2> QED
        BY <2>1, TypesSplit, Constants
        DEF Removing, Fewer, RemoveDirs, LateEnough, Made, Catalogue, Processes,
            Running, Plans
<1>4. ASSUME NEW p \in Programs, Quit(p) PROVE LateEnough'
    <2>1. PICK clips : Quitting(p, clips)
        BY <1>4, Quits
    <2> QED
        BY <2>1, TypesSplit, Constants
        DEF Quitting, Ended, RemoveDirs, Fewer, LateEnough, Made, Catalogue,
            Processes, Running, Plans
<1>5. ASSUME NEW p \in Programs, Die(p) PROVE LateEnough'
    BY <1>5, TypesSplit, Constants, Dies
    DEF Die, Ended, LateEnough, Made, Catalogue, Processes, Running, Plans
<1>6. ASSUME NEW p \in Programs, Help(p) PROVE LateEnough'
    <2>1. PICK d \in DOMAIN known[p] :
              /\ Removing(d) /\ helper[p] = "alive" /\ prog[p] = "ended" /\ known[p][d] <= now
              /\ Take(p, {d}) /\ UNCHANGED <<use, kept>>
        BY <1>6, HelperRemoves
    <2> QED
        BY <2>1, TypesSplit, Constants
        DEF Removing, Fewer, RemoveDirs, LateEnough, Made, Catalogue, Processes,
            Running, Plans
<1>7. ASSUME NEW p \in Programs, HelperDies(p) PROVE LateEnough'
    <2>1. /\ \A q \in Programs : known'[q] = IF q = p THEN Empty ELSE known[q]
          /\ UNCHANGED <<owner, promised, now>>
        BY <1>7, TypesSplit DEF HelperDies, Plans
    <2>2. DOMAIN Empty = {}
        BY DEF Empty
    <2> QED
        BY <2>1, <2>2, TypesSplit DEF LateEnough, Catalogue
<1>8. ASSUME NEW p \in Programs, NEW d \in Dirs, StartDrag(p, d)
      PROVE  LateEnough'
    <2>1. New(p, d, "drag")
        BY <1>8, Makes DEF StartDrag
    <2>2. Informed(known', p, d, now + Unconfirmed)
        BY <1>8, ToldOne, Constants DEF StartDrag
    <2> QED
        BY <2>1, <2>2, <1>8, TypesSplit, Constants
        DEF Informed, New, StartDrag, Register, LateEnough, Made, Catalogue,
            Processes, Running, Plans
<1>9. ASSUME NEW p \in Programs, NEW d \in Dirs, Stage(p, d) PROVE LateEnough'
    BY <1>9, TypesSplit, Constants DEF Stage, LateEnough, Made, Catalogue,
                                       Processes, Running, Plans
<1>10. ASSUME NEW p \in Programs, NEW d \in Dirs, EndDrag(p, d)
      PROVE  LateEnough'
    <2>1. PICK all \in Seq(Exports), out \in SUBSET Dirs :
              Ending(p, d, out) /\ Retained(p, d, all, out)
        BY <1>10, EndsDrag
    <2> QED
        BY <2>1, TypesSplit, Constants
        DEF Ending, Fewer, RemoveDirs, LateEnough, Made, Catalogue, Processes,
            Running, Plans
<1>11. ASSUME NEW p \in Programs, NEW d \in Dirs, Done(p, d) PROVE LateEnough'
    <2>1. /\ Removing(d) /\ Running(p) /\ owner[d] = p /\ use[d] \in {"drag", "clipboard", "work"}
          /\ use' = [use EXCEPT ![d] = "over"] /\ UNCHANGED <<kept, taken>>
        BY <1>11, ProgramRemoves
    <2> QED
        BY <2>1, TypesSplit, Constants
        DEF Removing, Fewer, RemoveDirs, LateEnough, Made, Catalogue, Processes,
            Running, Plans
<1>12. ASSUME NEW p \in Programs, NEW d \in Dirs, Copy(p, d) PROVE LateEnough'
    <2>1. New(p, d, "clipboard")
        BY <1>12, Makes DEF Copy
    <2> QED
        BY <2>1, <1>12, TypesSplit, Constants
        DEF New, Copy, Register, LateEnough, Made, Catalogue, Processes,
            Running, Plans
<1>13. ASSUME NEW p \in Programs, NEW d \in Dirs, Compile(p, d)
      PROVE  LateEnough'
    <2>1. New(p, d, "work")
        BY <1>13, Makes DEF Compile
    <2>2. Informed(known', p, d, now + 0)
        BY <1>13, ToldOne, Constants
        DEF Compile
    <2> QED
        BY <2>1, <2>2, <1>13, TypesSplit, Constants
        DEF Informed, New, Compile, Register, LateEnough, Made, Catalogue,
            Processes, Running, Plans
<1>14. CASE Tick
    BY <1>14, TypesSplit, Constants DEF Tick, LateEnough, Made, Catalogue,
                                        Processes, Running, Plans
<1>15. CASE UNCHANGED vars
    BY <1>15 DEF vars, LateEnough, Made, Catalogue, Processes, Running, Plans
<1> QED
    BY <1>1, <1>2, <1>3, <1>4, <1>5, <1>6, <1>7, <1>8, <1>9, <1>10, <1>11,
       <1>12, <1>13, <1>14, <1>15 DEF Next

\* What is removed while it is of use is removed by the worker, which had no
\* room, or by another program.
LEMMA NeededKept ==
    TypeOK /\ Held /\ Made /\ SweptFirst /\ HeldIfPromised /\ OthersPlanned /\ LateEnough /\ KeptWhileNeeded /\ [Next]_vars => KeptWhileNeeded'
<1> SUFFICES ASSUME TypeOK, Held, Made, SweptFirst, HeldIfPromised, OthersPlanned, LateEnough, KeptWhileNeeded, [Next]_vars
             PROVE  KeptWhileNeeded'
    OBVIOUS
<1>1. ASSUME NEW p \in Programs, Launch(p) PROVE KeptWhileNeeded'
    <2>1. PICK old, plan : Launching(p, old, plan)
        BY <1>1, LaunchParts
    <2> QED
        BY <2>1, TypesSplit, Constants
        DEF Launching, Take, KeptWhileNeeded, Needed, Catalogue, Processes,
            Running, Made
<1>2. ASSUME NEW p \in Programs, Expire(p) PROVE KeptWhileNeeded'
    <2>1. PICK d \in Dirs :
              /\ Removing(d) /\ d = kept[p][1].dir /\ kept[p][1].until <= now /\ Len(kept[p]) > 0
              /\ owner[d] = p /\ use[d] = "kept" /\ promised[d] <= now
              /\ use' = [use EXCEPT ![d] = "over"] /\ taken' = taken
              /\ kept' = [kept EXCEPT ![p] = Tail(@)]
        BY <1>2, WorkerRemoves
    <2> QED
        BY <2>1, TypesSplit, Constants
        DEF Removing, Fewer, RemoveDirs, KeptWhileNeeded, Needed, Catalogue,
            Processes, Running, Take
<1>3. ASSUME NEW p \in Programs, Planned(p) PROVE KeptWhileNeeded'
    <2>1. PICK d \in DOMAIN planned[p] :
              /\ Removing(d) /\ Running(p) /\ planned[p][d] <= now /\ Take(p, {d})
              /\ UNCHANGED <<use, kept>>
        BY <1>3, ThreadRemoves
    <2> QED
        BY <2>1, TypesSplit, Constants
        DEF Removing, Fewer, RemoveDirs, KeptWhileNeeded, Needed, Catalogue,
            Processes, Running, Take, OthersPlanned
<1>4. ASSUME NEW p \in Programs, Quit(p) PROVE KeptWhileNeeded'
    <2>1. PICK clips : Quitting(p, clips)
        BY <1>4, Quits
    <2> SUFFICES ASSUME NEW e \in Dirs, Needed(e)', e \notin present'
                 PROVE  e \in evicted \/ taken[e] \in Programs \ {owner[e]}
        BY <2>1 DEF Quitting, KeptWhileNeeded
    <2>2. e \notin clips
        BY <2>1, TypesSplit, Constants
        DEF Quitting, HeldIfPromised, Needed, Running, Catalogue, Processes
    <2>3. e \notin present
        BY <2>1, <2>2 DEF Quitting, RemoveDirs
    <2>4. CASE promised'[e] > now'
        BY <2>1, <2>3, <2>4 DEF Quitting, KeptWhileNeeded, Needed
    <2>5. CASE use'[e] \in {"drag", "clipboard", "work"} /\ owner'[e] # None /\ Running(owner[e])'
        <3>1. owner[e] \in Programs \ {p} /\ Running(owner[e])
            BY <2>1, <2>5, TypesSplit DEF Quitting, Ended, Running, Catalogue, Processes
        <3>2. use'[e] = use[e]
            BY <2>1, <2>2, <3>1 DEF Quitting
        <3> QED
            BY <2>1, <2>3, <2>5, <3>1, <3>2 DEF Quitting, KeptWhileNeeded, Needed
    <2> QED
        BY <2>4, <2>5 DEF Needed
<1>5. ASSUME NEW p \in Programs, Die(p) PROVE KeptWhileNeeded'
    BY <1>5, TypesSplit, Constants, Dies
    DEF Die, Ended, KeptWhileNeeded, Needed, Catalogue, Processes, Running,
        Take
<1>6. ASSUME NEW p \in Programs, Help(p) PROVE KeptWhileNeeded'
    <2>1. PICK d \in DOMAIN known[p] :
              /\ Removing(d) /\ helper[p] = "alive" /\ prog[p] = "ended" /\ known[p][d] <= now
              /\ Take(p, {d}) /\ UNCHANGED <<use, kept>>
        BY <1>6, HelperRemoves
    <2> SUFFICES ASSUME NEW e \in Dirs, Needed(e)', e \notin present'
                 PROVE  e \in evicted \/ taken'[e] \in Programs \ {owner[e]}
        BY <2>1 DEF Removing, KeptWhileNeeded
    <2>2. Needed(e)
        BY <2>1 DEF Removing, Needed, Running
    <2>3. CASE e \notin present
        <3>1. taken'[e] = taken[e]
            BY <2>1, <2>3 DEF Take
        <3> QED
            BY <2>2, <2>3, <3>1 DEF KeptWhileNeeded
    <2>4. CASE e \in present
        <3>1. e = d /\ taken'[e] = p
            BY <2>1, <2>2, <2>4 DEF Removing, RemoveDirs, Take
        <3>2. owner[e] # p
            <4> SUFFICES ASSUME owner[e] = p PROVE FALSE
                OBVIOUS
            <4>1. ~Running(p)
                BY <2>1 DEF Running
            <4>2. promised[e] > now /\ p # None
                BY <2>2, <4>1, Constants DEF Needed
            <4>3. promised[e] <= known[p][e]
                BY <2>1, <3>1, <4>2, TypesSplit DEF LateEnough, Catalogue, Processes
            <4> QED
                BY <2>1, <3>1, <4>2, <4>3, TypesSplit DEF Catalogue, Processes, Plans
        <3> QED
            BY <3>1, <3>2
    <2> QED
        BY <2>3, <2>4
<1>7. ASSUME NEW p \in Programs, HelperDies(p) PROVE KeptWhileNeeded'
    BY <1>7, TypesSplit, Constants DEF HelperDies, KeptWhileNeeded, Needed,
                                       Catalogue, Processes, Running, Take
<1>8. ASSUME NEW p \in Programs, NEW d \in Dirs, StartDrag(p, d)
      PROVE  KeptWhileNeeded'
    <2>1. New(p, d, "drag")
        BY <1>8, Makes DEF StartDrag
    <2>2. Informed(known', p, d, now + Unconfirmed)
        BY <1>8, ToldOne, Constants DEF StartDrag
    <2> QED
        BY <2>1, <2>2, <1>8, TypesSplit, Constants
        DEF Informed, New, StartDrag, Register, KeptWhileNeeded, Needed,
            Catalogue, Processes, Running, Take, SweptFirst
<1>9. ASSUME NEW p \in Programs, NEW d \in Dirs, Stage(p, d)
      PROVE  KeptWhileNeeded'
    BY <1>9, TypesSplit, Constants DEF Stage, KeptWhileNeeded, Needed,
                                       Catalogue, Processes, Running, Take
<1>10. ASSUME NEW p \in Programs, NEW d \in Dirs, EndDrag(p, d)
      PROVE  KeptWhileNeeded'
    <2>1. PICK all \in Seq(Exports), out \in SUBSET Dirs :
              Ending(p, d, out) /\ Retained(p, d, all, out)
        BY <1>10, EndsDrag
    <2> QED
        BY <2>1, TypesSplit, Constants
        DEF Ending, Fewer, RemoveDirs, KeptWhileNeeded, Needed, Catalogue,
            Processes, Running, Take
<1>11. ASSUME NEW p \in Programs, NEW d \in Dirs, Done(p, d)
      PROVE  KeptWhileNeeded'
    <2>1. /\ Removing(d) /\ Running(p) /\ owner[d] = p /\ use[d] \in {"drag", "clipboard", "work"}
          /\ use' = [use EXCEPT ![d] = "over"] /\ UNCHANGED <<kept, taken>>
        BY <1>11, ProgramRemoves
    <2> QED
        BY <2>1, TypesSplit, Constants
        DEF Removing, Fewer, RemoveDirs, KeptWhileNeeded, Needed, Catalogue,
            Processes, Running, Take, HeldIfPromised
<1>12. ASSUME NEW p \in Programs, NEW d \in Dirs, Copy(p, d)
      PROVE  KeptWhileNeeded'
    <2>1. New(p, d, "clipboard")
        BY <1>12, Makes DEF Copy
    <2> QED
        BY <2>1, <1>12, TypesSplit, Constants
        DEF New, Copy, Register, KeptWhileNeeded, Needed, Catalogue, Processes,
            Running, Take
<1>13. ASSUME NEW p \in Programs, NEW d \in Dirs, Compile(p, d)
      PROVE  KeptWhileNeeded'
    <2>1. New(p, d, "work")
        BY <1>13, Makes DEF Compile
    <2>2. Informed(known', p, d, now + 0)
        BY <1>13, ToldOne, Constants
        DEF Compile
    <2> QED
        BY <2>1, <2>2, <1>13, TypesSplit, Constants
        DEF Informed, New, Compile, Register, KeptWhileNeeded, Needed,
            Catalogue, Processes, Running, Take
<1>14. CASE Tick
    BY <1>14, TypesSplit, Constants DEF Tick, KeptWhileNeeded, Needed,
                                        Catalogue, Processes, Running, Take
<1>15. CASE UNCHANGED vars
    BY <1>15 DEF vars, KeptWhileNeeded, Needed, Catalogue, Processes, Running,
                 Take
<1> QED
    BY <1>1, <1>2, <1>3, <1>4, <1>5, <1>6, <1>7, <1>8, <1>9, <1>10, <1>11,
       <1>12, <1>13, <1>14, <1>15 DEF Next

\* The worker holds each export once, and no other way ends what it holds.
LEMMA HeldKept ==
    TypeOK /\ Made /\ Held /\ [Next]_vars => Held'
<1> SUFFICES ASSUME TypeOK, Made, Held, [Next]_vars
             PROVE  Held'
    OBVIOUS
<1>1. ASSUME NEW p \in Programs, Launch(p) PROVE Held'
    <2>1. PICK old, plan : Launching(p, old, plan)
        BY <1>1, LaunchParts
    <2> SUFFICES ASSUME NEW q \in Programs, NEW i \in 1..Len(kept[q])
                 PROVE  LET e == kept[q][i].dir IN
                        owner'[e] = q /\ use'[e] = "kept" /\ promised'[e] <= kept[q][i].until
        BY <2>1 DEF Held, Launching
    <2>2. LET e == kept[q][i].dir IN
          owner[e] = q /\ use[e] = "kept" /\ promised[e] <= kept[q][i].until /\ e \in Dirs /\ q # None
        BY HeldDirs, Constants DEF Held
    <2> QED
        BY <2>1, <2>2, TypesSplit DEF Launching, Catalogue, Processes
<1>2. ASSUME NEW p \in Programs, Expire(p) PROVE Held'
    <2>1. PICK d \in Dirs :
              /\ Removing(d) /\ d = kept[p][1].dir /\ kept[p][1].until <= now /\ Len(kept[p]) > 0
              /\ owner[d] = p /\ use[d] = "kept" /\ promised[d] <= now
              /\ use' = [use EXCEPT ![d] = "over"] /\ taken' = taken
              /\ kept' = [kept EXCEPT ![p] = Tail(@)]
        BY <1>2, WorkerRemoves
    <2>2. kept[p] \in Seq(Exports) /\ kept[p] # <<>>
        BY <1>2, TypesSplit DEF Holding, Exports, Expire
    <2>3. /\ Len(Tail(kept[p])) = Len(kept[p]) - 1
          /\ \A i \in 1..Len(Tail(kept[p])) : Tail(kept[p])[i] = kept[p][i + 1] /\ i + 1 \in 1..Len(kept[p])
        BY <2>2, HeadTailProperties, HeldDirs
    <2>4. /\ \A q \in Programs : kept'[q] = IF q = p THEN Tail(kept[p]) ELSE kept[q]
          /\ UNCHANGED <<owner, promised>>
        BY <2>1, TypesSplit DEF Removing, Holding
    <2>5. \A e \in Dirs : e # d => use'[e] = use[e]
        BY <2>1, TypesSplit DEF Catalogue
    <2>6. ASSUME NEW q \in Programs, NEW i \in 1..Len(kept[q]), q # p \/ i # 1
          PROVE  use'[kept[q][i].dir] = "kept"
        <3>1. kept[q][i].dir # d
            BY <2>1, <2>6, HeldDirs DEF Held
        <3> QED
            BY <2>5, <3>1, HeldDirs DEF Held
    <2>7. ASSUME NEW q \in Programs, q # p
          PROVE  /\ \A i \in 1..Len(kept'[q]) :
                        LET e == kept'[q][i].dir IN
                        owner'[e] = q /\ use'[e] = "kept" /\ promised'[e] <= kept'[q][i].until
                 /\ \A i, j \in 1..Len(kept'[q]) : kept'[q][i].dir = kept'[q][j].dir => i = j
        BY <2>4, <2>6, <2>7 DEF Held
    <2>8. /\ \A i \in 1..Len(kept'[p]) :
                LET e == kept'[p][i].dir IN
                owner'[e] = p /\ use'[e] = "kept" /\ promised'[e] <= kept'[p][i].until
          /\ \A i, j \in 1..Len(kept'[p]) : kept'[p][i].dir = kept'[p][j].dir => i = j
        <3>1. kept'[p] = Tail(kept[p])
            BY <2>4
        <3>2. ASSUME NEW i \in 1..Len(Tail(kept[p]))
              PROVE  LET e == Tail(kept[p])[i].dir IN
                     owner'[e] = p /\ use'[e] = "kept" /\ promised'[e] <= Tail(kept[p])[i].until
            <4>1. i + 1 \in 1..Len(kept[p]) /\ i + 1 # 1 /\ Tail(kept[p])[i] = kept[p][i + 1]
                BY <2>3, HeldDirs
            <4> QED
                BY <2>4, <2>6, <4>1 DEF Held
        <3>3. ASSUME NEW i \in 1..Len(Tail(kept[p])), NEW j \in 1..Len(Tail(kept[p])),
                     Tail(kept[p])[i].dir = Tail(kept[p])[j].dir
              PROVE  i = j
            <4>1. kept[p][i + 1].dir = kept[p][j + 1].dir
                BY <2>3, <3>3
            <4>2. i + 1 = j + 1
                BY <2>3, <4>1 DEF Held
            <4> QED
                BY <2>3, <4>2, HeldDirs
        <3> QED
            BY <3>1, <3>2, <3>3
    <2> QED
        BY <2>7, <2>8 DEF Held
<1>3. ASSUME NEW p \in Programs, Planned(p) PROVE Held'
    <2>1. PICK d \in DOMAIN planned[p] :
              /\ Removing(d) /\ Running(p) /\ planned[p][d] <= now /\ Take(p, {d})
              /\ UNCHANGED <<use, kept>>
        BY <1>3, ThreadRemoves
    <2> SUFFICES ASSUME NEW q \in Programs, NEW i \in 1..Len(kept[q])
                 PROVE  LET e == kept[q][i].dir IN
                        owner'[e] = q /\ use'[e] = "kept" /\ promised'[e] <= kept[q][i].until
        BY <2>1 DEF Held, Removing
    <2>2. LET e == kept[q][i].dir IN
          owner[e] = q /\ use[e] = "kept" /\ promised[e] <= kept[q][i].until /\ e \in Dirs /\ q # None
        BY HeldDirs, Constants DEF Held
    <2> QED
        BY <2>1, <2>2, TypesSplit DEF Removing, Catalogue, Processes
<1>4. ASSUME NEW p \in Programs, Quit(p) PROVE Held'
    <2>1. PICK clips : Quitting(p, clips)
        BY <1>4, Quits
    <2>2. /\ \A q \in Programs : kept'[q] = IF q = p THEN <<>> ELSE kept[q]
          /\ UNCHANGED <<owner, promised>>
        BY <2>1, TypesSplit DEF Quitting, Ended, Holding
    <2>3. \A e \in Dirs : owner[e] # p /\ use[e] = "kept" => use'[e] = "kept"
        BY <2>1, TypesSplit DEF Quitting, Ended, Catalogue
    <2> SUFFICES ASSUME NEW q \in Programs \ {p}
                 PROVE  /\ \A i \in 1..Len(kept[q]) :
                              LET e == kept[q][i].dir IN
                              owner[e] = q /\ use'[e] = "kept" /\ promised[e] <= kept[q][i].until
                        /\ \A i, j \in 1..Len(kept[q]) : kept[q][i].dir = kept[q][j].dir => i = j
        <3>1. Len(<<>>) = 0
            OBVIOUS
        <3> QED
            BY <2>2, <3>1 DEF Held
    <2> QED
        BY <2>3, HeldDirs DEF Held
<1>5. ASSUME NEW p \in Programs, Die(p) PROVE Held'
    <2>1. /\ \A q \in Programs : kept'[q] = IF q = p THEN <<>> ELSE kept[q]
          /\ UNCHANGED <<owner, promised>>
        BY <1>5, TypesSplit DEF Die, Ended, Holding
    <2>2. \A e \in Dirs : owner[e] # p /\ use[e] = "kept" => use'[e] = "kept"
        BY <1>5, TypesSplit DEF Die, Ended, Catalogue
    <2> SUFFICES ASSUME NEW q \in Programs \ {p}
                 PROVE  /\ \A i \in 1..Len(kept[q]) :
                              LET e == kept[q][i].dir IN
                              owner[e] = q /\ use'[e] = "kept" /\ promised[e] <= kept[q][i].until
                        /\ \A i, j \in 1..Len(kept[q]) : kept[q][i].dir = kept[q][j].dir => i = j
        <3>1. Len(<<>>) = 0
            OBVIOUS
        <3> QED
            BY <2>1, <3>1 DEF Held
    <2> QED
        BY <2>2, HeldDirs DEF Held
<1>6. ASSUME NEW p \in Programs, Help(p) PROVE Held'
    <2>1. PICK d \in DOMAIN known[p] :
              /\ Removing(d) /\ helper[p] = "alive" /\ prog[p] = "ended" /\ known[p][d] <= now
              /\ Take(p, {d}) /\ UNCHANGED <<use, kept>>
        BY <1>6, HelperRemoves
    <2> SUFFICES ASSUME NEW q \in Programs, NEW i \in 1..Len(kept[q])
                 PROVE  LET e == kept[q][i].dir IN
                        owner'[e] = q /\ use'[e] = "kept" /\ promised'[e] <= kept[q][i].until
        BY <2>1 DEF Held, Removing
    <2>2. LET e == kept[q][i].dir IN
          owner[e] = q /\ use[e] = "kept" /\ promised[e] <= kept[q][i].until /\ e \in Dirs /\ q # None
        BY HeldDirs, Constants DEF Held
    <2> QED
        BY <2>1, <2>2, TypesSplit DEF Removing, Catalogue, Processes
<1>7. ASSUME NEW p \in Programs, HelperDies(p) PROVE Held'
    <2> SUFFICES ASSUME NEW q \in Programs, NEW i \in 1..Len(kept[q])
                 PROVE  LET e == kept[q][i].dir IN
                        owner'[e] = q /\ use'[e] = "kept" /\ promised'[e] <= kept[q][i].until
        BY <1>7 DEF Held, HelperDies
    <2>1. LET e == kept[q][i].dir IN
          owner[e] = q /\ use[e] = "kept" /\ promised[e] <= kept[q][i].until /\ e \in Dirs /\ q # None
        BY HeldDirs, Constants DEF Held
    <2> QED
        BY <1>7, <2>1, TypesSplit DEF HelperDies, Catalogue, Processes
<1>8. ASSUME NEW p \in Programs, NEW d \in Dirs, StartDrag(p, d) PROVE Held'
    <2>1. New(p, d, "drag") /\ UNCHANGED <<kept, promised>>
        BY <1>8, Makes DEF StartDrag
    <2> SUFFICES ASSUME NEW q \in Programs, NEW i \in 1..Len(kept[q])
                 PROVE  LET e == kept[q][i].dir IN
                        owner'[e] = q /\ use'[e] = "kept" /\ promised'[e] <= kept[q][i].until
        BY <2>1 DEF Held, New
    <2>2. LET e == kept[q][i].dir IN
          owner[e] = q /\ use[e] = "kept" /\ promised[e] <= kept[q][i].until /\ e \in Dirs /\ q # None
        BY HeldDirs, Constants DEF Held
    <2> QED
        BY <2>1, <2>2, TypesSplit DEF New, Catalogue, Processes
<1>9. ASSUME NEW p \in Programs, NEW d \in Dirs, Stage(p, d) PROVE Held'
    <2> SUFFICES ASSUME NEW q \in Programs, NEW i \in 1..Len(kept[q])
                 PROVE  LET e == kept[q][i].dir IN
                        owner'[e] = q /\ use'[e] = "kept" /\ promised'[e] <= kept[q][i].until
        BY <1>9 DEF Held, Stage
    <2>1. LET e == kept[q][i].dir IN
          owner[e] = q /\ use[e] = "kept" /\ promised[e] <= kept[q][i].until /\ e \in Dirs /\ q # None
        BY HeldDirs, Constants DEF Held
    <2> QED
        BY <1>9, <2>1, TypesSplit DEF Stage, Catalogue, Processes
<1>10. ASSUME NEW p \in Programs, NEW d \in Dirs, EndDrag(p, d) PROVE Held'
    <2>1. PICK all \in Seq(Exports), out \in SUBSET Dirs :
              Ending(p, d, out) /\ Retained(p, d, all, out)
        BY <1>10, EndsDrag
    <2> DEFINE Fine(s, q) ==
            /\ \A i \in 1..Len(s) :
                  LET e == s[i].dir IN
                  owner'[e] = q /\ use'[e] = "kept" /\ promised'[e] <= s[i].until
            /\ \A i, j \in 1..Len(s) : s[i].dir = s[j].dir => i = j
    <2>2. \A q \in Programs :
              kept'[q] = IF q = p THEN IF Len(all) > MaxRetained THEN Tail(all) ELSE all ELSE kept[q]
        BY <2>1, TypesSplit DEF Retained, Holding
    <2>3. \A e \in Dirs :
              /\ owner'[e] = owner[e]
              /\ use'[e] = IF e \in out THEN "over" ELSE IF e = d THEN "kept" ELSE use[e]
              /\ promised'[e] = IF e = d THEN now + Grace ELSE promised[e]
        BY <2>1, TypesSplit DEF Ending, Catalogue
    <2>4. owner[d] = p /\ use[d] = "drag" /\ \A e \in out : owner[e] = p
        BY <2>1 DEF Ending
    <2>5. ASSUME NEW q \in Programs, q # p PROVE Fine(kept[q], q)
        <3>1. \A i \in 1..Len(kept[q]) :
                  LET e == kept[q][i].dir IN
                  /\ e \in Dirs /\ e # d /\ e \notin out
                  /\ owner[e] = q /\ use[e] = "kept" /\ promised[e] <= kept[q][i].until
            BY <2>4, <2>5, HeldDirs DEF Held
        <3>2. \A i, j \in 1..Len(kept[q]) : kept[q][i].dir = kept[q][j].dir => i = j
            BY DEF Held
        <3> QED
            BY <2>3, <3>1, <3>2
    <2>6. /\ Len(all) = Len(kept[p]) + 1 /\ Len(all) \in Nat \ {0}
          /\ \A i \in 1..Len(all) :
                IF i = Len(all) THEN all[i] = [dir |-> d, until |-> now + Grace]
                ELSE i \in 1..Len(kept[p]) /\ all[i] = kept[p][i]
        BY <2>1, HeldDirs DEF Retained
    <2>7. \A i \in 1..Len(all) :
              LET e == all[i].dir IN
              /\ e \in Dirs /\ owner[e] = p /\ (IF i = Len(all) THEN e = d ELSE e # d /\ use[e] = "kept")
              /\ promised'[e] <= all[i].until
        <3>1. ASSUME NEW i \in 1..Len(all), i = Len(all)
              PROVE  all[i].dir = d /\ promised'[d] <= all[i].until
            <4>1. all[i].dir = d /\ all[i].until = now + Grace
                BY <2>6, <3>1
            <4> QED
                BY <2>3, <4>1, TypesSplit, Constants DEF Processes
        <3>2. ASSUME NEW i \in 1..Len(all), i # Len(all)
              PROVE  LET e == all[i].dir IN
                     /\ e \in Dirs /\ owner[e] = p /\ e # d /\ use[e] = "kept"
                     /\ promised'[e] <= all[i].until
            <4>1. i \in 1..Len(kept[p]) /\ all[i] = kept[p][i]
                BY <2>6, <3>2
            <4>2. LET e == all[i].dir IN
                  /\ e \in Dirs /\ owner[e] = p /\ use[e] = "kept"
                  /\ promised[e] <= all[i].until
                BY <4>1, HeldDirs DEF Held
            <4> QED
                BY <2>3, <2>4, <4>2
        <3> QED
            BY <2>4, <3>1, <3>2
    <2>8. \A i, j \in 1..Len(all) : all[i].dir = all[j].dir => i = j
        <3> SUFFICES ASSUME NEW i \in 1..Len(all), NEW j \in 1..Len(all), all[i].dir = all[j].dir
                     PROVE  i = j
            OBVIOUS
        <3>1. CASE i = Len(all) \/ j = Len(all)
            BY <2>7, <3>1
        <3>2. CASE i # Len(all) /\ j # Len(all)
            BY <2>6, <3>2 DEF Held
        <3> QED
            BY <3>1, <3>2
    <2>9. CASE Len(all) > MaxRetained
        <3>1. /\ Len(Tail(all)) = Len(all) - 1
              /\ \A i \in 1..Len(Tail(all)) : Tail(all)[i] = all[i + 1]
            BY <2>6, HeadTailProperties, EmptySeq
        <3>2. out = {all[1].dir}
            BY <2>1, <2>6, <2>9, OldestHeld, EmptySeq DEF Retained
        <3>3. ASSUME NEW i \in 1..Len(Tail(all))
              PROVE  /\ i + 1 \in 1..Len(all) /\ Tail(all)[i] = all[i + 1]
                     /\ use'[all[i + 1].dir] = "kept" /\ owner'[all[i + 1].dir] = p
                     /\ promised'[all[i + 1].dir] <= all[i + 1].until
            <4>1. i + 1 \in 1..Len(all) /\ 1 \in 1..Len(all) /\ i + 1 # 1
                BY <2>6, <3>1
            <4>2. all[i + 1].dir \notin out
                BY <2>8, <3>2, <4>1
            <4> QED
                BY <2>3, <2>7, <3>1, <4>1, <4>2
        <3>4. ASSUME NEW i \in 1..Len(Tail(all)), NEW j \in 1..Len(Tail(all)),
                     Tail(all)[i].dir = Tail(all)[j].dir
              PROVE  i = j
            <4>1. i + 1 = j + 1
                BY <2>8, <3>3, <3>4
            <4> QED
                BY <2>6, <3>1, <4>1
        <3>5. Fine(Tail(all), p)
            BY <3>3, <3>4
        <3>6. ASSUME NEW q \in Programs PROVE Fine(kept'[q], q)
            <4>1. CASE q = p
                BY <2>2, <2>9, <3>5, <4>1
            <4>2. CASE q # p
                BY <2>2, <2>5, <4>2
            <4> QED
                BY <4>1, <4>2
        <3> QED
            BY <3>6 DEF Held
    <2>10. CASE ~(Len(all) > MaxRetained)
        <3>1. out = {}
            BY <2>1, <2>10 DEF Retained
        <3>2. Fine(all, p)
            BY <2>3, <2>7, <2>8, <3>1
        <3> QED
            BY <2>2, <2>5, <2>10, <3>2 DEF Held
    <2> QED
        BY <2>9, <2>10
<1>11. ASSUME NEW p \in Programs, NEW d \in Dirs, Done(p, d) PROVE Held'
    <2>1. /\ Removing(d) /\ Running(p) /\ owner[d] = p /\ use[d] \in {"drag", "clipboard", "work"}
          /\ use' = [use EXCEPT ![d] = "over"] /\ UNCHANGED <<kept, taken>>
        BY <1>11, ProgramRemoves
    <2> SUFFICES ASSUME NEW q \in Programs, NEW i \in 1..Len(kept[q])
                 PROVE  LET e == kept[q][i].dir IN
                        owner'[e] = q /\ use'[e] = "kept" /\ promised'[e] <= kept[q][i].until
        BY <2>1 DEF Held, Removing
    <2>2. LET e == kept[q][i].dir IN
          owner[e] = q /\ use[e] = "kept" /\ promised[e] <= kept[q][i].until /\ e \in Dirs /\ q # None
        BY HeldDirs, Constants DEF Held
    <2> QED
        BY <2>1, <2>2, TypesSplit DEF Removing, Catalogue, Processes
<1>12. ASSUME NEW p \in Programs, NEW d \in Dirs, Copy(p, d) PROVE Held'
    <2>1. New(p, d, "clipboard") /\ UNCHANGED <<kept, promised>>
        BY <1>12, Makes DEF Copy
    <2> SUFFICES ASSUME NEW q \in Programs, NEW i \in 1..Len(kept[q])
                 PROVE  LET e == kept[q][i].dir IN
                        owner'[e] = q /\ use'[e] = "kept" /\ promised'[e] <= kept[q][i].until
        BY <2>1 DEF Held, New
    <2>2. LET e == kept[q][i].dir IN
          owner[e] = q /\ use[e] = "kept" /\ promised[e] <= kept[q][i].until /\ e \in Dirs /\ q # None
        BY HeldDirs, Constants DEF Held
    <2> QED
        BY <2>1, <2>2, TypesSplit DEF New, Catalogue, Processes
<1>13. ASSUME NEW p \in Programs, NEW d \in Dirs, Compile(p, d) PROVE Held'
    <2>1. New(p, d, "work") /\ UNCHANGED <<kept, promised>>
        BY <1>13, Makes DEF Compile
    <2> SUFFICES ASSUME NEW q \in Programs, NEW i \in 1..Len(kept[q])
                 PROVE  LET e == kept[q][i].dir IN
                        owner'[e] = q /\ use'[e] = "kept" /\ promised'[e] <= kept[q][i].until
        BY <2>1 DEF Held, New
    <2>2. LET e == kept[q][i].dir IN
          owner[e] = q /\ use[e] = "kept" /\ promised[e] <= kept[q][i].until /\ e \in Dirs /\ q # None
        BY HeldDirs, Constants DEF Held
    <2> QED
        BY <2>1, <2>2, TypesSplit DEF New, Catalogue, Processes
<1>14. CASE Tick
    <2> SUFFICES ASSUME NEW q \in Programs, NEW i \in 1..Len(kept[q])
                 PROVE  LET e == kept[q][i].dir IN
                        owner'[e] = q /\ use'[e] = "kept" /\ promised'[e] <= kept[q][i].until
        BY <1>14 DEF Held, Tick
    <2>1. LET e == kept[q][i].dir IN
          owner[e] = q /\ use[e] = "kept" /\ promised[e] <= kept[q][i].until /\ e \in Dirs
          /\ kept[q][i].until \in Nat
        BY HeldDirs, Constants DEF Held
    <2> QED
        BY <1>14, <2>1, TypesSplit DEF Tick, Catalogue, Processes
<1>15. CASE UNCHANGED vars
    BY <1>15 DEF vars, Held
<1> QED
    BY <1>1, <1>2, <1>3, <1>4, <1>5, <1>6, <1>7, <1>8, <1>9, <1>10, <1>11,
       <1>12, <1>13, <1>14, <1>15 DEF Next

\* Every step keeps the types.
LEMMA TypesKept ==
    TypeOK /\ Made /\ Held /\ [Next]_vars => TypeOK'
<1> SUFFICES ASSUME TypeOK, Made, Held, [Next]_vars
             PROVE  TypeOK'
    OBVIOUS
<1>1. ASSUME NEW p \in Programs, Launch(p) PROVE TypeOK'
    <2>1. PICK old, plan : Launching(p, old, plan)
        BY <1>1, LaunchParts
    <2>2. Processes'
        BY <2>1, TypesSplit, Constants
        DEF Launching, Take, Processes
    <2>3. Plans(known)'
        BY <2>1 DEF Launching
    <2>4. Plans(planned)'
        BY <2>1 DEF Launching
    <2>5. Holding'
        BY <2>1, TypesSplit, Constants
        DEF Launching, Take, Holding
    <2>6. Catalogue'
        BY <2>1, TypesSplit, Constants
        DEF Launching, Take, Catalogue, Processes
    <2>7. Ghosts'
        BY <2>1, TypesSplit, Constants
        DEF Launching, Take, Ghosts, Catalogue
    <2> QED
        BY <2>2, <2>3, <2>4, <2>5, <2>6, <2>7, TypesJoin
<1>2. ASSUME NEW p \in Programs, Expire(p) PROVE TypeOK'
    <2>1. PICK d \in Dirs :
              /\ Removing(d) /\ d = kept[p][1].dir /\ kept[p][1].until <= now /\ Len(kept[p]) > 0
              /\ owner[d] = p /\ use[d] = "kept" /\ promised[d] <= now
              /\ use' = [use EXCEPT ![d] = "over"] /\ taken' = taken
              /\ kept' = [kept EXCEPT ![p] = Tail(@)]
        BY <1>2, WorkerRemoves
    <2>2. Processes'
        BY <2>1, TypesSplit, Constants
        DEF Removing, Fewer, RemoveDirs, Take, Processes
    <2>3. Plans(known)'
        BY <2>1 DEF Removing, Fewer
    <2>4. Plans(planned)'
        BY <2>1 DEF Removing, Fewer
    <2>5. Holding'
        <3>1. kept[p] \in Seq(Exports) /\ kept[p] # <<>>
            BY <1>2, TypesSplit DEF Holding, Exports, Expire
        <3>2. Tail(kept[p]) \in Seq(Exports) /\ Len(Tail(kept[p])) = Len(kept[p]) - 1
            BY <3>1, HeadTailProperties
        <3>3. kept' \in [Programs -> Seq(Exports)]
            BY <2>1, <3>2, TypesSplit DEF Holding, Exports
        <3>4. \A q \in Programs : Len(kept'[q]) <= MaxRetained
            BY <2>1, <3>2, HeldDirs, Constants, TypesSplit DEF Holding
        <3> QED
            BY <3>3, <3>4 DEF Holding, Exports
    <2>6. Catalogue'
        BY <2>1, TypesSplit, Constants
        DEF Removing, Fewer, RemoveDirs, Take, Catalogue, Processes
    <2>7. Ghosts'
        BY <2>1, TypesSplit, Constants
        DEF Removing, Fewer, RemoveDirs, Take, Ghosts, Catalogue
    <2> QED
        BY <2>2, <2>3, <2>4, <2>5, <2>6, <2>7, TypesJoin
<1>3. ASSUME NEW p \in Programs, Planned(p) PROVE TypeOK'
    <2>1. PICK d \in DOMAIN planned[p] :
              /\ Removing(d) /\ Running(p) /\ planned[p][d] <= now /\ Take(p, {d})
              /\ UNCHANGED <<use, kept>>
        BY <1>3, ThreadRemoves
    <2>2. Processes'
        BY <2>1, TypesSplit, Constants
        DEF Removing, Fewer, RemoveDirs, Take, Processes
    <2>3. Plans(known)'
        BY <2>1 DEF Removing, Fewer
    <2>4. Plans(planned)'
        BY <2>1 DEF Removing, Fewer
    <2>5. Holding'
        BY <2>1, TypesSplit, Constants
        DEF Removing, Fewer, RemoveDirs, Take, Holding
    <2>6. Catalogue'
        BY <2>1, TypesSplit, Constants
        DEF Removing, Fewer, RemoveDirs, Take, Catalogue, Processes
    <2>7. Ghosts'
        BY <2>1, TypesSplit, Constants
        DEF Removing, Fewer, RemoveDirs, Take, Ghosts, Catalogue
    <2> QED
        BY <2>2, <2>3, <2>4, <2>5, <2>6, <2>7, TypesJoin
<1>4. ASSUME NEW p \in Programs, Quit(p) PROVE TypeOK'
    <2>1. PICK clips : Quitting(p, clips)
        BY <1>4, Quits
    <2>2. Processes'
        BY <2>1, TypesSplit, Constants
        DEF Quitting, Ended, RemoveDirs, Fewer, Processes
    <2>3. Plans(known)'
        BY <2>1 DEF Quitting, Ended, Fewer
    <2>4. Plans(planned)'
        BY <2>1 DEF Quitting, Ended, Fewer
    <2>5. Holding'
        <3>1. <<>> \in Seq([dir : Dirs, until : Nat]) /\ Len(<<>>) = 0
            BY EmptySeq
        <3>2. kept' = [kept EXCEPT ![p] = <<>>]
            BY <2>1 DEF Quitting, Ended
        <3>3. DOMAIN kept = Programs /\ \A q \in Programs : kept'[q] = IF q = p THEN <<>> ELSE kept[q]
            BY <3>2, TypesSplit DEF Holding
        <3>4. \A q \in Programs : kept'[q] \in Seq([dir : Dirs, until : Nat])
            BY <3>1, <3>3, TypesSplit DEF Holding
        <3>5. \A q \in Programs : Len(kept'[q]) <= MaxRetained
            BY <3>1, <3>3, TypesSplit, Constants DEF Holding
        <3> QED
            BY <3>2, <3>3, <3>4, <3>5 DEF Holding
    <2>6. Catalogue'
        BY <2>1, TypesSplit, Constants
        DEF Quitting, Ended, RemoveDirs, Fewer, Catalogue, Processes
    <2>7. Ghosts'
        BY <2>1, TypesSplit, Constants
        DEF Quitting, Ended, RemoveDirs, Fewer, Ghosts, Catalogue
    <2> QED
        BY <2>2, <2>3, <2>4, <2>5, <2>6, <2>7, TypesJoin
<1>5. ASSUME NEW p \in Programs, Die(p) PROVE TypeOK'
    <2>1. Processes'
        BY <1>5, TypesSplit, Constants
        DEF Die, Ended, Processes
    <2>2. Plans(known)'
        BY <1>5, TypesSplit, Constants
        DEF Die, Ended, Plans
    <2>3. Plans(planned)'
        BY <1>5, Dies
    <2>4. Holding'
        <3>1. <<>> \in Seq([dir : Dirs, until : Nat]) /\ Len(<<>>) = 0
            BY EmptySeq
        <3>2. kept' = [kept EXCEPT ![p] = <<>>]
            BY <1>5 DEF Die, Ended
        <3>3. DOMAIN kept = Programs /\ \A q \in Programs : kept'[q] = IF q = p THEN <<>> ELSE kept[q]
            BY <3>2, TypesSplit DEF Holding
        <3>4. \A q \in Programs : kept'[q] \in Seq([dir : Dirs, until : Nat])
            BY <3>1, <3>3, TypesSplit DEF Holding
        <3>5. \A q \in Programs : Len(kept'[q]) <= MaxRetained
            BY <3>1, <3>3, TypesSplit, Constants DEF Holding
        <3> QED
            BY <3>2, <3>3, <3>4, <3>5 DEF Holding
    <2>5. Catalogue'
        BY <1>5, TypesSplit, Constants
        DEF Die, Ended, Catalogue, Processes
    <2>6. Ghosts'
        BY <1>5, TypesSplit, Constants
        DEF Die, Ended, Ghosts, Catalogue
    <2> QED
        BY <2>1, <2>2, <2>3, <2>4, <2>5, <2>6, TypesJoin
<1>6. ASSUME NEW p \in Programs, Help(p) PROVE TypeOK'
    <2>1. PICK d \in DOMAIN known[p] :
              /\ Removing(d) /\ helper[p] = "alive" /\ prog[p] = "ended" /\ known[p][d] <= now
              /\ Take(p, {d}) /\ UNCHANGED <<use, kept>>
        BY <1>6, HelperRemoves
    <2>2. Processes'
        BY <2>1, TypesSplit, Constants
        DEF Removing, Fewer, RemoveDirs, Take, Processes
    <2>3. Plans(known)'
        BY <2>1 DEF Removing, Fewer
    <2>4. Plans(planned)'
        BY <2>1 DEF Removing, Fewer
    <2>5. Holding'
        BY <2>1, TypesSplit, Constants
        DEF Removing, Fewer, RemoveDirs, Take, Holding
    <2>6. Catalogue'
        BY <2>1, TypesSplit, Constants
        DEF Removing, Fewer, RemoveDirs, Take, Catalogue, Processes
    <2>7. Ghosts'
        BY <2>1, TypesSplit, Constants
        DEF Removing, Fewer, RemoveDirs, Take, Ghosts, Catalogue
    <2> QED
        BY <2>2, <2>3, <2>4, <2>5, <2>6, <2>7, TypesJoin
<1>7. ASSUME NEW p \in Programs, HelperDies(p) PROVE TypeOK'
    <2>1. Processes'
        BY <1>7, TypesSplit, Constants
        DEF HelperDies, Processes
    <2>2. Plans(known)'
        BY <1>7, TypesSplit, Constants
        DEF HelperDies, Plans, Empty
    <2>3. Plans(planned)'
        BY <1>7, TypesSplit, Constants
        DEF HelperDies, Plans
    <2>4. Holding'
        BY <1>7, TypesSplit, Constants
        DEF HelperDies, Holding
    <2>5. Catalogue'
        BY <1>7, TypesSplit, Constants
        DEF HelperDies, Catalogue, Processes
    <2>6. Ghosts'
        BY <1>7, TypesSplit, Constants
        DEF HelperDies, Ghosts, Catalogue, Plans
    <2> QED
        BY <2>1, <2>2, <2>3, <2>4, <2>5, <2>6, TypesJoin
<1>8. ASSUME NEW p \in Programs, NEW d \in Dirs, StartDrag(p, d) PROVE TypeOK'
    <2>1. New(p, d, "drag")
        BY <1>8, Makes DEF StartDrag
    <2>2. Informed(known', p, d, now + Unconfirmed)
        BY <1>8, ToldOne, Constants DEF StartDrag
    <2>3. Processes'
        BY <2>1, <1>8, TypesSplit, Constants
        DEF New, StartDrag, Take, Register, Processes
    <2>4. Plans(known)'
        BY <2>2 DEF Informed
    <2>5. Plans(planned)'
        BY <2>1, <1>8, TypesSplit, Constants
        DEF New, StartDrag, Register, Plans
    <2>6. Holding'
        BY <2>1, <1>8, TypesSplit, Constants
        DEF New, StartDrag, Take, Register, Holding
    <2>7. Catalogue'
        BY <2>1, <1>8, TypesSplit, Constants
        DEF New, StartDrag, Take, Register, Catalogue, Processes
    <2>8. Ghosts'
        BY <2>1, <1>8, TypesSplit, Constants
        DEF New, StartDrag, Take, Register, Ghosts, Catalogue
    <2> QED
        BY <2>3, <2>4, <2>5, <2>6, <2>7, <2>8, TypesJoin
<1>9. ASSUME NEW p \in Programs, NEW d \in Dirs, Stage(p, d) PROVE TypeOK'
    <2>1. Processes'
        BY <1>9, TypesSplit, Constants
        DEF Stage, Processes
    <2>2. Plans(known)'
        BY <1>9, TypesSplit, Constants
        DEF Stage, Plans
    <2>3. Plans(planned)'
        BY <1>9, TypesSplit, Constants
        DEF Stage, Plans
    <2>4. Holding'
        BY <1>9, TypesSplit, Constants
        DEF Stage, Holding
    <2>5. Catalogue'
        BY <1>9, TypesSplit, Constants
        DEF Stage, Catalogue, Processes
    <2>6. Ghosts'
        BY <1>9, TypesSplit, Constants
        DEF Stage, Ghosts, Catalogue
    <2> QED
        BY <2>1, <2>2, <2>3, <2>4, <2>5, <2>6, TypesJoin
<1>10. ASSUME NEW p \in Programs, NEW d \in Dirs, EndDrag(p, d) PROVE TypeOK'
    <2>1. PICK all \in Seq(Exports), out \in SUBSET Dirs :
              Ending(p, d, out) /\ Retained(p, d, all, out)
        BY <1>10, EndsDrag
    <2>2. Processes'
        BY <2>1, TypesSplit, Constants
        DEF Ending, Fewer, RemoveDirs, Processes
    <2>3. Plans(known)'
        BY <2>1 DEF Ending, Fewer
    <2>4. Plans(planned)'
        BY <2>1 DEF Ending, Fewer
    <2>5. Holding'
        <3>1. /\ Len(all) = Len(kept[p]) + 1 /\ Len(all) \in Nat /\ all # <<>>
              /\ Len(kept[p]) <= MaxRetained
              /\ kept' = [kept EXCEPT ![p] = IF Len(all) > MaxRetained THEN Tail(all) ELSE all]
            BY <2>1, HeldDirs, LenProperties, TypesSplit DEF Retained, Holding
        <3>2. Tail(all) \in Seq(Exports) /\ Len(Tail(all)) = Len(all) - 1
            BY <3>1, HeadTailProperties
        <3>3. \A q \in Programs : Len(kept[q]) <= MaxRetained /\ kept[q] \in Seq(Exports)
            BY TypesSplit DEF Holding, Exports
        <3>4. kept' \in [Programs -> Seq(Exports)]
            BY <3>1, <3>2, <3>3, TypesSplit DEF Holding
        <3>5. \A q \in Programs : Len(kept'[q]) <= MaxRetained
            BY <3>1, <3>2, <3>3, Constants, TypesSplit DEF Holding
        <3> QED
            BY <3>4, <3>5 DEF Holding, Exports
    <2>6. Catalogue'
        BY <2>1, TypesSplit, Constants
        DEF Ending, Fewer, RemoveDirs, Catalogue, Processes
    <2>7. Ghosts'
        BY <2>1, TypesSplit, Constants
        DEF Ending, Fewer, RemoveDirs, Ghosts, Catalogue
    <2> QED
        BY <2>2, <2>3, <2>4, <2>5, <2>6, <2>7, TypesJoin
<1>11. ASSUME NEW p \in Programs, NEW d \in Dirs, Done(p, d) PROVE TypeOK'
    <2>1. /\ Removing(d) /\ Running(p) /\ owner[d] = p /\ use[d] \in {"drag", "clipboard", "work"}
          /\ use' = [use EXCEPT ![d] = "over"] /\ UNCHANGED <<kept, taken>>
        BY <1>11, ProgramRemoves
    <2>2. Processes'
        BY <2>1, TypesSplit, Constants
        DEF Removing, Fewer, RemoveDirs, Take, Processes
    <2>3. Plans(known)'
        BY <2>1 DEF Removing, Fewer
    <2>4. Plans(planned)'
        BY <2>1 DEF Removing, Fewer
    <2>5. Holding'
        BY <2>1, TypesSplit, Constants
        DEF Removing, Fewer, RemoveDirs, Take, Holding
    <2>6. Catalogue'
        BY <2>1, TypesSplit, Constants
        DEF Removing, Fewer, RemoveDirs, Take, Catalogue, Processes
    <2>7. Ghosts'
        BY <2>1, TypesSplit, Constants
        DEF Removing, Fewer, RemoveDirs, Take, Ghosts, Catalogue
    <2> QED
        BY <2>2, <2>3, <2>4, <2>5, <2>6, <2>7, TypesJoin
<1>12. ASSUME NEW p \in Programs, NEW d \in Dirs, Copy(p, d) PROVE TypeOK'
    <2>1. New(p, d, "clipboard")
        BY <1>12, Makes DEF Copy
    <2>2. Processes'
        BY <2>1, <1>12, TypesSplit, Constants
        DEF New, Copy, Take, Register, Processes
    <2>3. Plans(known)'
        BY <2>1, <1>12, TypesSplit, Constants
        DEF New, Copy, Register, Plans
    <2>4. Plans(planned)'
        BY <2>1, <1>12, TypesSplit, Constants
        DEF New, Copy, Register, Plans
    <2>5. Holding'
        BY <2>1, <1>12, TypesSplit, Constants
        DEF New, Copy, Take, Register, Holding
    <2>6. Catalogue'
        BY <2>1, <1>12, TypesSplit, Constants
        DEF New, Copy, Take, Register, Catalogue, Processes
    <2>7. Ghosts'
        BY <2>1, <1>12, TypesSplit, Constants
        DEF New, Copy, Take, Register, Ghosts, Catalogue
    <2> QED
        BY <2>2, <2>3, <2>4, <2>5, <2>6, <2>7, TypesJoin
<1>13. ASSUME NEW p \in Programs, NEW d \in Dirs, Compile(p, d) PROVE TypeOK'
    <2>1. New(p, d, "work")
        BY <1>13, Makes DEF Compile
    <2>2. Informed(known', p, d, now + 0)
        BY <1>13, ToldOne, Constants
        DEF Compile
    <2>3. Processes'
        BY <2>1, <1>13, TypesSplit, Constants
        DEF New, Compile, Take, Register, Processes
    <2>4. Plans(known)'
        BY <2>2 DEF Informed
    <2>5. Plans(planned)'
        BY <2>1, <1>13, TypesSplit, Constants
        DEF New, Compile, Register, Plans
    <2>6. Holding'
        BY <2>1, <1>13, TypesSplit, Constants
        DEF New, Compile, Take, Register, Holding
    <2>7. Catalogue'
        BY <2>1, <1>13, TypesSplit, Constants
        DEF New, Compile, Take, Register, Catalogue, Processes
    <2>8. Ghosts'
        BY <2>1, <1>13, TypesSplit, Constants
        DEF New, Compile, Take, Register, Ghosts, Catalogue
    <2> QED
        BY <2>3, <2>4, <2>5, <2>6, <2>7, <2>8, TypesJoin
<1>14. CASE Tick
    <2>1. Processes'
        BY <1>14, TypesSplit, Constants
        DEF Tick, Processes
    <2>2. Plans(known)'
        BY <1>14, TypesSplit, Constants
        DEF Tick, Plans
    <2>3. Plans(planned)'
        BY <1>14, TypesSplit, Constants
        DEF Tick, Plans
    <2>4. Holding'
        BY <1>14, TypesSplit, Constants
        DEF Tick, Holding
    <2>5. Catalogue'
        BY <1>14, TypesSplit, Constants
        DEF Tick, Catalogue, Processes
    <2>6. Ghosts'
        BY <1>14, TypesSplit, Constants
        DEF Tick, Ghosts, Catalogue
    <2> QED
        BY <2>1, <2>2, <2>3, <2>4, <2>5, <2>6, TypesJoin
<1>15. CASE UNCHANGED vars
    BY <1>15 DEF vars, TypeOK, Plans
<1> QED
    BY <1>1, <1>2, <1>3, <1>4, <1>5, <1>6, <1>7, <1>8, <1>9, <1>10, <1>11,
       <1>12, <1>13, <1>14, <1>15 DEF Next

----------------------------------------------------------------------------
(* The theorems.                                                           *)

\* What NoneForgotten asks for follows: a helper that was told, or the program
\* of a clipboard, is to remove it.
LEMMA CoveredAssigned ==
    TypeOK /\ Covered => NoneForgotten
BY TypesSplit, Constants DEF Covered, NoneForgotten, Assigned, Catalogue

\* The inductive invariant holds of every reachable state.
THEOREM Invariance ==
    Spec => []IInv
<1>1. Init => IInv
    <2> SUFFICES ASSUME Init
                 PROVE  IInv
        OBVIOUS
    <2> USE DEF Init
    <2>1. <<>> \in Seq([dir : Dirs, until : Nat]) /\ Len(<<>>) = 0
        BY EmptySeq
    <2>2. Plans(known) /\ Plans(planned)
        BY DEF Plans, Empty
    <2>3. Processes /\ Holding /\ Catalogue /\ Ghosts
        BY <2>1, Constants DEF Processes, Holding, Catalogue, Ghosts
    <2>4. TypeOK
        BY <2>2, <2>3, Constants DEF TypeOK, Processes, Holding, Catalogue, Ghosts
    <2>5. Made /\ SweptFirst /\ HeldIfPromised /\ LateEnough /\ Covered
        BY Constants DEF Made, SweptFirst, HeldIfPromised, LateEnough, Covered
    <2>6. Held
        BY <2>1 DEF Held
    <2>7. OthersPlanned
        BY DEF OthersPlanned, Empty
    <2>8. KeptWhileNeeded
        BY Constants DEF KeptWhileNeeded, Needed
    <2> QED
        BY <2>4, <2>5, <2>6, <2>7, <2>8 DEF IInv
<1>2. IInv /\ [Next]_vars => IInv'
    BY TypesKept, MadeKept, SweptFirstKept, HeldIfPromisedKept, HeldKept, OthersPlannedKept,
       LateEnoughKept, NeededKept, CoveredKept DEF IInv
<1> QED
    BY <1>1, <1>2, PTL DEF Spec

\* Every variable keeps its type.
THEOREM TypeCorrect ==
    Spec => []TypeOK
<1>1. IInv => TypeOK
    BY DEF IInv
<1> QED
    BY <1>1, Invariance, PTL

\* retain_temporary_directory, recover_abandoned and the helper of
\* drag_cleanup.rs: no directory that is of use to its program or to a drop
\* target is removed, unless the worker has no room for it or a program
\* launched later takes it for a leftover.
THEOREM NeededAreKept ==
    Spec => []KeptWhileNeeded
<1>1. IInv => KeptWhileNeeded
    BY DEF IInv
<1> QED
    BY <1>1, Invariance, PTL

\* register and recover_abandoned: each directory that exists has somebody to
\* remove it, or its helper failed or its program died with a clipboard.
THEOREM NoneIsForgotten ==
    Spec => []NoneForgotten
<1>1. IInv => NoneForgotten
    BY CoveredAssigned DEF IInv
<1> QED
    BY <1>1, Invariance, PTL
=============================================================================
