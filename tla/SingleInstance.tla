--------------------------- MODULE SingleInstance ---------------------------
(***************************************************************************)
(* single_instance.rs on Unix: a launch hands its paths to the window that *)
(* listens at the endpoint, or becomes a window of its own.  The endpoint  *)
(* is a name in the file system that a launch removes and binds without a  *)
(* lock, and that a listener leaves behind when it dies.                   *)
(*                                                                         *)
(* A launch stands for its paths: where they are is who holds them.        *)
(***************************************************************************)
EXTENDS Naturals, FiniteSets, Sequences, SequencesExt

CONSTANTS
    Launches,     \* processes
    NoListener,   \* the endpoint has no name
    TooMany,      \* launches with more than the 1,024 paths a window accepts
    MaxExits      \* processes that die, at most

ASSUME RouteAssumption ==
    /\ NoListener \notin Launches /\ TooMany \subseteq Launches
    /\ MaxExits \in Nat

VARIABLES
    pc,        \* where each launch is in route
    peer,      \* the listener a launch is connected to, or NoListener
    endpoint,  \* the process that bound the endpoint's name, or NoListener
    backlog,   \* per window the launches whose message it has not yet read
    channel,   \* per window the messages its listener passed to the window
    opened,    \* per window the launches whose paths it was given to open
    raced,     \* history variable: whether a launch ever started while another
               \* was being routed
    deaths

routeVars == <<pc, peer, endpoint, backlog, channel, opened, raced, deaths>>

Window(p) == pc[p] \in {"listening", "alone"}
Routing(p) == pc[p] \in {"connect", "write", "remove", "bind", "again", "lastWrite"}
Listening == endpoint # NoListener /\ pc[endpoint] = "listening"

Goto(p, label) == pc' = [pc EXCEPT ![p] = label]

----------------------------------------------------------------------------
(* route.                                                                  *)

Start(p) ==
    /\ pc[p] = "off"
    /\ raced' = (raced \/ \E q \in Launches : Routing(q))
    /\ Goto(p, "connect")
    /\ UNCHANGED <<peer, endpoint, backlog, channel, opened, deaths>>

\* UnixStream::connect: a name whose process is gone refuses.
Connect(p) ==
    /\ pc[p] \in {"connect", "again"}
    /\ IF Listening
       THEN /\ peer' = [peer EXCEPT ![p] = endpoint]
            /\ Goto(p, IF pc[p] = "connect" THEN "write" ELSE "lastWrite")
            /\ UNCHANGED opened
       ELSE /\ Goto(p, IF pc[p] = "connect" THEN "remove" ELSE "alone")
            /\ opened' = IF pc[p] = "again" THEN [opened EXCEPT ![p] = {p}]
                         ELSE opened
            /\ UNCHANGED peer
    /\ UNCHANGED <<endpoint, backlog, channel, raced, deaths>>

\* Whoever accepted the connection may close it before it was read to the end:
\* when it dies, or at the count of a message with too many paths.
MayClose(p) == pc[peer[p]] = "dead" \/ p \in TooMany

Disconnect(p) == peer' = [peer EXCEPT ![p] = NoListener]

Delivered(p) ==
    /\ pc[peer[p]] = "listening"
    /\ backlog' = [backlog EXCEPT ![peer[p]] = Append(@, p)]

\* The write failed: try to take the endpoint over or, after the last chance,
\* go on as a window that does not listen.
NotForwarded(p) ==
    /\ MayClose(p)
    /\ Goto(p, IF pc[p] = "write" THEN "remove" ELSE "alone")
    /\ opened' = IF pc[p] = "lastWrite" THEN [opened EXCEPT ![p] = {p}] ELSE opened
    /\ UNCHANGED backlog

\* Mutant: the last chance to forward is taken and its result ignored.
WriteAgain(p) ==
    /\ pc[p] \in {"write", "lastWrite"}
    /\ \/ /\ Delivered(p)
          /\ Goto(p, IF pc[p] = "write" THEN "forwarded" ELSE "alone")
          /\ opened' = IF pc[p] = "lastWrite" THEN [opened EXCEPT ![p] = {p}] ELSE opened
       \/ NotForwarded(p)
    /\ Disconnect(p)
    /\ UNCHANGED <<endpoint, channel, raced, deaths>>

\* write_paths: done once the bytes are in the socket, read or not.
Write(p) ==
    /\ pc[p] \in {"write", "lastWrite"}
    /\ \/ Delivered(p) /\ Goto(p, "forwarded") /\ UNCHANGED opened
       \/ NotForwarded(p)
    /\ Disconnect(p)
    /\ UNCHANGED <<endpoint, channel, raced, deaths>>

\* Mutant: a name left behind by a dead window stays.
RemoveNothing(p) ==
    /\ pc[p] = "remove"
    /\ Goto(p, "bind")
    /\ UNCHANGED <<peer, endpoint, backlog, channel, opened, raced, deaths>>

\* remove_file, whoever bound the name meanwhile.
RemoveName(p) ==
    /\ pc[p] = "remove"
    /\ endpoint' = NoListener
    /\ Goto(p, "bind")
    /\ UNCHANGED <<peer, backlog, channel, opened, raced, deaths>>

\* Mutant: whoever won the race is taken to have opened these paths too.
BindGivesUp(p) ==
    /\ pc[p] = "bind"
    /\ IF endpoint = NoListener
       THEN /\ endpoint' = p
            /\ opened' = [opened EXCEPT ![p] = {p}]
            /\ Goto(p, "listening")
       ELSE Goto(p, "forwarded") /\ UNCHANGED <<endpoint, opened>>
    /\ UNCHANGED <<peer, backlog, channel, raced, deaths>>

\* UnixListener::bind, the listener thread, and the window that opens the
\* launch's own paths; bind refuses a name that exists.
Bind(p) ==
    /\ pc[p] = "bind"
    /\ IF endpoint = NoListener
       THEN /\ endpoint' = p
            /\ opened' = [opened EXCEPT ![p] = {p}]
            /\ Goto(p, "listening")
       ELSE Goto(p, "again") /\ UNCHANGED <<endpoint, opened>>
    /\ UNCHANGED <<peer, backlog, channel, raced, deaths>>

----------------------------------------------------------------------------
(* The window.                                                             *)

\* The listener thread: one connection after the other; a message with too
\* many paths is an error, and the connection is dropped without an answer.
Receive(p) ==
    /\ pc[p] = "listening" /\ backlog[p] # <<>>
    /\ channel' = IF Head(backlog[p]) \in TooMany THEN channel
                  ELSE [channel EXCEPT ![p] = Append(@, Head(backlog[p]))]
    /\ backlog' = [backlog EXCEPT ![p] = Tail(@)]
    /\ UNCHANGED <<pc, peer, endpoint, opened, raced, deaths>>

\* logic: every frame takes all messages; their paths join pending_drop_files.
Frame(p) ==
    /\ Window(p) /\ channel[p] # <<>>
    /\ opened' = [opened EXCEPT ![p] = @ \cup Range(channel[p])]
    /\ channel' = [channel EXCEPT ![p] = <<>>]
    /\ UNCHANGED <<pc, peer, endpoint, backlog, raced, deaths>>

\* A process is closed or killed: its sockets close, the name remains.
Exit(p) ==
    /\ Window(p) \/ Routing(p)
    /\ deaths < MaxExits
    /\ deaths' = deaths + 1
    /\ Goto(p, "dead")
    /\ peer' = [peer EXCEPT ![p] = NoListener]
    /\ backlog' = [backlog EXCEPT ![p] = <<>>]
    /\ channel' = [channel EXCEPT ![p] = <<>>]
    /\ UNCHANGED <<endpoint, opened, raced>>

----------------------------------------------------------------------------
RouteInit ==
    /\ pc = [p \in Launches |-> "off"]
    /\ peer = [p \in Launches |-> NoListener]
    /\ endpoint = NoListener
    /\ backlog = [p \in Launches |-> <<>>]
    /\ channel = [p \in Launches |-> <<>>]
    /\ opened = [p \in Launches |-> {}]
    /\ raced = FALSE /\ deaths = 0

Route(p) == Connect(p) \/ Write(p) \/ RemoveName(p) \/ Bind(p)

RouteNext ==
    \E p \in Launches : Start(p) \/ Route(p) \/ Receive(p) \/ Frame(p) \/ Exit(p)

RouteSpec == RouteInit /\ [][RouteNext]_routeVars

\* A process that runs goes on, its listener is a thread, and a window draws a
\* frame at least every 200 ms.
RouteFairness ==
    \A p \in Launches :
        WF_routeVars(Route(p)) /\ WF_routeVars(Receive(p)) /\ WF_routeVars(Frame(p))

FairRouting == RouteSpec /\ RouteFairness

----------------------------------------------------------------------------
(* Properties.                                                             *)

\* Every variable has its type, and a connection is to a process that listens
\* or has died; not among the properties that are checked.
RouteTypeOK ==
    /\ pc \in [Launches -> {"off", "connect", "write", "remove", "bind", "again",
                            "lastWrite", "listening", "alone", "forwarded", "dead"}]
    /\ peer \in [Launches -> Launches \cup {NoListener}]
    /\ \A p \in Launches :
          IF pc[p] \in {"write", "lastWrite"}
          THEN peer[p] # NoListener /\ pc[peer[p]] \in {"listening", "dead"}
          ELSE peer[p] = NoListener
    /\ endpoint \in Launches \cup {NoListener}
    /\ backlog \in [Launches -> Seq(Launches)] /\ channel \in [Launches -> Seq(Launches)]
    /\ opened \in [Launches -> SUBSET Launches]
    /\ raced \in BOOLEAN /\ deaths \in 0..MaxExits

\* Where launch p's paths are, each place counted.
Places(p) ==
    {<<q, "opened">> : q \in {r \in Launches : p \in opened[r]}}
        \cup {<<q, "channel">> : q \in {r \in Launches : p \in Range(channel[r])}}
        \cup {<<q, "backlog">> : q \in {r \in Launches : p \in Range(backlog[r])}}

\* Whatever dies and however launches race, no launch's paths are opened by
\* two windows, and a launch that gave its paths away does not open them.
OpenedOnce == \A p \in Launches : Cardinality(Places(p)) <= 1

\* Launches that do not race leave one window at most, even after a window
\* died and left its name behind, as long as no message is too long.
OneWindow ==
    ~raced /\ (\A p \in TooMany : pc[p] = "off")
        => Cardinality({p \in Launches : Window(p)}) <= 1

\* However launches race, the paths of each reach a window that opens them,
\* its own or the one it was routed to, unless a process dies or the window
\* refuses the message for its size.
EveryLaunchOpens ==
    \A p \in Launches \ TooMany :
        Routing(p) ~> (deaths > 0 \/ \E q \in Launches : p \in opened[q])
=============================================================================
