----------------------------- MODULE Descriptors ----------------------------
(***************************************************************************)
(* The server's descriptors and processes: what accept(), open(), pipe()   *)
(* and fork() take, what is given back and when, and what a process        *)
(* inherits.  Nothing is closed on execve(): fcntl( F_SETFL ) does not look *)
(* at the FD_CLOEXEC it is given (HTTP.cpp:37).  CgiProcess and Connection *)
(* have the events; here they come in any order, and what stops the server *)
(* is left out: its descriptors go with it.                                *)
(***************************************************************************)
EXTENDS Naturals, FiniteSets

CONSTANTS
  Client,     \* the connections
  Script,     \* the CGI objects
  Limit,      \* descriptors the server may have besides its listening sockets
  MaxProcs    \* processes it may have, the ones not waited for included

VARIABLES
  open,       \* the descriptors of the server
  held,       \* those of the process of each CGI object
  conn,       \* the connections: "none", "open", "refused" by accept(), "closed"
  script,     \* the CGI objects: how far execute() came, or how they ended
  process     \* the processes

descriptors == <<open, held, conn, script, process>>

Sock(h) == <<"sock", h>>
FileOf(c) == <<"file", c>>
ReadEnd(c) == <<"read", c>>
WriteEnd(c) == <<"write", c>>
Descriptor ==
  {Sock(h) : h \in Client} \cup {FileOf(c) : c \in Script}
    \cup {ReadEnd(c) : c \in Script} \cup {WriteEnd(c) : c \in Script}

DescriptorsInit ==
  /\ open = {}
  /\ held = [c \in Script |-> {}]
  /\ conn = [h \in Client |-> "none"]
  /\ script = [c \in Script |-> "unborn"]
  /\ process = [c \in Script |-> "none"]

Room(n) == Cardinality(open) + n <= Limit
Forked == {c \in Script : process[c] # "none"}

\* HTTP(): an object whose accept() failed is left behind, without events.
AcceptSocket(h) ==
  /\ conn[h] = "none"
  /\ IF Room(1)
     THEN /\ conn' = [conn EXCEPT ![h] = "open"]
          /\ open' = open \cup {Sock(h)}
     ELSE /\ conn' = [conn EXCEPT ![h] = "refused"]
          /\ UNCHANGED open
  /\ UNCHANGED <<held, script, process>>

\* ~HTTP().  Mutation: nothing is closed.
ClosedNothing(h) == {}
ClosedWith(h) == {Sock(h)}

\* The connection is deleted, for whatever reason.
CloseConnection(h) ==
  /\ conn[h] = "open"
  /\ conn' = [conn EXCEPT ![h] = "closed"]
  /\ open' = open \ ClosedWith(h)
  /\ UNCHANGED <<held, script, process>>

-----------------------------------------------------------------------------
(* CGI::execute(), for a request of some connection.  What a call that fails *)
(* leaves open stays open; the CGI object stays, too.                        *)

Starts(c) == script[c] = "unborn" /\ \E h \in Client : conn[h] = "open"

\* open() fails: 404.
NoFile(c) ==
  /\ Starts(c)
  /\ ~Room(1)
  /\ script' = [script EXCEPT ![c] = "nofile"]
  /\ UNCHANGED <<open, held, conn, process>>

\* pipe() fails: the reply has status 0.
NoPipe(c) ==
  /\ Starts(c)
  /\ Room(1) /\ ~Room(3)
  /\ script' = [script EXCEPT ![c] = "nopipe"]
  /\ open' = open \cup {FileOf(c)}
  /\ UNCHANGED <<held, conn, process>>

\* fork() fails.  Mutation: it is not noticed.
NoForkUnseen(c) ==
  /\ Starts(c)
  /\ Room(3)
  /\ Cardinality(Forked) >= MaxProcs
  /\ script' = [script EXCEPT ![c] = "live"]
  /\ open' = open \cup {FileOf(c), ReadEnd(c)}
  /\ UNCHANGED <<held, conn, process>>

NoFork(c) ==
  /\ Starts(c)
  /\ Room(3)
  /\ Cardinality(Forked) >= MaxProcs
  /\ script' = [script EXCEPT ![c] = "nofork"]
  /\ open' = open \cup {FileOf(c), ReadEnd(c), WriteEnd(c)}
  /\ UNCHANGED <<held, conn, process>>

\* The server closes the end it does not write to, the process the one it
\* does not read from.  Mutation: the server does not.
AfterForkBoth(c) == {FileOf(c), ReadEnd(c), WriteEnd(c)}
AfterFork(c) == {FileOf(c), ReadEnd(c)}

Fork(c) ==
  /\ Starts(c)
  /\ Room(3)
  /\ Cardinality(Forked) < MaxProcs
  /\ script' = [script EXCEPT ![c] = "live"]
  /\ process' = [process EXCEPT ![c] = "running"]
  /\ open' = open \cup AfterFork(c)
  /\ held' = [held EXCEPT ![c] = open \cup {FileOf(c), WriteEnd(c)}]
  /\ UNCHANGED conn

-----------------------------------------------------------------------------
\* The end of a process.  It is not waited for, so that it keeps its place.
ProcessExit(c) ==
  /\ process[c] = "running"
  /\ process' = [process EXCEPT ![c] = "exited"]
  /\ held' = [held EXCEPT ![c] = {}]
  /\ UNCHANGED <<open, conn, script>>

\* CGI::dispatch(), EVFILT_PROC: the pipe is read to its end and closed, or
\* read() fails and it is not.  Mutation: it is closed neither way.
ClosedNever(c) == {}
ClosedAtEnd(c) == {ReadEnd(c)}

ScriptOutput(c) ==
  /\ script[c] = "live"
  /\ process[c] = "exited"
  /\ \/ /\ script' = [script EXCEPT ![c] = "done"]
        /\ open' = open \ ClosedAtEnd(c)
     \/ /\ script' = [script EXCEPT ![c] = "unread"]
        /\ UNCHANGED open
  /\ UNCHANGED <<held, conn, process>>

\* EVFILT_TIMER: nothing is closed, and the process is not killed.
ScriptTimer(c) ==
  /\ script[c] = "live"
  /\ script' = [script EXCEPT ![c] = "timedout"]
  /\ UNCHANGED <<open, held, conn, process>>

ExecuteScript(c) == NoFile(c) \/ NoPipe(c) \/ NoFork(c) \/ Fork(c)

DescriptorsNext ==
  \/ \E h \in Client : AcceptSocket(h) \/ CloseConnection(h)
  \/ \E c \in Script : ExecuteScript(c) \/ ProcessExit(c) \/ ScriptOutput(c) \/ ScriptTimer(c)

DescriptorsSpec == DescriptorsInit /\ [][DescriptorsNext]_descriptors

-----------------------------------------------------------------------------
(* Properties *)

ScriptLife == {"unborn", "nofile", "nopipe", "nofork", "live", "done", "unread", "timedout"}

\* Every variable has its type, and there is a process exactly for the CGI
\* objects that got past fork() (CGI.cpp:180-200).
DescriptorsTypeOK ==
  /\ open \subseteq Descriptor
  /\ held \in [Script -> SUBSET Descriptor]
  /\ conn \in [Client -> {"none", "open", "refused", "closed"}]
  /\ script \in [Script -> ScriptLife]
  /\ process \in [Script -> {"none", "running", "exited"}]
  /\ \A c \in Script :
       /\ process[c] = "none" <=> script[c] \in {"unborn", "nofile", "nopipe", "nofork"}
       /\ held[c] # {} => process[c] = "running"

\* What the server has open is accounted for: the socket of every connection
\* that lives; for each execute() that came past open(), ended or not, the
\* file; and the pipe of a process that is not done with, or never will be
\* (CGI.cpp:168-196, 121-145).
Accounted ==
  open = {Sock(h) : h \in {k \in Client : conn[k] = "open"}}
    \cup {FileOf(c) : c \in {k \in Script : script[k] \notin {"unborn", "nofile"}}}
    \cup {ReadEnd(c) : c \in {k \in Script : script[k] \in {"nofork", "live", "unread", "timedout"}}}
    \cup {WriteEnd(c) : c \in {k \in Script : script[k] = "nofork"}}

\* When a process has ended nobody can write to its pipe any more, no process
\* that was forked meanwhile either: the read() of dispatch(), which blocks,
\* comes to an end and does not stop the server (CGI.cpp:110-118).
OutputEnds ==
  \A c \in Script : script[c] = "live" /\ process[c] = "exited" =>
    /\ WriteEnd(c) \notin open
    /\ \A d \in Script : WriteEnd(c) \notin held[d]

\* A connection that was closed looks open to its client only as long as a
\* process runs that was forked while it was open, on behalf of whichever
\* connection; and never because of the server itself (HTTP.cpp:37).
LingersInProcesses ==
  \A h \in Client : conn[h] = "closed" =>
    /\ Sock(h) \notin open
    /\ \A c \in Script : Sock(h) \in held[c] => process[c] = "running"

\* Who holds which descriptor, what stays open for good, and for how long a
\* closed connection looks open to its client (CGI.cpp:121-196, HTTP.cpp:37).
HoldersKnown == DescriptorsTypeOK /\ Accounted /\ LingersInProcesses
=============================================================================
