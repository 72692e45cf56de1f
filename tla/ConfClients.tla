---------------------------- MODULE ConfClients ----------------------------
(***************************************************************************)
(* The clients of the conference (confclient.c), and the kernel between    *)
(* them and a server: the backlog of connect requests, the table of the    *)
(* server's descriptors and the two socket buffers of a connection, each   *)
(* with Room messages.  The k-th message of a client is <<c, k>>, so that  *)
(* a buffer is a number of messages.  ConfServer and SelectServer extend   *)
(* this module with a server.                                              *)
(***************************************************************************)
EXTENDS Naturals, Sequences, FiniteSets, FiniteSetsExt

CONSTANTS Clients,
          NoClient,
          Room,    \* messages that a socket buffer holds
          Parties  \* bounds: how many lines each user who takes part types,
                   \* which clients leave, how often a call of the server fails

ASSUME RoomAssumption == /\ Room \in Nat \ {0}
                         /\ IsFiniteSet(Clients)
                         /\ NoClient \notin Clients

servsock == 3
Fds == (servsock + 1)..(servsock + Cardinality(Clients))

VARIABLES party,    \* the member of Parties that this run is about
          cl,       \* out, idle, sending or gone
          typed,    \* the lines that a user has typed
          taken,    \* the messages of a client that the server has read
          up,       \* the messages in the server's receive buffer
          unread,   \* the messages in the client's receive buffer
          backlog,  \* the clients waiting in listen's queue
          file,     \* the client at the other end of a descriptor
          log,      \* history: the messages that the server forwards, in order
          fed,      \* history: the messages written to each client, in order
          joined    \* history: the length of log when a client became a member

clientVars == <<party, cl, typed, taken, up, unread>>
kernelVars == <<backlog, file>>
historyVars == <<log, fed, joined>>
confVars == <<clientVars, kernelVars, historyVars>>

ConfInit == /\ party \in Parties
            /\ cl = [c \in Clients |-> "out"]
            /\ typed = [c \in Clients |-> 0]
            /\ taken = [c \in Clients |-> 0]
            /\ up = [c \in Clients |-> 0]
            /\ unread = [c \in Clients |-> 0]
            /\ backlog = <<>>
            /\ file = [fd \in Fds |-> NoClient]
            /\ log = <<>>
            /\ fed = [c \in Clients |-> <<>>]
            /\ joined = [c \in Clients |-> 0]

Alive(c) == cl[c] \in {"idle", "sending"}

\* hooktoserver: the connection is set up by the kernel, before any accept.
\* When the server is down or unknown, the client exits.
Connect(c, serverUp) ==
    /\ cl[c] = "out"
    /\ c \in DOMAIN party.lines
    /\ \/ /\ serverUp
          /\ cl' = [cl EXCEPT ![c] = "idle"]
          /\ backlog' = Append(backlog, c)
       \/ /\ ~serverUp
          /\ cl' = [cl EXCEPT ![c] = "gone"]
          /\ UNCHANGED backlog
    /\ UNCHANGED <<party, typed, taken, up, unread, file, historyVars>>

\* select finds the socket readable, recvtext returns a message or NULL.
\* held: the server still holds its end of the connection.
ReadServer(c, held) ==
    /\ cl[c] = "idle"
    /\ \/ /\ unread[c] > 0
          /\ unread' = [unread EXCEPT ![c] = @ - 1]
          /\ UNCHANGED cl
       \/ /\ unread[c] = 0
          /\ ~held
          /\ cl' = [cl EXCEPT ![c] = "gone"]
          /\ UNCHANGED unread
    /\ UNCHANGED <<party, typed, taken, up, kernelVars, historyVars>>

\* select finds standard input readable: fgets returns a line or the end.
ReadUser(c) ==
    /\ cl[c] = "idle"
    /\ \/ /\ typed[c] < party.lines[c]
          /\ cl' = [cl EXCEPT ![c] = "sending"]
          /\ typed' = [typed EXCEPT ![c] = @ + 1]
       \/ /\ c \in party.leavers
          /\ cl' = [cl EXCEPT ![c] = "gone"]
          /\ UNCHANGED typed
    /\ UNCHANGED <<party, taken, up, unread, kernelVars, historyVars>>

\* sendtext of a client: it blocks while the buffer is full, and at a closed
\* connection the message is lost or SIGPIPE ends the client.
SendUp(c, held) ==
    /\ cl[c] = "sending"
    /\ \/ /\ held
          /\ up[c] < Room
          /\ up' = [up EXCEPT ![c] = @ + 1]
          /\ cl' = [cl EXCEPT ![c] = "idle"]
       \/ /\ ~held
          /\ cl' \in {[cl EXCEPT ![c] = s] : s \in {"idle", "gone"}}
          /\ UNCHANGED up
    /\ UNCHANGED <<party, typed, taken, unread, kernelVars, historyVars>>

\* The user kills a client that hangs in its sendtext.
Killed(c) == /\ cl[c] = "sending"
             /\ c \in party.leavers
             /\ cl' = [cl EXCEPT ![c] = "gone"]
             /\ UNCHANGED <<party, typed, taken, up, unread, kernelVars, historyVars>>

\* A client whose server does not take what it sends and that takes nothing
\* itself: both buffers of the connection are full, and it is in its sendtext.
Jammed(c) == c # NoClient /\ cl[c] = "sending" /\ up[c] = Room /\ unread[c] = Room

----------------------------------------------------------------------------
\* What a server asks of the kernel.

\* accept returns the lowest free descriptor.
FreeFds == {fd \in Fds : file[fd] = NoClient}
Accepted(fd) == /\ backlog # <<>>
                /\ FreeFds # {}
                /\ fd = Min(FreeFds)
                /\ file' = [file EXCEPT ![fd] = Head(backlog)]
                /\ backlog' = Tail(backlog)

\* recvtext returns NULL at the end of the input.
AtEnd(c) == up[c] = 0 /\ cl[c] = "gone"
RecvText(c) == /\ up[c] > 0
               /\ up' = [up EXCEPT ![c] = @ - 1]
               /\ taken' = [taken EXCEPT ![c] = @ + 1]

\* sendtext of a server: it blocks while the client's buffer is full, and
\* what is written to a client that has gone is lost.
SendText(c, msg) ==
    IF c # NoClient /\ Alive(c)
    THEN /\ unread[c] < Room
         /\ unread' = [unread EXCEPT ![c] = @ + 1]
         /\ fed' = [fed EXCEPT ![c] = Append(@, msg)]
    ELSE UNCHANGED <<unread, fed>>

----------------------------------------------------------------------------
\* What a member was sent: all that the others said since it joined, up to a
\* place of the log, each message at its rank among them.
Owed(c, upTo) == {k \in (joined[c] + 1)..upTo : log[k][1] # c}
HasHeard(c, upTo) == /\ Len(fed[c]) = Cardinality(Owed(c, upTo))
                     /\ \A k \in Owed(c, upTo) : fed[c][Cardinality(Owed(c, k))] = log[k]
============================================================================
