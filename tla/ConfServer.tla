----------------------------- MODULE ConfServer -----------------------------
(***************************************************************************)
(* multi-threaded-confserver.c of the first network project: one thread    *)
(* accepts, one thread per client reads its messages and forwards each to  *)
(* all the others, and the table of open sockets is behind a mutex.        *)
(***************************************************************************)
EXTENDS ConfClients

VARIABLES open_sockets, \* open_sockets[0 .. open_sockets_count - 1]
          lock,         \* the thread in the mutex, or NoThread
          clientsock,   \* the local variable of accept_new_client
          acceptor,     \* start, accept, add, create, drop or ended
          th,           \* the client threads, in the order of their creation
          faults,       \* bound: the failures so far
          clean         \* history: every thread has read its own descriptor

serverVars == <<open_sockets, lock, clientsock, acceptor, th, faults, clean>>

Threads == 1..Cardinality(Clients)
NoThread == 0
BadSocket == 0  \* the -1 of a failed accept
NoMsg == <<NoClient, 0>>
FreshThread == [pc |-> "none", sock |-> BadSocket, conn |-> NoClient, msg |-> NoMsg, i |-> 0]

ServerInit == /\ ConfInit
              /\ open_sockets = <<>>
              /\ lock = NoThread
              /\ clientsock = BadSocket
              /\ acceptor = "start"
              /\ th = [t \in Threads |-> FreshThread]
              /\ faults = 0
              /\ clean = TRUE

ServerUp == acceptor \notin {"start", "ended"}
FileOf(sock) == IF sock \in Fds THEN file[sock] ELSE NoClient

\* The server's end of a connection stays open while a descriptor names it or
\* a read is under way on it.
Held(c) == /\ ServerUp
           /\ \/ \E n \in DOMAIN backlog : backlog[n] = c
              \/ \E fd \in Fds : file[fd] = c
              \/ \E t \in Threads : th[t].pc = "recv" /\ th[t].conn = c

----------------------------------------------------------------------------
\* add_socket and remove_socket, under the lock.

AddSocket(sock) == /\ lock = NoThread
                   /\ open_sockets' = Append(open_sockets, sock)

\* Mistaken variant: the last entry is cut off before it takes the free place.
RemoveSocketUnmoved(sock) ==
    /\ lock = NoThread
    /\ open_sockets' = SubSeq(open_sockets, 1, Len(open_sockets) - 1)

\* The last entry takes the place of the first one that matches.
RemoveSocket(sock) ==
    /\ lock = NoThread
    /\ LET places == {i \in DOMAIN open_sockets : open_sockets[i] = sock}
           last == Len(open_sockets)
       IN  open_sockets' =
             IF places = {} THEN open_sockets
             ELSE SubSeq([open_sockets EXCEPT ![Min(places)] = open_sockets[last]], 1, last - 1)

----------------------------------------------------------------------------
\* accept_new_client

StartServer == /\ acceptor = "start"
               /\ acceptor' = "accept"
               /\ UNCHANGED <<confVars, open_sockets, lock, clientsock, th, faults, clean>>

\* startserver returns -1 when bind, gethostname or getsockname fails, and the
\* program exits.  A failed socket is tested for in vain, but bind fails then.
StartFails == /\ acceptor = "start"
              /\ faults < party.faults
              /\ faults' = faults + 1
              /\ acceptor' = "ended"
              /\ UNCHANGED <<confVars, open_sockets, lock, clientsock, th, clean>>

Accept(fd) == /\ acceptor = "accept"
              /\ Accepted(fd)
              /\ clientsock' = fd
              /\ acceptor' = "add"
              /\ UNCHANGED <<clientVars, historyVars, open_sockets, lock, th, faults, clean>>

\* accept fails: the loop goes on, with -1 in the variable that the threads read.
AcceptFails == /\ acceptor = "accept"
               /\ faults < party.faults
               /\ faults' = faults + 1
               /\ clientsock' = BadSocket
               /\ UNCHANGED <<confVars, open_sockets, lock, acceptor, th, clean>>

Add == /\ acceptor = "add"
       /\ AddSocket(clientsock)
       /\ joined' = [c \in Clients |-> IF c = FileOf(clientsock) THEN Len(log) ELSE joined[c]]
       /\ acceptor' = "create"
       /\ UNCHANGED <<clientVars, kernelVars, log, fed, lock, clientsock, th, faults, clean>>

\* pthread_create hands over the address of clientsock, not its value: sock is
\* what the new thread should read there.
Create(t) == /\ acceptor = "create"
             /\ th[t].pc = "none"
             /\ \A u \in Threads : u < t => th[u].pc # "none"
             /\ th' = [th EXCEPT ![t] = [FreshThread EXCEPT !.pc = "start", !.sock = clientsock]]
             /\ acceptor' = "accept"
             /\ UNCHANGED <<confVars, open_sockets, lock, clientsock, faults, clean>>

CreateFails == /\ acceptor = "create"
               /\ faults < party.faults
               /\ faults' = faults + 1
               /\ acceptor' = "drop"
               /\ UNCHANGED <<confVars, open_sockets, lock, clientsock, th, clean>>

\* The acceptor takes the socket back and exits: main's join returns, and the
\* return from main ends every thread and closes every connection.
Drop == /\ acceptor = "drop"
        /\ RemoveSocket(clientsock)
        /\ acceptor' = "ended"
        /\ file' = [fd \in Fds |-> NoClient]
        /\ backlog' = <<>>
        /\ th' = [t \in Threads |-> [FreshThread EXCEPT !.pc = "done"]]
        /\ UNCHANGED <<clientVars, historyVars, lock, clientsock, faults, clean>>

----------------------------------------------------------------------------
\* process_single_client

Goto(t, pc) == th' = [th EXCEPT ![t].pc = pc]

Start(t) == /\ th[t].pc = "start"
            /\ th' = [th EXCEPT ![t].pc = "call", ![t].sock = clientsock]
            /\ clean' = (clean /\ clientsock = th[t].sock)
            /\ UNCHANGED <<confVars, open_sockets, lock, clientsock, acceptor, faults>>

\* recvtext begins to read from the connection that the descriptor names now.
Call(t) == /\ th[t].pc = "call"
           /\ LET c == FileOf(th[t].sock)
              IN  th' = [th EXCEPT ![t].conn = c,
                                   ![t].pc = IF c = NoClient THEN "remove" ELSE "recv"]
           /\ UNCHANGED <<confVars, open_sockets, lock, clientsock, acceptor, faults, clean>>

Recv(t) == LET c == th[t].conn IN
    /\ th[t].pc = "recv"
    /\ \/ /\ RecvText(c)
          /\ th' = [th EXCEPT ![t].pc = "forward", ![t].msg = <<c, taken'[c]>>]
       \/ /\ AtEnd(c)
          /\ Goto(t, "remove")
          /\ UNCHANGED <<taken, up>>
    /\ UNCHANGED <<party, cl, typed, unread, kernelVars, historyVars, open_sockets, lock, clientsock,
                   acceptor, faults, clean>>

\* Mistaken variant: the message is forwarded outside of the mutex.
ForwardUnlocked(t) ==
    /\ th[t].pc = "forward"
    /\ log' = Append(log, th[t].msg)
    /\ th' = [th EXCEPT ![t].pc = "send", ![t].i = 1]
    /\ UNCHANGED <<clientVars, kernelVars, fed, joined, open_sockets, lock, clientsock, acceptor, faults, clean>>

Forward(t) == /\ th[t].pc = "forward"
              /\ lock = NoThread
              /\ lock' = t
              /\ log' = Append(log, th[t].msg)
              /\ th' = [th EXCEPT ![t].pc = "send", ![t].i = 1]
              /\ UNCHANGED <<clientVars, kernelVars, fed, joined, open_sockets, clientsock,
                             acceptor, faults, clean>>

\* Mistaken variant: the sender's own place is skipped before i is counted up.
SendStaysAtOwn(t) == LET i == th[t].i IN
    /\ th[t].pc = "send"
    /\ i <= Len(open_sockets)
    /\ open_sockets[i] # th[t].sock
    /\ SendText(FileOf(open_sockets[i]), th[t].msg)
    /\ th' = [th EXCEPT ![t].i = i + 1]
    /\ UNCHANGED <<party, cl, typed, taken, up, kernelVars, log, joined, open_sockets, lock, clientsock,
                   acceptor, faults, clean>>

\* One turn of the loop over the table; the lock is kept while a write blocks.
Send(t) == LET i == th[t].i IN
    /\ th[t].pc = "send"
    /\ i <= Len(open_sockets)
    /\ IF open_sockets[i] = th[t].sock
       THEN UNCHANGED <<unread, fed>>
       ELSE SendText(FileOf(open_sockets[i]), th[t].msg)
    /\ th' = [th EXCEPT ![t].i = i + 1]
    /\ UNCHANGED <<party, cl, typed, taken, up, kernelVars, log, joined, open_sockets, lock, clientsock,
                   acceptor, faults, clean>>

Sent(t) == /\ th[t].pc = "send"
           /\ th[t].i > Len(open_sockets)
           /\ lock' = NoThread
           /\ th' = [th EXCEPT ![t].pc = "call", ![t].i = 0, ![t].msg = NoMsg]
           /\ UNCHANGED <<confVars, open_sockets, clientsock, acceptor, faults, clean>>

DropSocket(t) == /\ th[t].pc = "remove"
                 /\ RemoveSocket(th[t].sock)
                 /\ Goto(t, "close")
                 /\ UNCHANGED <<confVars, lock, clientsock, acceptor, faults, clean>>

Close(t) == /\ th[t].pc = "close"
            /\ file' = [fd \in Fds |-> IF fd = th[t].sock THEN NoClient ELSE file[fd]]
            /\ th' = [th EXCEPT ![t] = [FreshThread EXCEPT !.pc = "done"]]
            /\ UNCHANGED <<clientVars, backlog, historyVars, open_sockets, lock, clientsock,
                           acceptor, faults, clean>>

----------------------------------------------------------------------------
ServerClient(c) ==
    /\ \/ Connect(c, ServerUp)
       \/ ReadServer(c, Held(c))
       \/ ReadUser(c)
       \/ SendUp(c, Held(c))
       \/ Killed(c)
    /\ UNCHANGED serverVars

Acceptor == \/ \E fd \in Fds : Accept(fd)
            \/ StartServer \/ Add \/ Drop
            \/ \E t \in Threads : Create(t)

Worker(t) == \/ Start(t) \/ Call(t) \/ Recv(t) \/ Forward(t)
             \/ Send(t) \/ Sent(t) \/ DropSocket(t) \/ Close(t)

ServerNext == \/ \E c \in Clients : ServerClient(c)
              \/ Acceptor \/ StartFails \/ AcceptFails \/ CreateFails
              \/ \E t \in Threads : Worker(t)
ServerSpec == ServerInit /\ [][ServerNext]_<<confVars, serverVars>>

----------------------------------------------------------------------------
\* What the tables of the server are for.

\* A descriptor whose socket some thread, or the acceptor, still owns.
Owned(fd) == \/ acceptor \in {"create", "drop"} /\ clientsock = fd
             \/ \E t \in Threads : /\ th[t].sock = fd
                                 /\ th[t].pc \in {"start", "call", "recv", "forward", "send", "remove"}

\* As long as no thread was late in reading its descriptor from the acceptor's
\* variable, the table holds every socket in use, once, and no other: nothing
\* is forwarded to a descriptor that was closed and given to somebody else.
TableIsLive ==
    clean /\ ServerUp =>
        /\ \A i, j \in DOMAIN open_sockets : open_sockets[i] = open_sockets[j] => i = j
        /\ {open_sockets[i] : i \in DOMAIN open_sockets} = {fd \in Fds : Owned(fd)}
        /\ \A fd \in Fds : Owned(fd) => file[fd] # NoClient

\* A member has been sent all that the others said since it joined, in the one
\* order of the conference, but for the message on its way to it now.
MemberHears ==
    clean /\ ServerUp =>
        \A i \in DOMAIN open_sockets :
            LET c == FileOf(open_sockets[i])
                ahead == lock # NoThread /\ th[lock].i <= i
            IN  Alive(c) => HasHeard(c, IF ahead THEN Len(log) - 1 ELSE Len(log))

\* A thread ends its loop over the table and leaves the mutex, or it hangs in a
\* write to a client that hangs in a write to the server.
ForwardEnds ==
    \A t \in Threads :
        th[t].pc = "send" ~> \/ th[t].pc # "send"
                            \/ \E i \in DOMAIN open_sockets :
                                    th[t].i = i /\ Jammed(FileOf(open_sockets[i]))
=============================================================================
