---------------------------- MODULE SelectServer ----------------------------
(***************************************************************************)
(* confserver.c of the first network project: one thread serves all the    *)
(* clients, and select tells it which descriptors it may read.  masterset  *)
(* is never cleared before its first use; the stray bits can only be those *)
(* of descriptors 0 to 2, which make select return early and which no loop *)
(* looks at.                                                               *)
(***************************************************************************)
EXTENDS ConfClients

VARIABLES masterset,  \* the clients' descriptors in masterset
          livesdset,  \* the descriptors select found ready, not yet handled
          livesdmax,  \* the largest descriptor looked at
          at,         \* start, select, scan, send, accept or ended
          frsock,     \* the descriptor whose message is being sent
          targets     \* the descriptors it has still to be sent to

selectVars == <<masterset, livesdset, livesdmax, at, frsock, targets>>

SelectInit == /\ ConfInit
              /\ masterset = {}
              /\ livesdset = {}
              /\ livesdmax = servsock
              /\ at = "start"
              /\ frsock = servsock
              /\ targets = {}

HeldBySelect(c) == /\ at # "ended"
                   /\ \/ \E n \in DOMAIN backlog : backlog[n] = c
                      \/ \E fd \in Fds : file[fd] = c

\* startserver, or the exit of main where it fails.
StartListening == /\ at = "start"
                  /\ at' = "select"
                  /\ UNCHANGED <<confVars, masterset, livesdset, livesdmax, frsock, targets>>

Readable(fd) == up[file[fd]] > 0 \/ AtEnd(file[fd])

Select == /\ at = "select"
          /\ livesdset' = {fd \in masterset : Readable(fd)}
                          \cup {fd \in {servsock} : backlog # <<>>}
          /\ livesdset' # {}
          /\ at' = "scan"
          /\ UNCHANGED <<confVars, masterset, livesdmax, frsock, targets>>

\* The ready descriptors up to livesdmax, the smallest first.
Ready == {fd \in livesdset : fd # servsock /\ fd <= livesdmax}

\* The message is for all in masterset but its sender.
Receive == /\ at = "scan"
           /\ Ready # {}
           /\ LET fd == Min(Ready) IN
                /\ RecvText(file[fd])
                /\ frsock' = fd
                /\ targets' = {s \in masterset : s <= livesdmax} \ {fd}
                /\ log' = Append(log, <<file[fd], taken'[file[fd]]>>)
           /\ at' = "send"
           /\ UNCHANGED <<party, cl, typed, unread, kernelVars, fed, joined, masterset, livesdset, livesdmax>>

Disconnect == /\ at = "scan"
              /\ Ready # {}
              /\ LET fd == Min(Ready) IN
                   /\ AtEnd(file[fd])
                   /\ masterset' = masterset \ {fd}
                   /\ livesdset' = livesdset \ {fd}
                   /\ file' = [file EXCEPT ![fd] = NoClient]
              /\ UNCHANGED <<clientVars, backlog, historyVars, livesdmax, at, frsock, targets>>

SendNext == /\ at = "send"
            /\ targets # {}
            /\ SendText(file[Min(targets)], log[Len(log)])
            /\ targets' = targets \ {Min(targets)}
            /\ UNCHANGED <<party, cl, typed, taken, up, kernelVars, log, joined, masterset, livesdset,
                           livesdmax, at, frsock>>

SendDone == /\ at = "send"
            /\ targets = {}
            /\ livesdset' = livesdset \ {frsock}
            /\ at' = "scan"
            /\ UNCHANGED <<confVars, masterset, livesdmax, frsock, targets>>

\* SIGPIPE is not masked here: a write to a client that has gone may end the
\* whole server.
Ended == /\ at' = "ended"
         /\ file' = [fd \in Fds |-> NoClient]
         /\ backlog' = <<>>
         /\ UNCHANGED <<clientVars, historyVars, masterset, livesdset, livesdmax, frsock, targets>>

Sigpipe == /\ at = "send"
           /\ targets # {}
           /\ ~Alive(file[Min(targets)])
           /\ Ended

\* After the clients, the connect request that select saw.
AcceptReady == /\ at = "scan"
               /\ Ready = {}
               /\ servsock \in livesdset
               /\ \E fd \in Fds :
                    /\ Accepted(fd)
                    /\ masterset' = masterset \cup {fd}
                    /\ livesdmax' = Max({livesdmax, fd})
                    /\ joined' = [joined EXCEPT ![Head(backlog)] = Len(log)]
               /\ livesdset' = {}
               /\ at' = "select"
               /\ UNCHANGED <<clientVars, log, fed, frsock, targets>>

ListeningFails == /\ at = "start"
                  /\ party.faults > 0
                  /\ Ended

\* A failed accept ends this server.
AcceptExits == /\ at = "scan"
               /\ party.faults > 0
               /\ Ready = {}
               /\ servsock \in livesdset
               /\ Ended

ScanDone == /\ at = "scan"
            /\ livesdset = {}
            /\ at' = "select"
            /\ UNCHANGED <<confVars, masterset, livesdset, livesdmax, frsock, targets>>

SelectClient(c) ==
    /\ \/ Connect(c, at \notin {"start", "ended"})
       \/ ReadServer(c, HeldBySelect(c))
       \/ ReadUser(c)
       \/ SendUp(c, HeldBySelect(c))
       \/ Killed(c)
    /\ UNCHANGED selectVars

SelectServe == \/ StartListening \/ Select \/ Receive \/ Disconnect \/ SendNext \/ SendDone
               \/ AcceptReady \/ ScanDone

SelectNext == \/ \E c \in Clients : SelectClient(c)
              \/ SelectServe \/ ListeningFails \/ Sigpipe \/ AcceptExits

----------------------------------------------------------------------------
\* A member has been sent all that the others said since it was accepted, in
\* the order of the conference, but for the message on its way to it now.
SelectMemberHears ==
    at # "ended" =>
        \A fd \in masterset :
            Alive(file[fd]) =>
                HasHeard(file[fd], IF fd \in targets THEN Len(log) - 1 ELSE Len(log))

\* The loop over the clients ends, or the server hangs in a write to a client
\* that hangs in a write to the server.
SelectSendEnds == at = "send" ~> \/ at # "send"
                                 \/ targets # {} /\ Jammed(file[Min(targets)])
=============================================================================
