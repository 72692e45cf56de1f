----------------------------- MODULE Conference -----------------------------
(***************************************************************************)
(* Either server of the conference with its clients: program says which of *)
(* the two runs.                                                           *)
(***************************************************************************)
EXTENDS ConfServer, SelectServer

VARIABLE program

vars == <<program, confVars, serverVars, selectVars>>

Init == /\ program \in {"threads", "select"}
        /\ ServerInit
        /\ SelectInit

Next == \/ program = "threads" /\ ServerNext /\ UNCHANGED <<program, selectVars>>
        \/ program = "select" /\ SelectNext /\ UNCHANGED <<program, serverVars>>

\* The kernel runs every thread that can run, and a client that is waiting in
\* its select reads what has arrived.  The user types when he likes.
Threaded(A) == program = "threads" /\ A /\ UNCHANGED <<program, selectVars>>
Selected(A) == program = "select" /\ A /\ UNCHANGED <<program, serverVars>>

Fairness ==
    /\ \A t \in Threads : WF_vars(Threaded(Worker(t)))
    /\ WF_vars(Threaded(Acceptor))
    /\ WF_vars(Selected(SelectServe))
    /\ \A d \in Clients :
         /\ WF_vars(Threaded((ReadServer(d, Held(d)) \/ SendUp(d, Held(d))) /\ UNCHANGED serverVars))
         /\ WF_vars(Selected((ReadServer(d, HeldBySelect(d)) \/ SendUp(d, HeldBySelect(d)))
                             /\ UNCHANGED selectVars))

Spec == Init /\ [][Next]_vars /\ Fairness

\* Whatever the server, a member of the conference hears all that the others
\* say after it has joined, each message once and all members in one order
\* (multi-threaded-confserver.c:78-89, confserver.c:143-152).
MembersHearAll == IF program = "threads" THEN MemberHears ELSE SelectMemberHears

\* A message that a server has begun to forward gets to the end of the table,
\* or the server hangs in a write to a client that writes and does not read.
ForwardingEnds == ForwardEnds /\ SelectSendEnds
=============================================================================
