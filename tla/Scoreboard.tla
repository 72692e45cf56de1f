----------------------------- MODULE Scoreboard -----------------------------
(***************************************************************************)
(* The scoreboard simulator (computer_arch/second_project): instructions   *)
(* are issued to functional units in their order, or dispatched to a queue *)
(* and issued from it as soon as nothing holds them back.  An instruction  *)
(* is its number in the program, its operands are registers or NoRegister. *)
(* The simulator computes no values; the history variables record which    *)
(* instruction wrote what is read.                                         *)
(***************************************************************************)
EXTENDS Integers, Sequences, SequencesExt, FiniteSetsExt

CONSTANTS Boards,    \* the input files: instructions, orderType, issueWidth, cacheMiss
          NoRegister \* a number in the place of an operand

\* Every line is an operation with three operands.
ASSUME BoardAssumption ==
    \A file \in Boards :
      /\ file.instructions \in Seq([operation : STRING, operands : [1..3 -> STRING \cup {NoRegister}]])
      /\ file.cacheMiss \in Nat

VARIABLES scorePc,        \* start, clock, issue, dispatch, done or exit
          board,          \* the member of Boards that is simulated
          cycle,
          status,         \* Waiting, Dispatched, Issued or Completed
          cyclesLeft,
          processingInst, \* the stages of each unit, with 0 for none
          busy,           \* the registers of RegisterTable that are not 0
          queue,          \* the instructions dispatched and not issued, by age
          issued,         \* how many were issued in this cycle
          writer,         \* history: the instruction that wrote a register last
          producers       \* history: the writers of the operands at their issue

boardVars == <<scorePc, board, cycle, status, cyclesLeft, processingInst, busy, queue, issued, writer, producers>>

Latency == [ALU |-> 1, MUL |-> 4, DIV |-> 8, LOAD |-> 2]
Units == DOMAIN Latency
Stages(u) == IF u = "DIV" THEN 1 ELSE Latency[u]

BoardInit == /\ scorePc = "start"
             /\ board = [instructions |-> <<>>, orderType |-> "inorder", issueWidth |-> 1, cacheMiss |-> 0]
             /\ cycle = 0
             /\ status = <<>>
             /\ cyclesLeft = <<>>
             /\ processingInst = [u \in Units |-> [s \in 1..Stages(u) |-> 0]]
             /\ busy = {}
             /\ queue = <<>>
             /\ issued = 0
             /\ writer = <<>>
             /\ producers = <<>>

Instructions == DOMAIN board.instructions
operation(i) == board.instructions[i].operation
isCacheMiss(i) == operation(i) = "LDM"

\* A store writes what stands first in its line to the address that follows,
\* and the address is taken for its destination.
getDestination(i) == IF operation(i) = "ST" THEN board.instructions[i].operands[2]
                     ELSE board.instructions[i].operands[1]
Sources(i) == {board.instructions[i].operands[IF operation(i) = "ST" THEN 1 ELSE 2],
               board.instructions[i].operands[3]} \ {NoRegister}

Supported == [ALU |-> {"ADD", "SUB"}, MUL |-> {"MUL"}, DIV |-> {"DIV"}, LOAD |-> {"LDH", "LDM", "ST"}]
isSupported(i) == \E u \in Units : operation(i) \in Supported[u]
getUnitByInstruction(i) == CHOOSE u \in Units : operation(i) \in Supported[u]

\* The constructor reads the file.
Load(file) ==
    LET all == DOMAIN file.instructions
        registers == (UNION {ToSet(file.instructions[i].operands) : i \in all}) \ {NoRegister}
    IN  /\ scorePc = "start"
        /\ scorePc' = "clock"
        /\ board' = file
        /\ status' = [i \in all |-> "Waiting"]
        /\ cyclesLeft' = [i \in all |-> 0]
        /\ writer' = [r \in registers |-> 0]
        /\ producers' = [i \in all |-> <<>>]
        /\ UNCHANGED <<cycle, processingInst, busy, queue, issued>>

----------------------------------------------------------------------------
\* Unit.advanceClock: what a unit's instructions do in one cycle.

InUnit(u) == ToSet(processingInst[u]) \ {0}
LastOf(u) == processingInst[u][Stages(u)]

\* At the end of the LOAD unit a load that missed the cache waits for its data,
\* and holds up the one behind it.
LoadIsStuck == LET i == LastOf("LOAD") IN i # 0 /\ isCacheMiss(i) /\ cyclesLeft[i] > 1

Advancing(u) == IF u = "LOAD" /\ LoadIsStuck THEN {LastOf(u)} ELSE InUnit(u)

Finishing(u) == CASE u \in {"ALU", "MUL"} -> {LastOf(u)} \ {0}
                  [] u = "DIV" -> {i \in InUnit(u) : cyclesLeft[i] = 1}
                  [] u = "LOAD" -> IF LoadIsStuck THEN {} ELSE {LastOf(u)} \ {0}

StagesAfter(u) == CASE u \in {"ALU", "MUL"} -> <<0>> \o Front(processingInst[u])
                    [] u = "DIV" -> IF Finishing(u) = {} THEN processingInst[u] ELSE <<0>>
                    [] u = "LOAD" -> IF LoadIsStuck THEN processingInst[u] ELSE <<0>> \o Front(processingInst[u])

AllAdvancing == UNION {Advancing(u) : u \in Units}
AllFinishing == UNION {Finishing(u) : u \in Units}

\* The program tests itself: no cycle is counted below 0, none is left at the
\* end, and a register that is set free was busy.
ClockFails == \/ \E i \in AllAdvancing : cyclesLeft[i] = 0
              \/ \E i \in AllFinishing : cyclesLeft[i] # 1 \/ getDestination(i) \notin busy
              \/ \E i, j \in AllFinishing : i # j /\ getDestination(i) = getDestination(j)

isCompleted == \A i \in Instructions : status[i] = "Completed"

\* advanceClock, at the head of the loop of start.
advanceClock ==
    /\ scorePc = "clock"
    /\ ~isCompleted
    /\ IF ClockFails
       THEN /\ scorePc' = "exit"
            /\ UNCHANGED <<status, cyclesLeft, processingInst, busy, writer>>
       ELSE /\ scorePc' = "issue"
            /\ cyclesLeft' = [i \in Instructions |-> cyclesLeft[i] - (IF i \in AllAdvancing THEN 1 ELSE 0)]
            /\ status' = [i \in Instructions |-> IF i \in AllFinishing THEN "Completed" ELSE status[i]]
            /\ processingInst' = [u \in Units |-> StagesAfter(u)]
            /\ busy' = busy \ {getDestination(i) : i \in AllFinishing}
            /\ writer' = [r \in DOMAIN writer |->
                            LET new == {i \in AllFinishing : getDestination(i) = r}
                            IN  IF new = {} THEN writer[r] ELSE Max(new)]
    /\ issued' = 0
    /\ UNCHANGED <<board, cycle, queue, producers>>

Finish == /\ scorePc = "clock"
          /\ isCompleted
          /\ scorePc' = "done"
          /\ UNCHANGED <<board, cycle, status, cyclesLeft, processingInst, busy, queue, issued, writer, producers>>

----------------------------------------------------------------------------
canIssue(i) == processingInst[getUnitByInstruction(i)][1] = 0

isDependant(i) == \E r \in Sources(i) \cup {getDestination(i)} : r \in busy

\* Mistaken variant: the younger instructions of the queue are looked at.
isAntiDependantOnYounger(i) == \E j \in ToSet(queue) : j > i /\ getDestination(i) \in Sources(j)

\* An older instruction in the queue has still to read what i writes.
isAntiDependant(i) == \E j \in ToSet(queue) : j < i /\ getDestination(i) \in Sources(j)

issueInstruction(i) ==
    LET u == getUnitByInstruction(i)
        required == Latency[u] + IF isCacheMiss(i) THEN board.cacheMiss ELSE 0
    IN  /\ status' = [status EXCEPT ![i] = "Issued"]
        /\ cyclesLeft' = [cyclesLeft EXCEPT ![i] = required]
        /\ processingInst' = [processingInst EXCEPT ![u][1] = i]
        /\ busy' = busy \cup {getDestination(i)}
        /\ producers' = [producers EXCEPT ![i] = [r \in Sources(i) |-> writer[r]]]
        /\ issued' = issued + 1
        /\ scorePc' = IF issued' < board.issueWidth THEN "issue" ELSE "dispatch"

\* No further instruction is issued in this cycle.
IssueNone == /\ scorePc' = "dispatch"
             /\ UNCHANGED <<status, cyclesLeft, processingInst, busy, producers, issued>>

\* System.exit in canIssue, for an operation that no unit knows.
IssueExits == /\ scorePc' = "exit"
              /\ UNCHANGED <<status, cyclesLeft, processingInst, busy, producers, issued>>

Waiting == {i \in Instructions : status[i] = "Waiting"}

issueInorder ==
    /\ scorePc = "issue"
    /\ board.orderType = "inorder"
    /\ LET i == Min(Waiting) IN
         IF Waiting # {} /\ ~isSupported(i) THEN IssueExits
         ELSE IF Waiting # {} /\ canIssue(i) /\ ~isDependant(i) THEN issueInstruction(i)
         ELSE IssueNone
    /\ UNCHANGED <<board, cycle, queue, writer>>

\* The oldest instruction of the queue that nothing holds back.
issueOutorder ==
    /\ scorePc = "issue"
    /\ board.orderType # "inorder"
    /\ LET places == {k \in DOMAIN queue : \/ ~isSupported(queue[k])
                                           \/ /\ canIssue(queue[k])
                                              /\ ~isAntiDependant(queue[k])
                                              /\ ~isDependant(queue[k])}
           place == Min(places)
           i == queue[place]
       IN  IF places = {} THEN IssueNone /\ UNCHANGED queue
           ELSE IF ~isSupported(i) THEN IssueExits /\ UNCHANGED queue
           ELSE issueInstruction(i) /\ queue' = RemoveAt(queue, place)
    /\ UNCHANGED <<board, cycle, writer>>

\* The end of a cycle: out of order, one instruction more goes to the queue.
dispatchInstruction ==
    /\ scorePc = "dispatch"
    /\ scorePc' = "clock"
    /\ cycle' = cycle + 1
    /\ IF board.orderType = "inorder" \/ Waiting = {}
       THEN UNCHANGED <<queue, status>>
       ELSE /\ queue' = Append(queue, Min(Waiting))
            /\ status' = [status EXCEPT ![Min(Waiting)] = "Dispatched"]
    /\ UNCHANGED <<board, cyclesLeft, processingInst, busy, issued, writer, producers>>

BoardNext == \/ scorePc = "start" /\ \E file \in Boards : Load(file)
             \/ advanceClock \/ Finish
             \/ issueInorder \/ issueOutorder \/ dispatchInstruction

BoardSpec == BoardInit /\ [][BoardNext]_boardVars

----------------------------------------------------------------------------
\* Where the operand r of i comes from in the order of the program.
Producer(i, r) == Max({j \in Instructions : j < i /\ getDestination(j) = r} \cup {0})
Issued == {i \in Instructions : status[i] \in {"Issued", "Completed"}}

\* The cycles of i if it ran alone: its dispatch, its issue and its execution.
Alone(i) == IF isSupported(i) THEN Latency[getUnitByInstruction(i)] + board.cacheMiss + 2 ELSE 0

\* a[1] + ... + a[n]
SumTo(a, n) == LET upTo[k \in 0..n] == IF k = 0 THEN 0 ELSE upTo[k - 1] + a[k] IN upTo[n]

\* Instructions issued in order read what the program says they do, and leave
\* what its last writers wrote; issued out of order none reads what a later
\* one has written.  The program never stops at one of its own tests
\* (Unit.java:78, Instructions.java:155 and 165, RegisterList.java:51 and 63),
\* and no instruction waits for ever: the cycles are at most those of the
\* instructions one after the other.
OrderIsKept ==
    /\ scorePc = "exit" => \E i \in Instructions : ~isSupported(i)
    /\ \A i \in Issued : \A r \in Sources(i) :
         IF board.orderType = "inorder" THEN producers[i][r] = Producer(i, r) ELSE producers[i][r] < i
    /\ scorePc = "done" /\ board.orderType = "inorder" =>
         \A r \in DOMAIN writer : writer[r] = Producer(Len(board.instructions) + 1, r)
    /\ cycle <= 1 + SumTo([i \in Instructions |-> Alone(i)], Len(board.instructions))

\* No instruction is issued before the one whose result it reads: "No true ore
\* WAW dependancy" (Scoreboard.java:110).
TrueDependencesHold ==
    \A i \in Issued : \A r \in Sources(i) : producers[i][r] = Producer(i, r)
=============================================================================
