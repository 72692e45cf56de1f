----------------------------- MODULE HostProofs -----------------------------
(***************************************************************************)
(* Theorems about the programs that live by processes, threads and         *)
(* sockets of one host.  ProcessTree: whatever the arguments, however many *)
(* processes there are and however often execvp fails, a process that      *)
(* returns has waited for its children.  Conference: whatever clients come *)
(* and go and whatever calls fail, the table of open sockets names those   *)
(* in use, and with either server a member hears all that the others say.  *)
(* Proxy: however many threads add pages at once, the list of pages ends,  *)
(* and a browser is sent the page it asked for.  ProcessList: a reader of  *)
(* the device that was alone sees every process that lived all the time.   *)
(***************************************************************************)
EXTENDS ProcessTree, ProcessList, Conference, Proxy, FiniteSetTheorems, SequenceTheorems, WellFoundedInduction, TLAPS

-----------------------------------------------------------------------------
\* The tree of processes.

Process == [pc : {"unborn", "main", "fork", "wait", "done", "aborted"}, height : Int,
            i : Nat, parent : Procs \cup {None}, reaped : BOOLEAN]

TreeTypeOK == /\ child_count \in Int
              /\ proc \in [Procs -> Process]
              /\ failures \in Nat

UnbornHaveNoParent == \A p \in Procs : proc[p].pc = "unborn" => proc[p].parent = None

\* A loop has children only while it runs, and then at most i of them.
ChildrenAreCounted ==
    \A p \in Procs :
        /\ proc[p].pc \in {"unborn", "main", "done"} => Children(p) = {}
        /\ proc[p].pc \in {"fork", "wait"} => Cardinality(Children(p)) <= proc[p].i

TreeInv == TreeTypeOK /\ UnbornHaveNoParent /\ ChildrenAreCounted

-----------------------------------------------------------------------------
LEMMA ChildrenAreFinite ==
    ASSUME NEW p PROVE IsFiniteSet(Children(p)) /\ Cardinality(Children(p)) \in Nat
<1>1. IsFiniteSet(Procs)
  BY TreeAssumption, FS_Interval DEF Procs
<1>2. Children(p) \in SUBSET Procs
  BY DEF Children
<1>3. IsFiniteSet(Children(p))
  BY <1>1, <1>2, FS_Subset
<1> QED
  BY <1>3, FS_CardinalityType

LEMMA InitTree == TreeInit => TreeInv
<1> SUFFICES ASSUME TreeInit PROVE TreeInv
  OBVIOUS
<1>1. TreeTypeOK /\ UnbornHaveNoParent
  BY DEF TreeInit, TreeTypeOK, UnbornHaveNoParent, NoProc, Process, None
<1>2. \A p \in Procs : Children(p) = {}
  BY DEF TreeInit, Children, NoProc, Procs, None
<1>3. ChildrenAreCounted
  BY <1>2 DEF TreeInit, ChildrenAreCounted, NoProc
<1> QED
  BY <1>1, <1>3 DEF TreeInv

\* A new process becomes a child of p and of nobody else, and has none itself.
LEMMA NewChild ==
    ASSUME TreeInv, NEW p \in Procs, NEW q \in Procs,
           proc[p].pc = "fork", proc[q].pc = "unborn",
           NEW new \in Process, new.parent = p, new.pc \in {"main", "fork"},
           proc' = [proc EXCEPT ![p].i = @ + 1, ![q] = new],
           new.pc = "fork" => new.i \in Nat
    PROVE  UnbornHaveNoParent' /\ ChildrenAreCounted'
<1> USE DEF Process
<1>1. p # q /\ proc \in [Procs -> Process]
  BY DEF TreeInv, TreeTypeOK
<1>2. /\ proc'[q] = new
      /\ proc'[p].i = proc[p].i + 1 /\ proc'[p].pc = "fork" /\ proc'[p].parent = proc[p].parent
      /\ proc'[p].reaped = proc[p].reaped
      /\ \A r \in Procs \ {p, q} : proc'[r] = proc[r]
  BY <1>1
<1>3. proc[q].parent = None
  BY DEF TreeInv, UnbornHaveNoParent
<1>4. UnbornHaveNoParent'
  BY <1>1, <1>2 DEF TreeInv, UnbornHaveNoParent
<1>5. Children(q) = {} /\ Cardinality(Children(p)) <= proc[p].i
  BY DEF TreeInv, ChildrenAreCounted
<1>6. \A x \in Procs \ {p} : Children(x)' = Children(x)
  <2> SUFFICES ASSUME NEW x \in Procs \ {p} PROVE Children(x)' = Children(x)
    OBVIOUS
  <2>1. x # None
    BY DEF None, Procs
  <2>2. ASSUME NEW y \in Procs PROVE y \in Children(x)' <=> y \in Children(x)
    <3>1. CASE y = p
      BY <1>2, <3>1 DEF Children
    <3>2. CASE y = q
      BY <1>2, <1>3, <2>1, <3>2 DEF Children
    <3>3. CASE y \notin {p, q}
      BY <1>2, <3>3 DEF Children
    <3> QED
      BY <3>1, <3>2, <3>3
  <2>3. Children(x) \subseteq Procs /\ Children(x)' \subseteq Procs
    BY DEF Children
  <2> QED
    BY <2>2, <2>3
<1>7. \/ Children(p)' = Children(p) \cup {q}
      \/ Children(p)' = Children(p)
  <2>1. CASE new.reaped
    <3>1. \A x \in Procs : x \in Children(p)' <=> x \in Children(p)
      <4>1. p \in Children(p)' <=> p \in Children(p)
        BY <1>2 DEF Children
      <4>2. q \notin Children(p)' /\ q \notin Children(p)
        BY <2>1, <1>2, <1>3 DEF Children, None, Procs
      <4>3. \A x \in Procs \ {p, q} : x \in Children(p)' <=> x \in Children(p)
        BY <1>2 DEF Children
      <4> QED
        BY <4>1, <4>2, <4>3
    <3>2. Children(p) \subseteq Procs /\ Children(p)' \subseteq Procs
      BY DEF Children
    <3> QED
      BY <3>1, <3>2
  <2>2. CASE ~new.reaped
    <3>1. \A x \in Procs : x \in Children(p)' <=> x \in Children(p) \/ x = q
      <4>1. p \in Children(p)' <=> p \in Children(p)
        BY <1>2 DEF Children
      <4>2. q \in Children(p)'
        BY <2>2, <1>2 DEF Children
      <4>3. \A x \in Procs \ {p, q} : x \in Children(p)' <=> x \in Children(p)
        BY <1>2 DEF Children
      <4>4. ASSUME NEW x \in Procs, x # p, x # q PROVE x \in Children(p)' <=> x \in Children(p)
        BY <4>3, <4>4
      <4>5. ASSUME NEW x \in Procs PROVE x \in Children(p)' <=> x \in Children(p) \/ x = q
        <5>1. CASE x = q
          BY <4>2, <5>1
        <5>2. CASE x # q
          BY <4>1, <4>4, <5>2
        <5> QED
          BY <5>1, <5>2
      <4> QED
        BY <4>5
    <3>2. Children(p) \subseteq Procs /\ Children(p)' \subseteq Procs
      BY DEF Children
    <3>3. ASSUME NEW x PROVE x \in Children(p)' <=> x \in Children(p) \cup {q}
      <4>1. q \in Procs
        BY <1>1
      <4>2. CASE x \in Procs
        BY <3>1, <4>2
      <4>3. CASE x \notin Procs
        BY <3>2, <4>1, <4>3
      <4> QED
        BY <4>2, <4>3
    <3>4. Children(p)' = Children(p) \cup {q}
      BY <3>3
    <3> QED
      BY <3>4
  <2> QED
    BY <2>1, <2>2
<1>8. Cardinality(Children(p))' <= proc[p].i + 1
  <2>0. IsFiniteSet(Children(p)) /\ Cardinality(Children(p)) \in Nat
    BY <1>1, ChildrenAreFinite
  <2>1. Cardinality(Children(p) \cup {q})
          = IF q \in Children(p) THEN Cardinality(Children(p)) ELSE Cardinality(Children(p)) + 1
    BY <2>0, FS_AddElement
  <2>2. proc[p].i \in Nat
    BY <1>1
  <2>3. Cardinality(Children(p) \cup {q}) \in Nat /\ Cardinality(Children(p) \cup {q}) <= Cardinality(Children(p)) + 1
    BY <2>0, <2>1
  <2>4. CASE Children(p)' = Children(p) \cup {q}
    BY <2>0, <2>2, <2>3, <2>4, <1>5
  <2>5. CASE Children(p)' = Children(p)
    BY <2>0, <2>2, <2>5, <1>5
  <2> QED
    BY <2>4, <2>5, <1>7
<1>9. Cardinality(Children(q))' = 0
  BY <1>1, <1>5, <1>6, FS_EmptySet
<1>10. ASSUME NEW x \in Procs
       PROVE  /\ proc'[x].pc \in {"unborn", "main", "done"} => Children(x)' = {}
              /\ proc'[x].pc \in {"fork", "wait"} => Cardinality(Children(x))' <= proc'[x].i
  <2>1. CASE x = p
    BY <2>1, <1>2, <1>8
  <2>2. CASE x = q
    BY <2>2, <1>1, <1>2, <1>5, <1>6, <1>9
  <2>3. CASE x \notin {p, q}
    <3>1. proc'[x] = proc[x] /\ Children(x)' = Children(x)
      BY <2>3, <1>2, <1>6
    <3>2. /\ proc[x].pc \in {"unborn", "main", "done"} => Children(x) = {}
          /\ proc[x].pc \in {"fork", "wait"} => Cardinality(Children(x)) <= proc[x].i
      BY DEF TreeInv, ChildrenAreCounted
    <3> QED
      BY <3>1, <3>2
  <2> QED
    BY <2>1, <2>2, <2>3
<1> QED
  BY <1>4, <1>10 DEF ChildrenAreCounted

\* Only the place in the program of one process changes, and its counter not.
LEMMA PlaceChanges ==
    ASSUME TreeInv, NEW p \in Procs,
           NEW place \in {"main", "fork", "wait", "done", "aborted"},
           \/ proc[p].pc \in {"unborn", "main"}
           \/ proc[p].pc = "fork" /\ place \in {"wait", "aborted"},
           NEW height \in Int, height = proc[p].height \/ proc[p].pc = "unborn",
           proc' = [proc EXCEPT ![p].pc = place, ![p].height = height]
    PROVE  UnbornHaveNoParent' /\ ChildrenAreCounted'
<1> USE DEF Process
<1>1. proc \in [Procs -> Process]
  BY DEF TreeInv, TreeTypeOK
<1>2. /\ proc'[p].pc = place /\ proc'[p].i = proc[p].i
      /\ proc'[p].parent = proc[p].parent /\ proc'[p].reaped = proc[p].reaped
      /\ \A r \in Procs \ {p} : proc'[r] = proc[r]
  BY <1>1
<1>3. UnbornHaveNoParent'
  BY <1>2 DEF TreeInv, UnbornHaveNoParent
<1>4. \A x \in Procs : Children(x)' = Children(x)
  BY <1>2 DEF Children
<1>5. Cardinality(Children(p)) <= proc[p].i
  <2>1. CASE proc[p].pc = "fork"
    BY <2>1 DEF TreeInv, ChildrenAreCounted
  <2>2. CASE proc[p].pc \in {"unborn", "main"}
    <3>1. Children(p) = {}
      BY <2>2 DEF TreeInv, ChildrenAreCounted
    <3> QED
      BY <3>1, <1>1, FS_EmptySet
  <2> QED
    BY <2>1, <2>2
<1>6. ASSUME NEW x \in Procs
      PROVE  /\ proc'[x].pc \in {"unborn", "main", "done"} => Children(x)' = {}
             /\ proc'[x].pc \in {"fork", "wait"} => Cardinality(Children(x))' <= proc'[x].i
  <2>1. CASE x = p
    BY <2>1, <1>2, <1>4, <1>5 DEF TreeInv, ChildrenAreCounted
  <2>2. CASE x # p
    BY <2>2, <1>2, <1>4 DEF TreeInv, ChildrenAreCounted
  <2> QED
    BY <2>1, <2>2
<1> QED
  BY <1>3, <1>6 DEF ChildrenAreCounted

\* A wait takes one child, or finds that there is none.
LEMMA WaitCounts ==
    ASSUME TreeInv, NEW p \in Procs, Wait(p)
    PROVE  TreeInv'
<1> DEFINE counted == [proc EXCEPT ![p].i = IF @ > 0 THEN @ - 1 ELSE 0,
                                   ![p].pc = IF proc[p].i > 0 THEN "wait" ELSE "done"]
<1> USE DEF Process
<1>1. proc \in [Procs -> Process] /\ proc[p].pc = "wait"
  BY DEF TreeInv, TreeTypeOK, Wait
<1>2. Cardinality(Children(p)) <= proc[p].i
  BY <1>1 DEF TreeInv, ChildrenAreCounted
<1>3. /\ counted \in [Procs -> Process]
      /\ counted[p].i = (IF proc[p].i > 0 THEN proc[p].i - 1 ELSE 0)
      /\ counted[p].pc = (IF proc[p].i > 0 THEN "wait" ELSE "done")
      /\ counted[p].parent = proc[p].parent /\ counted[p].reaped = proc[p].reaped
      /\ \A r \in Procs \ {p} : counted[r] = proc[r]
  <2>1. proc[p] \in Process /\ proc[p].i \in Nat
    BY <1>1
  <2> DEFINE i == IF proc[p].i > 0 THEN proc[p].i - 1 ELSE 0
             place == IF proc[p].i > 0 THEN "wait" ELSE "done"
             after == [proc[p] EXCEPT !.i = i, !.pc = place]
  <2>2. i \in Nat /\ place \in {"wait", "done"}
    BY <2>1
  <2>3. counted = [proc EXCEPT ![p] = after]
    BY <1>1
  <2> HIDE DEF counted, i, place
  <2>4. after \in Process /\ after.i = i /\ after.pc = place
        /\ after.parent = proc[p].parent /\ after.reaped = proc[p].reaped
    BY <2>1, <2>2
  <2> HIDE DEF after
  <2>5. counted \in [Procs -> Process] /\ counted[p] = after
        /\ \A r \in Procs \ {p} : counted[r] = proc[r]
    BY <1>1, <2>3, <2>4
  <2> QED
    BY <2>4, <2>5 DEF i, place
<1> HIDE DEF counted
<1>4. CASE Children(p) = {} /\ proc' = counted
  <2>1. \A x \in Procs : Children(x)' = Children(x)
    BY <1>3, <1>4 DEF Children
  <2>2. Cardinality(Children(p))' = 0
    BY <2>1, <1>4, FS_EmptySet
  <2>3. TreeTypeOK' /\ UnbornHaveNoParent'
    BY <1>1, <1>3, <1>4 DEF TreeInv, TreeTypeOK, UnbornHaveNoParent, Wait
  <2>4. ChildrenAreCounted'
    BY <1>1, <1>3, <1>4, <2>1, <2>2 DEF TreeInv, ChildrenAreCounted
  <2> QED
    BY <2>3, <2>4 DEF TreeInv
<1>5. ASSUME NEW q \in Children(p), Over(q), proc' = [counted EXCEPT ![q].reaped = TRUE]
      PROVE  TreeInv'
  <2>1. q \in Procs /\ q # p /\ proc[q].parent = p
    BY <1>1, <1>5 DEF Children, Over
  <2>2. /\ proc'[q].pc = proc[q].pc /\ proc'[q].i = proc[q].i
        /\ proc'[q].parent = proc[q].parent /\ proc'[q].reaped
        /\ \A r \in Procs \ {q} : proc'[r] = counted[r]
    BY <1>3, <1>5, <2>1
  <2>3. Children(p)' = Children(p) \ {q}
    BY <2>1, <2>2, <1>3 DEF Children
  <2>4. \A x \in Procs \ {p} : Children(x)' = Children(x)
    BY <2>1, <2>2, <1>3 DEF Children
  <2>5. Cardinality(Children(p) \ {q}) = Cardinality(Children(p)) - 1
    BY ChildrenAreFinite, FS_RemoveElement
  <2>6. proc[p].i > 0 /\ Cardinality(Children(p))' <= proc[p].i - 1
    <3> DEFINE c == Cardinality(Children(p))
               d == Cardinality(Children(p))'
               i == proc[p].i
    <3>1. c # 0
      BY ChildrenAreFinite, FS_EmptySet
    <3>2. c \in Nat
      BY ChildrenAreFinite
    <3>3. c <= i /\ i \in Nat
      BY <1>1, <1>2
    <3>4. d = c - 1
      BY <2>3, <2>5
    <3> HIDE DEF c, d, i
    <3>5. i > 0 /\ d <= i - 1
      BY <3>1, <3>2, <3>3, <3>4
    <3> QED
      BY <3>5 DEF d, i
  <2>7. child_count' = child_count /\ failures' = failures
    BY DEF Wait
  <2>8. TreeTypeOK' /\ UnbornHaveNoParent'
    <3> DEFINE w == [counted[q] EXCEPT !.reaped = TRUE]
    <3>0. counted \in [Procs -> Process] /\ proc' = [counted EXCEPT ![q] = w] /\ w \in Process
      <4>1. counted \in [Procs -> Process] /\ counted[q] \in Process
        BY <1>3, <2>1
      <4>2. proc' = [counted EXCEPT ![q] = w]
        BY <1>5
      <4> QED
        BY <4>1, <4>2
    <3> HIDE DEF w
    <3>1. proc' \in [Procs -> Process]
      BY <2>1, <3>0
    <3>2. TreeTypeOK'
      BY <3>1, <2>7 DEF TreeInv, TreeTypeOK
    <3>3. UnbornHaveNoParent'
      BY <1>1, <1>3, <2>1, <2>2 DEF TreeInv, UnbornHaveNoParent
    <3> QED
      BY <3>2, <3>3
  <2>9. ASSUME NEW x \in Procs
        PROVE  /\ proc'[x].pc \in {"unborn", "main", "done"} => Children(x)' = {}
               /\ proc'[x].pc \in {"fork", "wait"} => Cardinality(Children(x))' <= proc'[x].i
    <3>1. CASE x = p
      BY <3>1, <1>3, <2>1, <2>2, <2>6
    <3>2. CASE x = q
      BY <3>2, <2>1, <2>2, <2>4 DEF TreeInv, ChildrenAreCounted
    <3>3. CASE x \notin {p, q}
      <4>1. proc'[x] = proc[x]
        BY <1>3, <2>2, <3>3
      <4>2. Children(x)' = Children(x)
        BY <2>4, <3>3
      <4>3. /\ proc[x].pc \in {"unborn", "main", "done"} => Children(x) = {}
            /\ proc[x].pc \in {"fork", "wait"} => Cardinality(Children(x)) <= proc[x].i
        BY DEF TreeInv, ChildrenAreCounted
      <4> QED
        BY <4>1, <4>2, <4>3
    <3> QED
      BY <3>1, <3>2, <3>3
  <2> QED
    BY <2>8, <2>9 DEF TreeInv, ChildrenAreCounted
<1> QED
  BY <1>4, <1>5 DEF Wait, counted

-----------------------------------------------------------------------------
LEMMA StepTree == TreeInv /\ [TreeNext]_treeVars => TreeInv'
<1> SUFFICES ASSUME TreeInv, [TreeNext]_treeVars PROVE TreeInv'
  OBVIOUS
<1>0. TreeTypeOK
  BY DEF TreeInv
<1>1. ASSUME NEW h \in Heights, NEW n \in ChildCounts, MainStart(h, n) PROVE TreeInv'
  <2>1. TreeTypeOK'
    <3> DEFINE w == [proc[1] EXCEPT !.pc = "main", !.height = h]
    <3>1. child_count' \in Int /\ failures' \in Nat
      BY <1>0, <1>1, TreeAssumption DEF TreeTypeOK, MainStart
    <3>2. proc \in [Procs -> Process] /\ proc' = [proc EXCEPT ![1] = w]
      BY <1>0, <1>1 DEF TreeTypeOK, MainStart
    <3>3. 1 \in Procs => w \in Process
      <4>1. h \in Int
        BY TreeAssumption
      <4>2. 1 \in Procs => proc[1] \in Process
        BY <3>2
      <4> QED
        BY <4>1, <4>2 DEF Process
    <3> HIDE DEF w
    <3>4. proc' \in [Procs -> Process]
      BY <3>2, <3>3
    <3> QED
      BY <3>1, <3>4 DEF TreeTypeOK
  <2>2. CASE 1 \in Procs
    <3>1. proc[1].pc = "unborn"
      BY <1>1, <2>2 DEF MainStart, Unborn
    <3>2. h \in Int
      BY TreeAssumption
    <3>3. UnbornHaveNoParent' /\ ChildrenAreCounted'
      BY <1>1, <2>2, <3>1, <3>2, PlaceChanges DEF MainStart
    <3> QED
      BY <2>1, <3>3 DEF TreeInv
  <2>3. CASE 1 \notin Procs
    BY <2>1, <2>3, TreeAssumption DEF TreeInv, UnbornHaveNoParent, ChildrenAreCounted, Procs
  <2> QED
    BY <2>2, <2>3
<1>2. ASSUME NEW p \in Procs, Descend(p) \/ ForkFails(p) \/ LoopEnds(p) PROVE TreeInv'
  <2>1. PICK place \in {"fork", "wait", "done", "aborted"} :
            /\ proc' = [proc EXCEPT ![p].pc = place]
            /\ \/ proc[p].pc = "main"
               \/ proc[p].pc = "fork" /\ place \in {"wait", "aborted"}
    BY <1>2 DEF Descend, ForkFails, LoopEnds
  <2>2. proc[p] \in Process /\ [proc[p] EXCEPT !.pc = place] \in Process
    BY <1>0 DEF TreeTypeOK, Process
  <2>3. proc' \in [Procs -> Process]
    BY <1>0, <2>1, <2>2 DEF TreeTypeOK
  <2>4. TreeTypeOK'
    BY <1>0, <1>2, <2>3 DEF TreeTypeOK, Descend, ForkFails, LoopEnds
  <2>5. proc' = [proc EXCEPT ![p].pc = place, ![p].height = proc[p].height] /\ proc[p].height \in Int
    BY <1>0, <2>1 DEF TreeTypeOK, Process
  <2>6. UnbornHaveNoParent' /\ ChildrenAreCounted'
    BY <2>1, <2>5, PlaceChanges
  <2> QED
    BY <2>4, <2>6 DEF TreeInv
<1>3. ASSUME NEW p \in Procs, NEW q \in Unborn, ForkChild(p, q) PROVE TreeInv'
  <2> DEFINE new == [NoProc EXCEPT !.pc = "main", !.height = proc[p].height - 1, !.parent = p]
  <2>1. q \in Procs /\ proc[q].pc = "unborn" /\ proc[p].pc = "fork"
    BY <1>3 DEF ForkChild, Unborn
  <2>2. new \in Process /\ new.parent = p /\ new.pc = "main"
    <3>1. proc[p].height - 1 \in Int
      BY <1>0 DEF TreeTypeOK, Process
    <3> QED
      BY <3>1 DEF Process, NoProc
  <2>3. proc' = [proc EXCEPT ![p].i = @ + 1, ![q] = new]
    BY <1>3 DEF ForkChild
  <2> HIDE DEF new
  <2>4. UnbornHaveNoParent' /\ ChildrenAreCounted'
    BY <2>1, <2>2, <2>3, NewChild
  <2>5. TreeTypeOK'
    <3>1. [proc[p] EXCEPT !.i = @ + 1] \in Process
      BY <1>0 DEF TreeTypeOK, Process
    <3>2. proc' \in [Procs -> Process]
      BY <1>0, <2>1, <2>2, <2>3, <3>1 DEF TreeTypeOK
    <3> QED
      BY <1>0, <1>3, <3>2 DEF TreeTypeOK, ForkChild
  <2> QED
    BY <2>4, <2>5 DEF TreeInv
<1>4. ASSUME NEW p \in Procs, NEW q \in Unborn, ForkCopy(p, q) PROVE TreeInv'
  <2> DEFINE new == [proc[p] EXCEPT !.i = @ + 1, !.parent = p]
  <2>1. q \in Procs /\ proc[q].pc = "unborn" /\ proc[p].pc = "fork"
    BY <1>4 DEF ForkCopy, Unborn
  <2>2. new \in Process /\ new.parent = p /\ new.pc = "fork" /\ new.i \in Nat
    <3>1. proc[p] \in Process /\ proc[p].i + 1 \in Nat
      BY <1>0 DEF TreeTypeOK, Process
    <3> QED
      BY <3>1, <2>1 DEF Process
  <2>3. proc' = [proc EXCEPT ![p].i = @ + 1, ![q] = new]
    BY <1>4 DEF ForkCopy
  <2> HIDE DEF new
  <2>4. UnbornHaveNoParent' /\ ChildrenAreCounted'
    BY <2>1, <2>2, <2>3, NewChild
  <2>5. TreeTypeOK'
    <3>1. [proc[p] EXCEPT !.i = @ + 1] \in Process
      BY <1>0 DEF TreeTypeOK, Process
    <3>2. proc' \in [Procs -> Process]
      BY <1>0, <2>1, <2>2, <2>3, <3>1 DEF TreeTypeOK
    <3> QED
      BY <1>0, <1>4, <3>2 DEF TreeTypeOK, ForkCopy
  <2> QED
    BY <2>4, <2>5 DEF TreeInv
<1>5. CASE UNCHANGED treeVars
  BY <1>5 DEF treeVars, TreeInv, TreeTypeOK, UnbornHaveNoParent, ChildrenAreCounted, Children
<1> QED
  BY <1>1, <1>2, <1>3, <1>4, <1>5, WaitCounts DEF TreeNext

\* A process that returns from main has waited for every process it started:
\* the counter of the loop bounds the children, and one wait more is made.
THEOREM TreeOutlives == TreeSpec => []ParentsOutlive
<1>1. TreeInv => ParentsOutlive
  BY DEF TreeInv, ChildrenAreCounted, ParentsOutlive, Children
<1> QED
  BY <1>1, InitTree, StepTree, PTL DEF TreeSpec

-----------------------------------------------------------------------------
\* The conference server: who is responsible for a descriptor.

Place == {"none", "start", "call", "recv", "forward", "send", "remove", "close", "done"}
Peer == Clients \cup {NoClient}
Thread == [pc : Place, sock : Fds \cup {BadSocket}, conn : Peer, msg : Peer \X Nat, i : Nat]

Holds == acceptor \in {"add", "create", "drop"}

ServerTypeOK ==
    /\ taken \in [Clients -> Nat]
    /\ backlog \in Seq(Clients)
    /\ file \in [Fds -> Peer]
    /\ open_sockets \in Seq(Fds)
    /\ clientsock \in Fds \cup {BadSocket}
    /\ acceptor \in {"start", "accept", "add", "create", "drop", "ended"}
    /\ th \in [Threads -> Thread]
    /\ clean \in BOOLEAN
    /\ Holds => clientsock \in Fds
    /\ \A t \in Threads : th[t].pc = "recv" => th[t].conn \in Clients

NothingYet == acceptor = "start" => open_sockets = <<>> /\ \A t \in Threads : th[t].pc = "none"

\* A thread is responsible for its descriptor until it has closed it, the
\* acceptor for one that no thread has been given yet: nobody shares one, and
\* none is free meanwhile.
Using(t) == th[t].pc \notin {"none", "done"}
UsersApart ==
    /\ \A t \in Threads : Using(t) => th[t].sock \in Fds /\ file[th[t].sock] # NoClient
    /\ \A t, u \in Threads : Using(t) /\ Using(u) /\ th[t].sock = th[u].sock => t = u
    /\ Holds => /\ file[clientsock] # NoClient
                /\ \A t \in Threads : Using(t) => th[t].sock # clientsock

ServerInv == /\ ServerTypeOK
             /\ NothingYet
             /\ clean /\ ServerUp => UsersApart
             /\ TableIsLive

-----------------------------------------------------------------------------
\* accept takes the least descriptor that is free.
LEMMA LeastIsMember ==
    ASSUME NEW N \in SUBSET Nat, N # {}
    PROVE  Min(N) \in N /\ \A n \in N : Min(N) <= n
<1> DEFINE Less == {p \in Nat \X Nat : p[1] < p[2]}
<1>1. IsWellFoundedOn(Less, Nat)
  BY NatLessThanWellFounded DEF OpToRel
<1>2. PICK m \in N : \A n \in N : ~(<<n, m>> \in Less)
  <2> HIDE DEF Less
  <2> QED
    BY <1>1, WFMin
<1>3. ASSUME NEW n \in N PROVE m <= n
  <2>1. n \in Nat /\ m \in Nat
    OBVIOUS
  <2>2. <<n, m>> \in Nat \X Nat /\ <<n, m>> \notin Less
    BY <1>2, <2>1
  <2>3. ~(n < m)
    BY <2>2
  <2> QED
    BY <2>1, <2>3
<1>4. m \in {x \in N : \A n \in N : x <= n}
  BY <1>3
<1>5. Min(N) \in {x \in N : \A n \in N : x <= n}
  BY <1>4 DEF Min
<1> QED
  BY <1>5

LEMMA NumbersOnly == Fds \in SUBSET Nat /\ Threads \in SUBSET Nat
<1>1. Cardinality(Clients) \in Nat
  BY RoomAssumption, FS_CardinalityType
<1> QED
  BY <1>1 DEF Fds, servsock, Threads

\* remove_socket gives a table without the entry, whichever way the last one moves.
LEMMA Shortened ==
    ASSUME NEW S, NEW s \in Seq(S), NEW k, Len(s) > 0
    PROVE  SubSeq([s EXCEPT ![k] = s[Len(s)]], 1, Len(s) - 1) \in Seq(S)
<1> DEFINE moved == [s EXCEPT ![k] = s[Len(s)]]
<1>1. Len(s) \in Nat /\ s \in [1..Len(s) -> S]
  BY LenProperties
<1>2. s[Len(s)] \in S
  BY <1>1
<1>3. \A j \in 1..Len(s) : moved[j] \in S
  BY <1>1, <1>2
<1> HIDE DEF moved
<1>4. SubSeq(moved, 1, Len(s) - 1) \in Seq(S)
  BY <1>1, <1>3, SubSeqProperties
<1> QED
  BY <1>4 DEF moved

LEMMA EntryRemoved ==
    ASSUME NEW S, NEW s \in Seq(S), NEW k \in 1..Len(s),
           \A i, j \in DOMAIN s : s[i] = s[j] => i = j
    PROVE  LET r == SubSeq([s EXCEPT ![k] = s[Len(s)]], 1, Len(s) - 1)
           IN  /\ \A i, j \in DOMAIN r : r[i] = r[j] => i = j
               /\ {r[i] : i \in DOMAIN r} = {s[i] : i \in DOMAIN s} \ {s[k]}
<1> DEFINE moved == [s EXCEPT ![k] = s[Len(s)]]
           r == SubSeq(moved, 1, Len(s) - 1)
<1>1. Len(s) \in Nat \ {0} /\ s \in [1..Len(s) -> S] /\ DOMAIN s = 1..Len(s)
  BY LenProperties
<1>2. \A j \in 1..Len(s) : moved[j] = IF j = k THEN s[Len(s)] ELSE s[j]
  BY <1>1
<1>3. \A j \in 1..Len(s) : moved[j] \in S
  BY <1>1, <1>2
<1> HIDE DEF moved
<1>4. /\ r \in Seq(S)
      /\ Len(r) = Len(s) - 1
      /\ \A j \in 1..(Len(s) - 1) : r[j] = moved[j]
  <2>1. /\ r \in Seq(S)
        /\ Len(r) = IF 1 <= Len(s) - 1 THEN Len(s) - 1 - 1 + 1 ELSE 0
        /\ \A j \in 1..(Len(s) - 1 - 1 + 1) : r[j] = moved[1 + j - 1]
    BY <1>1, <1>3, SubSeqProperties
  <2> QED
    BY <1>1, <2>1
<1>5. DOMAIN r = 1..(Len(s) - 1)
  BY <1>4, LenProperties
<1> HIDE DEF r
<1>6. \A j \in DOMAIN r : r[j] = IF j = k THEN s[Len(s)] ELSE s[j]
  BY <1>1, <1>2, <1>4, <1>5
<1>7. \A i, j \in DOMAIN r : r[i] = r[j] => i = j
  BY <1>1, <1>5, <1>6
<1>8. \A x : (\E i \in DOMAIN r : r[i] = x) <=> (\E i \in DOMAIN s : s[i] = x) /\ x # s[k]
  <2>1. ASSUME NEW i \in DOMAIN r PROVE (\E j \in DOMAIN s : s[j] = r[i]) /\ r[i] # s[k]
    BY <1>1, <1>5, <1>6
  <2>2. ASSUME NEW i \in DOMAIN s, i # k PROVE \E j \in DOMAIN r : r[j] = s[i]
    <3>1. CASE i = Len(s)
      <4>1. k \in DOMAIN r /\ r[k] = s[i]
        BY <2>2, <3>1, <1>1, <1>5, <1>6
      <4> QED
        BY <4>1
    <3>2. CASE i # Len(s)
      <4>1. i \in DOMAIN r /\ r[i] = s[i]
        BY <2>2, <3>2, <1>1, <1>5, <1>6
      <4> QED
        BY <4>1
    <3> QED
      BY <3>1, <3>2
  <2> QED
    BY <2>1, <2>2
<1>9. {r[i] : i \in DOMAIN r} = {s[i] : i \in DOMAIN s} \ {s[k]}
  <2> DEFINE before == {s[i] : i \in DOMAIN s}
             after == {r[i] : i \in DOMAIN r}
  <2>1. \A x : x \in after <=> \E i \in DOMAIN r : r[i] = x
    OBVIOUS
  <2>2. \A x : x \in before <=> \E i \in DOMAIN s : s[i] = x
    OBVIOUS
  <2> HIDE DEF before, after
  <2>3. \A x : x \in after <=> x \in before /\ x # s[k]
    BY <1>8, <2>1, <2>2
  <2>4. after = before \ {s[k]}
    BY <2>3
  <2> QED
    BY <2>4 DEF before, after
<1> QED
  BY <1>7, <1>9 DEF r, moved

LEMMA InitServer == ServerInit => ServerInv
<1> SUFFICES ASSUME ServerInit PROVE ServerInv
  OBVIOUS
<1>1. ServerTypeOK
  BY RoomAssumption DEF ServerInit, ConfInit, ServerTypeOK, Holds, FreshThread, NoMsg, Thread, Place, Peer
<1>2. NothingYet /\ ~ServerUp
  BY DEF ServerInit, NothingYet, ServerUp, FreshThread
<1> QED
  BY <1>1, <1>2 DEF ServerInv, TableIsLive

-----------------------------------------------------------------------------
Owning == {"start", "call", "recv", "forward", "send", "remove"}

\* A thread goes on with its descriptor; only what it reads may change besides.
LEMMA ThreadGoesOn ==
    ASSUME ServerInv, NEW t \in Threads, NEW r \in Thread,
           th[t].pc \in Owning, r.pc \in Owning,
           clean' => r.sock = th[t].sock,
           r.pc = "recv" => r.conn \in Clients,
           th' = [th EXCEPT ![t] = r],
           clean' \in BOOLEAN, clean' => clean,
           taken' \in [Clients -> Nat],
           UNCHANGED <<backlog, file, open_sockets, clientsock, acceptor>>
    PROVE  ServerInv'
<1> USE DEF Owning
<1>1. th \in [Threads -> Thread]
  BY DEF ServerInv, ServerTypeOK
<1>2. th'[t] = r /\ \A u \in Threads \ {t} : th'[u] = th[u]
  BY <1>1
<1>3. ServerTypeOK'
  <2>1. th' \in [Threads -> Thread]
    BY <1>1
  <2>2. \A u \in Threads : th'[u].pc = "recv" => th'[u].conn \in Clients
    BY <1>2 DEF ServerInv, ServerTypeOK
  <2> QED
    BY <2>1, <2>2 DEF ServerInv, ServerTypeOK, Holds
<1>4. NothingYet'
  BY DEF ServerInv, NothingYet
<1>5. CASE clean' /\ ServerUp'
  <2>1. clean /\ ServerUp /\ UsersApart
    BY <1>5 DEF ServerInv, ServerUp
  <2>2. \A u \in Threads : (th'[u].pc \in Owning <=> th[u].pc \in Owning) /\ th'[u].sock = th[u].sock
    BY <1>2, <1>5
  <2>3. \A u \in Threads : Using(u)' <=> Using(u)
    BY <1>2 DEF Using
  <2>4. UsersApart'
    BY <2>1, <2>2, <2>3 DEF UsersApart, Holds
  <2>5. \A fd \in Fds : Owned(fd)' <=> Owned(fd)
    BY <2>2 DEF Owned
  <2>6. TableIsLive'
    BY <2>1, <2>5 DEF ServerInv, TableIsLive, Fds
  <2> QED
    BY <1>3, <1>4, <2>4, <2>6 DEF ServerInv
<1>6. CASE ~(clean' /\ ServerUp')
  BY <1>3, <1>4, <1>6 DEF ServerInv, TableIsLive
<1> QED
  BY <1>5, <1>6

LEMMA StepStart ==
    ASSUME ServerInv, NEW t \in Threads, Start(t) PROVE ServerInv'
<1> DEFINE r == [th[t] EXCEPT !.pc = "call", !.sock = clientsock]
<1>1. th[t] \in Thread /\ clientsock \in Fds \cup {BadSocket} /\ th \in [Threads -> Thread] /\ clean \in BOOLEAN
  BY DEF ServerInv, ServerTypeOK
<1>2. r \in Thread /\ r.pc = "call" /\ r.sock = clientsock
  BY <1>1 DEF Thread, Place
<1>3. th' = [th EXCEPT ![t] = r] /\ th[t].pc = "start"
  BY <1>1 DEF Start
<1>4. clean' \in BOOLEAN /\ (clean' => clean /\ r.sock = th[t].sock)
  BY <1>1, <1>2 DEF Start
<1>5. taken' \in [Clients -> Nat] /\ UNCHANGED <<backlog, file, open_sockets, clientsock, acceptor>>
  BY DEF Start, confVars, clientVars, kernelVars, ServerInv, ServerTypeOK
<1> HIDE DEF r
<1> QED
  BY <1>2, <1>3, <1>4, <1>5, ThreadGoesOn DEF Owning

LEMMA StepCall ==
    ASSUME ServerInv, NEW t \in Threads, Call(t) PROVE ServerInv'
<1> DEFINE c == FileOf(th[t].sock)
           place == IF c = NoClient THEN "remove" ELSE "recv"
           r == [th[t] EXCEPT !.conn = c, !.pc = place]
<1>1. th[t] \in Thread /\ th \in [Threads -> Thread] /\ file \in [Fds -> Peer] /\ clean \in BOOLEAN
  BY DEF ServerInv, ServerTypeOK
<1>2. c \in Peer /\ (c # NoClient => c \in Clients)
  BY <1>1 DEF FileOf, Peer
<1>3. place \in {"remove", "recv"} /\ (place = "recv" => c \in Clients)
  BY <1>2
<1>4. th' = [th EXCEPT ![t] = r] /\ th[t].pc = "call"
  BY <1>1 DEF Call
<1> HIDE DEF c, place
<1>5. r \in Thread /\ r.pc = place /\ r.conn = c /\ r.sock = th[t].sock
  BY <1>1, <1>2, <1>3 DEF Thread, Place
<1>6. taken' \in [Clients -> Nat] /\ UNCHANGED <<backlog, file, open_sockets, clientsock, acceptor, clean>>
  BY DEF Call, confVars, clientVars, kernelVars, ServerInv, ServerTypeOK
<1> HIDE DEF r
<1> QED
  BY <1>1, <1>3, <1>4, <1>5, <1>6, ThreadGoesOn DEF Owning

LEMMA StepRecv ==
    ASSUME ServerInv, NEW t \in Threads, Recv(t) PROVE ServerInv'
<1>1. th[t] \in Thread /\ th \in [Threads -> Thread] /\ taken \in [Clients -> Nat] /\ clean \in BOOLEAN
  BY DEF ServerInv, ServerTypeOK
<1>2. th[t].pc = "recv" /\ th[t].conn \in Clients
  BY DEF Recv, ServerInv, ServerTypeOK
<1>3. UNCHANGED <<backlog, file, open_sockets, clientsock, acceptor, clean>>
  BY DEF Recv, kernelVars
<1>4. CASE RecvText(th[t].conn) /\ th' = [th EXCEPT ![t].pc = "forward", ![t].msg = <<th[t].conn, taken'[th[t].conn]>>]
  <2> DEFINE c == th[t].conn
             msg == <<c, taken'[c]>>
             r == [th[t] EXCEPT !.pc = "forward", !.msg = msg]
  <2>1. taken' \in [Clients -> Nat] /\ taken'[c] \in Nat
    BY <1>1, <1>2, <1>4 DEF RecvText
  <2>2. msg \in Peer \X Nat
    BY <1>2, <2>1 DEF Peer
  <2>3. th' = [th EXCEPT ![t] = r]
    BY <1>1, <1>4
  <2> HIDE DEF msg
  <2>4. r \in Thread /\ r.pc = "forward" /\ r.sock = th[t].sock
    BY <1>1, <2>2 DEF Thread, Place
  <2> HIDE DEF r
  <2> QED
    BY <1>1, <1>2, <1>3, <2>1, <2>3, <2>4, ThreadGoesOn DEF Owning
<1>5. CASE th' = [th EXCEPT ![t].pc = "remove"] /\ taken' = taken
  <2> DEFINE r == [th[t] EXCEPT !.pc = "remove"]
  <2>1. th' = [th EXCEPT ![t] = r]
    BY <1>1, <1>5
  <2>2. r \in Thread /\ r.pc = "remove" /\ r.sock = th[t].sock
    BY <1>1 DEF Thread, Place
  <2> HIDE DEF r
  <2> QED
    BY <1>1, <1>2, <1>3, <1>5, <2>1, <2>2, ThreadGoesOn DEF Owning
<1> QED
  BY <1>4, <1>5 DEF Recv, Goto

\* Forward, Send and Sent are the loop over the table.
LEMMA StepLoop ==
    ASSUME ServerInv, NEW t \in Threads, Forward(t) \/ Send(t) \/ Sent(t) PROVE ServerInv'
<1>1. th[t] \in Thread /\ th \in [Threads -> Thread] /\ clean \in BOOLEAN
  BY DEF ServerInv, ServerTypeOK
<1>2. taken' \in [Clients -> Nat] /\ UNCHANGED <<backlog, file, open_sockets, clientsock, acceptor, clean>>
  BY DEF Forward, Send, Sent, confVars, clientVars, kernelVars, ServerInv, ServerTypeOK
<1>3. CASE Forward(t)
  <2> DEFINE r == [th[t] EXCEPT !.pc = "send", !.i = 1]
  <2>1. th' = [th EXCEPT ![t] = r] /\ th[t].pc = "forward"
    BY <1>1, <1>3 DEF Forward
  <2>2. r \in Thread /\ r.pc = "send" /\ r.sock = th[t].sock
    BY <1>1 DEF Thread, Place
  <2> HIDE DEF r
  <2> QED
    BY <1>1, <1>2, <2>1, <2>2, ThreadGoesOn DEF Owning
<1>4. CASE Send(t)
  <2> DEFINE r == [th[t] EXCEPT !.i = th[t].i + 1]
  <2>1. th' = [th EXCEPT ![t] = r] /\ th[t].pc = "send"
    BY <1>1, <1>4 DEF Send
  <2>2. th[t].i + 1 \in Nat
    BY <1>1 DEF Thread
  <2>3. r \in Thread /\ r.pc = "send" /\ r.sock = th[t].sock
    BY <1>1, <2>1, <2>2 DEF Thread, Place
  <2> HIDE DEF r
  <2> QED
    BY <1>1, <1>2, <2>1, <2>3, ThreadGoesOn DEF Owning
<1>5. CASE Sent(t)
  <2> DEFINE r == [th[t] EXCEPT !.pc = "call", !.i = 0, !.msg = NoMsg]
  <2>1. th' = [th EXCEPT ![t] = r] /\ th[t].pc = "send"
    BY <1>1, <1>5 DEF Sent
  <2>2. NoMsg \in Peer \X Nat
    BY DEF NoMsg, Peer
  <2> HIDE DEF NoMsg
  <2>3. r \in Thread /\ r.pc = "call" /\ r.sock = th[t].sock
    BY <1>1, <2>2 DEF Thread, Place
  <2> HIDE DEF r
  <2> QED
    BY <1>1, <1>2, <2>1, <2>3, ThreadGoesOn DEF Owning
<1> QED
  BY <1>3, <1>4, <1>5

\* A descriptor leaves the table before it is closed.
LEMMA StepRemove ==
    ASSUME ServerInv, NEW t \in Threads, DropSocket(t) PROVE ServerInv'
<1>a. PICK sock : sock = th[t].sock
  OBVIOUS
<1> DEFINE places == {i \in DOMAIN open_sockets : open_sockets[i] = sock}
           k == Min(places)
           last == Len(open_sockets)
           r == [th[t] EXCEPT !.pc = "close"]
<1>0. ServerTypeOK
  BY DEF ServerInv
<1>1. th[t] \in Thread /\ th \in [Threads -> Thread] /\ open_sockets \in Seq(Fds) /\ th[t].pc = "remove"
  BY <1>0 DEF ServerTypeOK, DropSocket
<1>2. th' = [th EXCEPT ![t] = r] /\ r \in Thread /\ r.pc = "close" /\ r.sock = sock
  BY <1>a, <1>1 DEF DropSocket, Goto, Thread, Place
<1>3. open_sockets' = IF places = {} THEN open_sockets
                      ELSE SubSeq([open_sockets EXCEPT ![k] = open_sockets[last]], 1, last - 1)
  BY <1>a DEF DropSocket, RemoveSocket
<1>4. UNCHANGED <<taken, backlog, file, clientsock, acceptor, clean>>
  BY DEF DropSocket, confVars, clientVars, kernelVars
<1> HIDE DEF r
<1>5. th'[t] = r /\ \A u \in Threads \ {t} : th'[u] = th[u]
  BY <1>1, <1>2
<1>6. last \in Nat /\ DOMAIN open_sockets = 1..last
  BY <1>1, LenProperties
<1>7. ServerTypeOK'
  <2>1. open_sockets' \in Seq(Fds)
    <3>1. CASE places = {}
      BY <1>1, <1>3, <3>1
    <3>2. CASE places # {}
      <4>1. last > 0
        BY <1>6, <3>2
      <4> HIDE DEF k
      <4>2. SubSeq([open_sockets EXCEPT ![k] = open_sockets[last]], 1, last - 1) \in Seq(Fds)
        BY <1>1, <4>1, Shortened
      <4> QED
        BY <1>3, <3>2, <4>2
    <3> QED
      BY <3>1, <3>2
  <2>2. th' \in [Threads -> Thread]
    BY <1>1, <1>2
  <2>3. \A u \in Threads : th'[u].pc = "recv" => th'[u].conn \in Clients
    BY <1>0, <1>2, <1>5 DEF ServerTypeOK
  <2> QED
    BY <1>0, <1>4, <2>1, <2>2, <2>3 DEF ServerTypeOK, Holds
<1>8. NothingYet'
  BY <1>1, <1>4 DEF ServerInv, NothingYet
<1>9. CASE clean' /\ ServerUp'
  <2>1. UsersApart /\ TableIsLive /\ clean /\ ServerUp
    BY <1>4, <1>9 DEF ServerInv, ServerUp
  <2>2. Using(t) /\ Owned(sock) /\ sock \in Fds
    BY <1>a, <1>1, <2>1 DEF Using, Owned, UsersApart
  <2>3. UsersApart'
    <3>1. \A u \in Threads : (Using(u)' <=> Using(u)) /\ th'[u].sock = th[u].sock
      BY <1>a, <1>1, <1>2, <1>5 DEF Using
    <3> QED
      BY <1>4, <2>1, <3>1 DEF UsersApart, Holds
  <2>4. {open_sockets[i] : i \in DOMAIN open_sockets} = {fd \in Fds : Owned(fd)}
        /\ \A i, j \in DOMAIN open_sockets : open_sockets[i] = open_sockets[j] => i = j
        /\ \A fd \in Fds : Owned(fd) => file[fd] # NoClient
    BY <2>1 DEF TableIsLive
  <2>5. PICK n \in DOMAIN open_sockets : open_sockets[n] = sock
    BY <2>2, <2>4
  <2>6. places = {n}
    BY <2>4, <2>5
  <2>7. k = n
    BY <1>6, <2>5, <2>6 DEF Min
  <2> HIDE DEF k, places
  <2>8. open_sockets' = SubSeq([open_sockets EXCEPT ![n] = open_sockets[last]], 1, last - 1)
    BY <1>3, <2>6, <2>7
  <2>9. /\ \A i, j \in DOMAIN open_sockets' : open_sockets'[i] = open_sockets'[j] => i = j
        /\ {open_sockets'[i] : i \in DOMAIN open_sockets'} = {open_sockets[i] : i \in DOMAIN open_sockets} \ {sock}
    <3> DEFINE rest == SubSeq([open_sockets EXCEPT ![n] = open_sockets[last]], 1, last - 1)
    <3>1. n \in 1..last
      BY <1>6, <2>5
    <3>2. /\ \A i, j \in DOMAIN rest : rest[i] = rest[j] => i = j
          /\ {rest[i] : i \in DOMAIN rest} = {open_sockets[i] : i \in DOMAIN open_sockets} \ {open_sockets[n]}
      BY <1>1, <2>4, <3>1, EntryRemoved
    <3>3. open_sockets' = rest
      BY <2>8
    <3> HIDE DEF rest
    <3> QED
      BY <2>5, <3>2, <3>3
  <2>10. \A fd \in Fds : Owned(fd)' <=> Owned(fd) /\ fd # sock
    <3>1. \A u \in Threads : th[u].sock = sock /\ Using(u) => u = t
      BY <1>a, <2>1, <2>2 DEF UsersApart
    <3>2. acceptor \in {"create", "drop"} => clientsock # sock
      BY <1>a, <2>1, <2>2 DEF UsersApart, Holds
    <3>3. ~Owned(sock)'
      BY <1>a, <1>2, <1>4, <1>5, <3>1, <3>2 DEF Owned, Using
    <3>4. \A fd \in Fds : fd # sock => (Owned(fd)' <=> Owned(fd))
      BY <1>a, <1>2, <1>4, <1>5 DEF Owned
    <3> QED
      BY <3>3, <3>4
  <2>11. {fd \in Fds : Owned(fd)'} = {fd \in Fds : Owned(fd)} \ {sock}
    BY <2>10
  <2>12. {open_sockets'[i] : i \in DOMAIN open_sockets'} = {fd \in Fds : Owned(fd)'}
    BY <2>4, <2>9, <2>11
  <2>13. TableIsLive'
    BY <1>4, <2>4, <2>9, <2>10, <2>12 DEF TableIsLive, Fds
  <2> QED
    BY <1>7, <1>8, <2>3, <2>13 DEF ServerInv
<1>10. CASE ~(clean' /\ ServerUp')
  BY <1>7, <1>8, <1>10 DEF ServerInv, TableIsLive
<1> QED
  BY <1>9, <1>10

LEMMA StepClose ==
    ASSUME ServerInv, NEW t \in Threads, Close(t) PROVE ServerInv'
<1> DEFINE r == [FreshThread EXCEPT !.pc = "done"]
<1>0. ServerTypeOK
  BY DEF ServerInv
<1>1. /\ th \in [Threads -> Thread] /\ file \in [Fds -> Peer]
      /\ th[t].pc = "close"
      /\ th' = [th EXCEPT ![t] = r]
      /\ file' = [fd \in Fds |-> IF fd = th[t].sock THEN NoClient ELSE file[fd]]
      /\ UNCHANGED <<taken, backlog, open_sockets, clientsock, acceptor, clean>>
  BY <1>0 DEF ServerTypeOK, Close, clientVars
<1>2. r \in Thread /\ r.pc = "done"
  BY DEF FreshThread, NoMsg, Thread, Place, Peer
<1> HIDE DEF r
<1>3. th'[t] = r /\ \A u \in Threads \ {t} : th'[u] = th[u]
  BY <1>1
<1>4. ServerTypeOK'
  <2>1. th' \in [Threads -> Thread] /\ file' \in [Fds -> Peer]
    BY <1>1, <1>2 DEF Peer
  <2>2. \A u \in Threads : th'[u].pc = "recv" => th'[u].conn \in Clients
    BY <1>0, <1>2, <1>3 DEF ServerTypeOK
  <2> QED
    BY <1>0, <1>1, <2>1, <2>2 DEF ServerTypeOK, Holds
<1>5. NothingYet'
  BY <1>1 DEF ServerInv, NothingYet
<1>6. CASE clean' /\ ServerUp'
  <2>1. UsersApart /\ TableIsLive /\ clean /\ ServerUp
    BY <1>1, <1>6 DEF ServerInv, ServerUp
  <2>2. /\ \A u \in Threads : Using(u)' <=> Using(u) /\ u # t
        /\ \A u \in Threads \ {t} : th'[u].sock = th[u].sock
    BY <1>1, <1>2, <1>3 DEF Using
  <2>3. \A u \in Threads \ {t} : Using(u) => th[u].sock # th[t].sock
    BY <1>1, <2>1 DEF UsersApart, Using
  <2>4. Holds => clientsock # th[t].sock /\ clientsock \in Fds
    BY <1>0, <1>1, <2>1 DEF UsersApart, Using, ServerTypeOK
  <2>5. \A fd \in Fds : file'[fd] = IF fd = th[t].sock THEN NoClient ELSE file[fd]
    BY <1>1
  <2>6. UsersApart'
    BY <1>1, <2>1, <2>2, <2>3, <2>4, <2>5 DEF UsersApart, Holds
  <2>7. \A fd \in Fds : Owned(fd)' <=> Owned(fd)
    BY <1>1, <1>2, <1>3 DEF Owned
  <2>8. ~Owned(th[t].sock)
    BY <1>1, <2>3, <2>4 DEF Owned, Using, Holds
  <2>9. {fd \in Fds : Owned(fd)'} = {fd \in Fds : Owned(fd)}
    BY <2>7
  <2>10. TableIsLive'
    BY <1>1, <2>1, <2>5, <2>7, <2>8, <2>9 DEF TableIsLive, Fds
  <2> QED
    BY <1>4, <1>5, <2>6, <2>10 DEF ServerInv
<1>7. CASE ~(clean' /\ ServerUp')
  BY <1>4, <1>5, <1>7 DEF ServerInv, TableIsLive
<1> QED
  BY <1>6, <1>7

\* A new connection gets a descriptor that nobody uses.
LEMMA StepAccept ==
    ASSUME ServerInv, NEW fd \in Fds, Accept(fd) PROVE ServerInv'
<1>0. ServerTypeOK
  BY DEF ServerInv
<1>1. /\ file \in [Fds -> Peer] /\ backlog \in Seq(Clients) /\ backlog # <<>>
      /\ file[fd] = NoClient
      /\ file' = [file EXCEPT ![fd] = Head(backlog)]
      /\ backlog' = Tail(backlog)
      /\ acceptor = "accept" /\ acceptor' = "add" /\ clientsock' = fd
      /\ UNCHANGED <<taken, open_sockets, th, clean>>
  <2>1. file[fd] = NoClient
    <3>1. fd \in FreeFds
      <4>1. fd = Min(FreeFds) /\ FreeFds # {}
        BY DEF Accept, Accepted
      <4> QED
        BY <4>1, NumbersOnly, LeastIsMember DEF FreeFds
    <3> QED
      BY <3>1 DEF FreeFds
  <2> QED
    BY <1>0, <2>1 DEF ServerTypeOK, Accept, Accepted, clientVars
<1>2. Head(backlog) \in Clients /\ Tail(backlog) \in Seq(Clients)
  BY <1>1, HeadTailProperties
<1>3. /\ file'[fd] # NoClient
      /\ \A x \in Fds \ {fd} : file'[x] = file[x]
      /\ file' \in [Fds -> Peer]
  BY <1>1, <1>2, RoomAssumption DEF Peer
<1>4. ServerTypeOK' /\ NothingYet'
  BY <1>0, <1>1, <1>2, <1>3 DEF ServerTypeOK, Holds, NothingYet
<1>5. CASE clean' /\ ServerUp'
  <2>1. UsersApart /\ TableIsLive /\ clean /\ ServerUp
    BY <1>1, <1>5 DEF ServerInv, ServerUp
  <2>2. \A t \in Threads : Using(t) => th[t].sock # fd
    BY <1>1, <2>1 DEF UsersApart
  <2>3. UsersApart'
    BY <1>1, <1>3, <2>1, <2>2 DEF UsersApart, Using
  <2>4. \A x \in Fds : Owned(x)' <=> Owned(x)
    BY <1>1 DEF Owned
  <2>5. {x \in Fds : Owned(x)'} = {x \in Fds : Owned(x)}
    BY <2>4
  <2>6. TableIsLive'
    BY <1>1, <1>3, <2>1, <2>4, <2>5 DEF TableIsLive, Fds
  <2> QED
    BY <1>4, <2>3, <2>6 DEF ServerInv
<1>6. CASE ~(clean' /\ ServerUp')
  BY <1>4, <1>6 DEF ServerInv, TableIsLive
<1> QED
  BY <1>5, <1>6

\* The acceptor hands its descriptor first to the table and then to a thread.
LEMMA StepAdd ==
    ASSUME ServerInv, Add PROVE ServerInv'
<1>0. ServerTypeOK
  BY DEF ServerInv
<1>1. /\ acceptor = "add" /\ acceptor' = "create"
      /\ clientsock \in Fds /\ open_sockets \in Seq(Fds)
      /\ open_sockets' = Append(open_sockets, clientsock)
      /\ UNCHANGED <<taken, backlog, file, clientsock, th, clean>>
  BY <1>0 DEF ServerTypeOK, Add, AddSocket, clientVars, kernelVars, Holds
<1> DEFINE n == Len(open_sockets)
<1>2. /\ n \in Nat /\ DOMAIN open_sockets = 1..n /\ DOMAIN open_sockets' = 1..(n + 1)
      /\ open_sockets' \in Seq(Fds)
      /\ \A i \in 1..n : open_sockets'[i] = open_sockets[i]
      /\ open_sockets'[n + 1] = clientsock
  BY <1>1, AppendProperties, LenProperties
<1> HIDE DEF n
<1>3. ServerTypeOK' /\ NothingYet'
  BY <1>0, <1>1, <1>2 DEF ServerTypeOK, Holds, NothingYet
<1>4. CASE clean' /\ ServerUp'
  <2>1. UsersApart /\ TableIsLive /\ clean /\ ServerUp
    BY <1>1, <1>4 DEF ServerInv, ServerUp
  <2>2. UsersApart'
    BY <1>1, <2>1 DEF UsersApart, Using, Holds
  <2>3. /\ \A x \in Fds : Owned(x)' <=> Owned(x) \/ x = clientsock
        /\ ~Owned(clientsock)
        /\ file[clientsock] # NoClient
    BY <1>1, <2>1 DEF Owned, UsersApart, Using, Holds
  <2>4. /\ \A i, j \in 1..n : open_sockets[i] = open_sockets[j] => i = j
        /\ {open_sockets[i] : i \in 1..n} = {x \in Fds : Owned(x)}
        /\ \A x \in Fds : Owned(x) => file[x] # NoClient
    BY <1>2, <2>1 DEF TableIsLive
  <2>5. \A i \in 1..n : open_sockets[i] # clientsock
    BY <2>3, <2>4
  <2>6. \A i, j \in 1..(n + 1) : open_sockets'[i] = open_sockets'[j] => i = j
    BY <1>2, <2>4, <2>5
  <2>7. {open_sockets'[i] : i \in 1..(n + 1)} = {x \in Fds : Owned(x)'}
    <3>1. \A x : (\E i \in 1..(n + 1) : open_sockets'[i] = x)
                  <=> (\E i \in 1..n : open_sockets[i] = x) \/ x = clientsock
      BY <1>2
    <3>2. \A x : (\E i \in 1..n : open_sockets[i] = x) <=> x \in Fds /\ Owned(x)
      BY <2>4
    <3>3. \A x : (\E i \in 1..(n + 1) : open_sockets'[i] = x) <=> x \in Fds /\ Owned(x)'
      BY <1>1, <2>3, <3>1, <3>2
    <3> QED
      BY <3>3
  <2>8. TableIsLive'
    BY <1>1, <1>2, <2>3, <2>4, <2>6, <2>7 DEF TableIsLive, Fds
  <2> QED
    BY <1>3, <2>2, <2>8 DEF ServerInv
<1>5. CASE ~(clean' /\ ServerUp')
  BY <1>3, <1>5 DEF ServerInv, TableIsLive
<1> QED
  BY <1>4, <1>5

LEMMA StepCreate ==
    ASSUME ServerInv, NEW t \in Threads, Create(t) PROVE ServerInv'
<1> DEFINE r == [FreshThread EXCEPT !.pc = "start", !.sock = clientsock]
<1>0. ServerTypeOK
  BY DEF ServerInv
<1>1. /\ th \in [Threads -> Thread] /\ clientsock \in Fds
      /\ acceptor = "create" /\ acceptor' = "accept"
      /\ th[t].pc = "none" /\ th' = [th EXCEPT ![t] = r]
      /\ UNCHANGED <<taken, backlog, file, clientsock, open_sockets, clean>>
  BY <1>0 DEF ServerTypeOK, Create, confVars, clientVars, kernelVars, Holds
<1>2. r \in Thread /\ r.pc = "start" /\ r.sock = clientsock
  BY <1>1 DEF FreshThread, NoMsg, Thread, Place, Peer
<1> HIDE DEF r
<1>3. th'[t] = r /\ \A u \in Threads \ {t} : th'[u] = th[u]
  BY <1>1
<1>4. ServerTypeOK'
  <2>1. th' \in [Threads -> Thread]
    BY <1>1, <1>2
  <2>2. \A u \in Threads : th'[u].pc = "recv" => th'[u].conn \in Clients
    BY <1>0, <1>2, <1>3 DEF ServerTypeOK
  <2> QED
    BY <1>0, <1>1, <2>1, <2>2 DEF ServerTypeOK, Holds
<1>5. NothingYet'
  BY <1>1 DEF NothingYet
<1>6. CASE clean' /\ ServerUp'
  <2>1. UsersApart /\ TableIsLive /\ clean /\ ServerUp
    BY <1>1, <1>6 DEF ServerInv, ServerUp
  <2>2. \A u \in Threads : Using(u)' <=> Using(u) \/ u = t
    BY <1>2, <1>3 DEF Using
  <2>3. UsersApart'
    BY <1>1, <1>2, <1>3, <2>1, <2>2 DEF UsersApart, Holds
  <2>4. \A x \in Fds : Owned(x)' <=> Owned(x)
    BY <1>1, <1>2, <1>3 DEF Owned
  <2>5. {x \in Fds : Owned(x)'} = {x \in Fds : Owned(x)}
    BY <2>4
  <2>6. TableIsLive'
    BY <1>1, <2>1, <2>4, <2>5 DEF TableIsLive, Fds
  <2> QED
    BY <1>4, <1>5, <2>3, <2>6 DEF ServerInv
<1>7. CASE ~(clean' /\ ServerUp')
  BY <1>4, <1>5, <1>7 DEF ServerInv, TableIsLive
<1> QED
  BY <1>6, <1>7

LEMMA StepAcceptorElse ==
    ASSUME ServerInv, StartServer \/ AcceptFails \/ CreateFails
    PROVE  ServerInv'
<1>0. ServerTypeOK
  BY DEF ServerInv
<1>1. UNCHANGED <<taken, backlog, file, open_sockets, th, clean>>
  BY DEF StartServer, AcceptFails, CreateFails, confVars, clientVars, kernelVars
<1>2. CASE StartServer
  <2>1. acceptor = "start" /\ acceptor' = "accept" /\ clientsock' = clientsock
    BY <1>2 DEF StartServer
  <2>2. open_sockets = <<>> /\ \A t \in Threads : th[t].pc = "none"
    BY <2>1 DEF ServerInv, NothingYet
  <2>3. ServerTypeOK' /\ NothingYet' /\ UsersApart'
    BY <1>0, <1>1, <2>1, <2>2 DEF ServerTypeOK, NothingYet, UsersApart, Using, Holds
  <2>4. \A fd : ~Owned(fd)'
    BY <1>1, <2>1, <2>2 DEF Owned
  <2>5. DOMAIN open_sockets' = {}
    BY <1>1, <2>2
  <2>6. TableIsLive'
    BY <2>4, <2>5 DEF TableIsLive
  <2> QED
    BY <2>3, <2>6 DEF ServerInv
<1>3. CASE AcceptFails
  <2>1. acceptor = "accept" /\ acceptor' = "accept" /\ clientsock' = BadSocket
    BY <1>3 DEF AcceptFails
  <2>2. ServerTypeOK' /\ NothingYet'
    BY <1>0, <1>1, <2>1 DEF ServerTypeOK, NothingYet, Holds
  <2>3. clean' /\ ServerUp' => UsersApart'
    BY <1>1, <2>1 DEF ServerInv, ServerUp, UsersApart, Using, Holds
  <2>4. \A fd : Owned(fd)' <=> Owned(fd)
    BY <1>1, <2>1 DEF Owned
  <2>5. {fd \in Fds : Owned(fd)'} = {fd \in Fds : Owned(fd)}
    BY <2>4
  <2>6. TableIsLive'
    BY <1>1, <2>1, <2>4, <2>5 DEF ServerInv, TableIsLive, ServerUp, Fds
  <2> QED
    BY <2>2, <2>3, <2>6 DEF ServerInv
<1>4. CASE CreateFails
  <2>1. acceptor = "create" /\ acceptor' = "drop" /\ clientsock' = clientsock
    BY <1>4 DEF CreateFails
  <2>2. ServerTypeOK' /\ NothingYet'
    BY <1>0, <1>1, <2>1 DEF ServerTypeOK, NothingYet, Holds
  <2>3. clean' /\ ServerUp' => UsersApart'
    BY <1>1, <2>1 DEF ServerInv, ServerUp, UsersApart, Using, Holds
  <2>4. \A fd : Owned(fd)' <=> Owned(fd)
    BY <1>1, <2>1 DEF Owned
  <2>5. {fd \in Fds : Owned(fd)'} = {fd \in Fds : Owned(fd)}
    BY <2>4
  <2>6. TableIsLive'
    BY <1>1, <2>1, <2>4, <2>5 DEF ServerInv, TableIsLive, ServerUp, Fds
  <2> QED
    BY <2>2, <2>3, <2>6 DEF ServerInv
<1> QED
  BY <1>2, <1>3, <1>4

LEMMA StepEnd ==
    ASSUME ServerInv, StartFails \/ Drop
    PROVE  ServerInv'
<1>0. ServerTypeOK
  BY DEF ServerInv
<1>1. acceptor' = "ended" /\ clientsock' = clientsock /\ UNCHANGED <<taken, clean>>
  BY DEF StartFails, Drop, confVars, clientVars
<1>2. ~ServerUp' /\ NothingYet'
  BY <1>1 DEF ServerUp, NothingYet
<1>3. CASE StartFails
  <2>1. ServerTypeOK'
    BY <1>0, <1>1, <1>3 DEF ServerTypeOK, Holds, StartFails, confVars, kernelVars
  <2> QED
    BY <1>2, <2>1 DEF ServerInv, TableIsLive
<1>4. CASE Drop
  <2> DEFINE r == [FreshThread EXCEPT !.pc = "done"]
             places == {i \in DOMAIN open_sockets : open_sockets[i] = clientsock}
             k == Min(places)
  <2>1. /\ backlog' = <<>>
        /\ file' = [fd \in Fds |-> NoClient]
        /\ th' = [t \in Threads |-> r]
        /\ open_sockets' = IF places = {} THEN open_sockets
                           ELSE SubSeq([open_sockets EXCEPT ![k] = open_sockets[Len(open_sockets)]],
                                       1, Len(open_sockets) - 1)
    BY <1>4 DEF Drop, RemoveSocket
  <2>2. r \in Thread /\ r.pc = "done"
    BY DEF FreshThread, NoMsg, Thread, Place, Peer
  <2>3. open_sockets \in Seq(Fds) /\ (places # {} => Len(open_sockets) > 0)
    BY <1>0, LenProperties DEF ServerTypeOK
  <2> HIDE DEF r, places, k
  <2>4. open_sockets' \in Seq(Fds)
    BY <2>1, <2>3, Shortened
  <2>5. ServerTypeOK'
    BY <1>0, <1>1, <2>1, <2>2, <2>4 DEF ServerTypeOK, Holds, Peer
  <2> QED
    BY <1>2, <2>5 DEF ServerInv, TableIsLive
<1> QED
  BY <1>3, <1>4

\* Clients, and whatever leaves the server's tables alone.
LEMMA StepOutside ==
    ASSUME ServerInv, backlog' \in Seq(Clients),
           UNCHANGED <<taken, file, open_sockets, clientsock, acceptor, th, clean>>
    PROVE  ServerInv'
<1>1. ServerTypeOK' /\ NothingYet'
  BY DEF ServerInv, ServerTypeOK, NothingYet, Holds
<1>2. clean' /\ ServerUp' => UsersApart'
  BY DEF ServerInv, ServerUp, UsersApart, Using, Holds
<1>3. \A fd : Owned(fd)' <=> Owned(fd)
  BY DEF Owned
<1>4. {fd \in Fds : Owned(fd)'} = {fd \in Fds : Owned(fd)}
  BY <1>3
<1>5. TableIsLive'
  BY <1>3, <1>4 DEF ServerInv, TableIsLive, ServerUp, Fds
<1> QED
  BY <1>1, <1>2, <1>5 DEF ServerInv

LEMMA StepServer == ServerInv /\ [ServerNext]_<<confVars, serverVars>> => ServerInv'
<1> SUFFICES ASSUME ServerInv, [ServerNext]_<<confVars, serverVars>> PROVE ServerInv'
  OBVIOUS
<1>0. backlog \in Seq(Clients)
  BY DEF ServerInv, ServerTypeOK
<1>1. ASSUME NEW c \in Clients, ServerClient(c) PROVE ServerInv'
  <2>1. UNCHANGED <<open_sockets, clientsock, acceptor, th, clean>>
    BY <1>1 DEF ServerClient, serverVars
  <2>2. UNCHANGED <<taken, file>> /\ (backlog' = backlog \/ backlog' = Append(backlog, c))
    BY <1>1 DEF ServerClient, Connect, ReadServer, ReadUser, SendUp, Killed, kernelVars
  <2>3. backlog' \in Seq(Clients)
    BY <1>0, <2>2, AppendProperties
  <2> QED
    BY <2>1, <2>2, <2>3, StepOutside
<1>2. ASSUME NEW t \in Threads, Worker(t) PROVE ServerInv'
  BY <1>2, StepStart, StepCall, StepRecv, StepLoop, StepRemove, StepClose DEF Worker
<1>3. ASSUME NEW t \in Threads, Create(t) PROVE ServerInv'
  BY <1>3, StepCreate
<1>4. CASE Acceptor
  BY <1>3, <1>4, StepAccept, StepAdd, StepAcceptorElse, StepEnd DEF Acceptor
<1>5. CASE UNCHANGED <<confVars, serverVars>>
  BY <1>0, <1>5, StepOutside DEF confVars, clientVars, kernelVars, serverVars
<1> QED
  BY <1>1, <1>2, <1>4, <1>5, StepAcceptorElse, StepEnd DEF ServerNext

\* For any number of clients, whoever comes, goes or fails: as long as no thread
\* was late in reading its descriptor, the table of open sockets holds every
\* descriptor in use, once, and no other (add_socket and remove_socket).
THEOREM TableStaysLive == ServerSpec => []TableIsLive
<1>1. ServerInv => TableIsLive
  BY DEF ServerInv
<1> QED
  BY <1>1, InitServer, StepServer, PTL DEF ServerSpec

-----------------------------------------------------------------------------
\* The conference: what a member was sent, and what it is owed.

Message == Peer \X Nat

HearTypeOK == /\ cl \in [Clients -> {"out", "idle", "sending", "gone"}]
              /\ taken \in [Clients -> Nat]
              /\ backlog \in Seq(Clients)
              /\ file \in [Fds -> Peer]
              /\ log \in Seq(Message)
              /\ fed \in [Clients -> Seq(Message)]
              /\ joined \in [Clients -> Nat]

\* A client has one connection at most, and none before it connects.
ConnectionsApart ==
    /\ \A x, y \in Fds : file[x] = file[y] /\ file[x] # NoClient => x = y
    /\ \A i, j \in DOMAIN backlog : backlog[i] = backlog[j] => i = j
    /\ \A x \in Fds, i \in DOMAIN backlog : file[x] # backlog[i]
    /\ \A x \in Fds : file[x] # NoClient => cl[file[x]] # "out"
    /\ \A i \in DOMAIN backlog : cl[backlog[i]] # "out"

Waits(c) == cl[c] = "out" \/ \E i \in DOMAIN backlog : backlog[i] = c

HearsTo(c, upTo) == joined[c] <= upTo /\ HasHeard(c, upTo)

LEMMA OwedCounts ==
    ASSUME NEW c, NEW upTo \in Nat, joined[c] \in Nat
    PROVE  IsFiniteSet(Owed(c, upTo)) /\ Cardinality(Owed(c, upTo)) \in Nat
<1>1. IsFiniteSet((joined[c] + 1)..upTo)
  BY FS_Interval
<1>2. IsFiniteSet(Owed(c, upTo))
  BY <1>1, FS_Subset DEF Owed
<1> QED
  BY <1>2, FS_CardinalityType

\* A message at the end of the log changes nothing of what was owed before.
LEMMA LogGrows ==
    ASSUME log \in Seq(Message), NEW c, joined[c] \in Nat, NEW m \in Message, log' = Append(log, m),
           NEW n, n = Len(log), HearsTo(c, n), fed'[c] = fed[c], joined'[c] = joined[c]
    PROVE  HearsTo(c, n)'
<1>1. n \in Nat /\ \A k \in 1..n : log'[k] = log[k]
  BY AppendProperties, LenProperties
<1>2. ASSUME NEW u \in Nat, u <= n PROVE Owed(c, u)' = Owed(c, u)
  <2>1. \A k \in (joined[c] + 1)..u : k \in 1..n
    BY <1>1, <1>2
  <2> QED
    BY <1>1, <2>1 DEF Owed
<1>3. Owed(c, n)' = Owed(c, n)
  BY <1>1, <1>2
<1>4. ASSUME NEW k \in Owed(c, n)
      PROVE  Owed(c, k)' = Owed(c, k) /\ log'[k] = log[k]
  <2>1. k \in 1..n
    BY <1>1 DEF Owed
  <2> QED
    BY <1>1, <1>2, <2>1
<1> QED
  BY <1>3, <1>4 DEF HearsTo, HasHeard

\* Its own message is not owed to its sender.
LEMMA OwnMessage ==
    ASSUME NEW c, joined[c] \in Nat, NEW n \in Nat, log[n + 1][1] = c, HearsTo(c, n),
           fed'[c] = fed[c], joined'[c] = joined[c], log' = log
    PROVE  HearsTo(c, n + 1)'
<1>1. Owed(c, n + 1) = Owed(c, n)
  <2>1. \A k : k \in (joined[c] + 1)..(n + 1) => k = n + 1 \/ k \in (joined[c] + 1)..n
    OBVIOUS
  <2>2. \A k \in (joined[c] + 1)..n : k \in (joined[c] + 1)..(n + 1)
    OBVIOUS
  <2> QED
    BY <2>1, <2>2 DEF Owed
<1>2. joined[c] <= n + 1
  BY DEF HearsTo
<1>3. \A k : Owed(c, k)' = Owed(c, k)
  BY DEF Owed
<1>4. HasHeard(c, n)
  BY DEF HearsTo
<1>5. HasHeard(c, n + 1)'
  BY <1>1, <1>3, <1>4 DEF HasHeard
<1> QED
  BY <1>2, <1>5 DEF HearsTo

\* The next message of the others, at the end of what was sent.
LEMMA NextMessage ==
    ASSUME NEW c, joined[c] \in Nat, fed[c] \in Seq(Message), NEW n \in Nat,
           NEW m \in Message, m = log[n + 1], m[1] # c, HearsTo(c, n),
           fed'[c] = Append(fed[c], m), joined'[c] = joined[c], log' = log
    PROVE  HearsTo(c, n + 1)'
<1> DEFINE d == Cardinality(Owed(c, n))
<1>1. IsFiniteSet(Owed(c, n)) /\ d \in Nat /\ d = Len(fed[c]) /\ joined[c] <= n
  BY OwedCounts DEF HearsTo, HasHeard
<1>2. \A k \in Int : k \in Owed(c, n + 1) <=> k = n + 1 \/ k \in Owed(c, n)
  <2> SUFFICES ASSUME NEW k \in Int
               PROVE  k \in Owed(c, n + 1) <=> k = n + 1 \/ k \in Owed(c, n)
    OBVIOUS
  <2>1. k \in (joined[c] + 1)..(n + 1) <=> k = n + 1 \/ k \in (joined[c] + 1)..n
    BY <1>1
  <2> QED
    BY <1>1, <2>1 DEF Owed
<1>3. Owed(c, n + 1) = Owed(c, n) \cup {n + 1}
  BY <1>2 DEF Owed
<1>4. n + 1 \notin Owed(c, n)
  BY DEF Owed
<1>5. Cardinality(Owed(c, n + 1)) = d + 1
  BY <1>1, <1>3, <1>4, FS_AddElement
<1>6. ASSUME NEW k \in Owed(c, n) PROVE Cardinality(Owed(c, k)) \in 1..d
  <2>1. k \in Nat /\ joined[c] + 1 <= k /\ k <= n /\ log[k][1] # c
    BY DEF Owed
  <2>2. k \in Owed(c, k) /\ Owed(c, k) \subseteq Owed(c, n)
    BY <2>1 DEF Owed
  <2>3. IsFiniteSet(Owed(c, k)) /\ Cardinality(Owed(c, k)) \in Nat
    BY <2>1, OwedCounts
  <2>4. Cardinality(Owed(c, k)) <= d
    BY <1>1, <2>2, FS_Subset
  <2>5. Cardinality(Owed(c, k)) # 0
    BY <2>2, <2>3, FS_EmptySet
  <2> QED
    BY <1>1, <2>3, <2>4, <2>5
<1> HIDE DEF d
<1>7. /\ Len(fed'[c]) = d + 1 /\ fed'[c][d + 1] = m
      /\ \A i \in 1..d : fed'[c][i] = fed[c][i]
  BY <1>1, AppendProperties
<1>8. \A k \in Owed(c, n) : fed[c][Cardinality(Owed(c, k))] = log[k]
  BY DEF HearsTo, HasHeard
<1>9. \A k \in Owed(c, n + 1) : fed'[c][Cardinality(Owed(c, k))] = log[k]
  <2> SUFFICES ASSUME NEW k \in Owed(c, n + 1) PROVE fed'[c][Cardinality(Owed(c, k))] = log[k]
    OBVIOUS
  <2>1. CASE k = n + 1
    BY <1>5, <1>7, <2>1
  <2>2. CASE k \in Owed(c, n)
    BY <1>6, <1>7, <1>8, <2>2
  <2> QED
    BY <1>3, <2>1, <2>2
<1>10. \A k : Owed(c, k)' = Owed(c, k)
  BY DEF Owed
<1>11. joined'[c] <= n + 1
  BY <1>1
<1> QED
  BY <1>5, <1>7, <1>9, <1>10, <1>11 DEF HearsTo, HasHeard

\* Nothing is owed to one that has just joined.
LEMMA JustJoined ==
    ASSUME NEW c, NEW n \in Nat, fed'[c] = <<>>, joined'[c] = n
    PROVE  HearsTo(c, n)'
<1>1. Owed(c, n)' = {}
  BY DEF Owed
<1>2. Cardinality(Owed(c, n)') = 0
  BY <1>1, FS_EmptySet
<1>3. Len(fed'[c]) = 0
  OBVIOUS
<1> QED
  BY <1>1, <1>2, <1>3 DEF HearsTo, HasHeard

LEMMA HearsStill ==
    ASSUME NEW c, NEW n, HearsTo(c, n), fed'[c] = fed[c], joined'[c] = joined[c], log' = log
    PROVE  HearsTo(c, n)'
BY DEF HearsTo, HasHeard, Owed

-----------------------------------------------------------------------------
\* A client of either server changes its own state and the queue of requests.
ClientStep(c) == /\ UNCHANGED <<taken, file, historyVars>>
                 /\ cl' \in [Clients -> {"out", "idle", "sending", "gone"}]
                 /\ \A d \in Clients : d # c => cl'[d] = cl[d]
                 /\ cl'[c] = "out" => cl[c] = "out"
                 /\ Alive(c)' => Alive(c) \/ cl[c] = "out"
                 /\ \/ backlog' = backlog
                    \/ cl[c] = "out" /\ cl'[c] = "idle" /\ backlog' = Append(backlog, c)

LEMMA ClientSteps ==
    ASSUME HearTypeOK, NEW c \in Clients, NEW serverUp, NEW held,
           \/ Connect(c, serverUp) \/ ReadServer(c, held) \/ ReadUser(c) \/ SendUp(c, held) \/ Killed(c)
    PROVE  ClientStep(c)
<1>1. cl \in [Clients -> {"out", "idle", "sending", "gone"}]
  BY DEF HearTypeOK
<1>2. UNCHANGED <<taken, file, historyVars>>
  BY DEF Connect, ReadServer, ReadUser, SendUp, Killed, kernelVars
<1>3. /\ cl' \in [Clients -> {"out", "idle", "sending", "gone"}]
      /\ \A d \in Clients : d # c => cl'[d] = cl[d]
  BY <1>1 DEF Connect, ReadServer, ReadUser, SendUp, Killed
<1>4. /\ cl'[c] = "out" => cl[c] = "out"
      /\ cl'[c] \in {"idle", "sending"} => cl[c] # "gone"
      /\ \/ backlog' = backlog
         \/ cl[c] = "out" /\ cl'[c] = "idle" /\ backlog' = Append(backlog, c)
  <2>1. CASE Connect(c, serverUp)
    BY <1>1, <2>1 DEF Connect
  <2>2. CASE ReadServer(c, held)
    BY <1>1, <2>2 DEF ReadServer, kernelVars
  <2>3. CASE ReadUser(c)
    BY <1>1, <2>3 DEF ReadUser, kernelVars
  <2>4. CASE SendUp(c, held)
    BY <1>1, <2>4 DEF SendUp, kernelVars
  <2>5. CASE Killed(c)
    BY <1>1, <2>5 DEF Killed, kernelVars
  <2> QED
    BY <2>1, <2>2, <2>3, <2>4, <2>5
<1>5. Alive(c)' => Alive(c) \/ cl[c] = "out"
  BY <1>1, <1>4 DEF Alive
<1> QED
  BY <1>2, <1>3, <1>4, <1>5 DEF ClientStep

LEMMA ClientsApart ==
    ASSUME HearTypeOK, ConnectionsApart, NEW c \in Clients, ClientStep(c)
    PROVE  /\ HearTypeOK' /\ ConnectionsApart'
           /\ \A d \in Clients : Waits(d)' => Waits(d)
           /\ \A fd \in Fds : file[fd] # NoClient /\ Alive(file[fd])' => Alive(file[fd])
<1> DEFINE n == Len(backlog)
<1>1. n \in Nat /\ DOMAIN backlog = 1..n /\ \A i \in 1..n : backlog[i] \in Clients
  BY LenProperties DEF HearTypeOK
<1>2. HearTypeOK'
  <2>1. backlog' \in Seq(Clients)
    <3>1. backlog \in Seq(Clients) /\ Append(backlog, c) \in Seq(Clients)
      BY AppendProperties DEF HearTypeOK
    <3> QED
      BY <3>1 DEF ClientStep
  <2> QED
    BY <2>1 DEF HearTypeOK, ClientStep, historyVars
<1> HIDE DEF n
<1>3. \A fd \in Fds : file[fd] # NoClient => file[fd] \in Clients
  BY DEF HearTypeOK, Peer
<1>4. CASE backlog' = backlog
  <2>1. ConnectionsApart'
    BY <1>1, <1>3, <1>4 DEF ConnectionsApart, ClientStep, Fds
  <2>2. \A d \in Clients : Waits(d)' => Waits(d)
    BY <1>4 DEF Waits, ClientStep
  <2> QED
    BY <1>2, <1>3, <2>1, <2>2 DEF ConnectionsApart, ClientStep, Alive
<1>5. CASE cl[c] = "out" /\ cl'[c] = "idle" /\ backlog' = Append(backlog, c)
  <2>1. /\ DOMAIN backlog' = 1..(n + 1) /\ backlog'[n + 1] = c
        /\ \A i \in 1..n : backlog'[i] = backlog[i]
    BY <1>1, <1>5, AppendProperties DEF HearTypeOK, n
  <2>2. (\A i \in 1..n : backlog[i] # c) /\ \A x \in Fds : file[x] # c
    BY <1>1, <1>5, RoomAssumption DEF ConnectionsApart
  <2>a. \A i \in 1..(n + 1) : i = n + 1 \/ i \in 1..n
    BY <1>1
  <2>3. \A i, j \in DOMAIN backlog' : backlog'[i] = backlog'[j] => i = j
    BY <1>1, <2>1, <2>2, <2>a DEF ConnectionsApart
  <2>4. \A x \in Fds, i \in DOMAIN backlog' : file'[x] # backlog'[i]
    BY <1>1, <2>1, <2>2, <2>a DEF ConnectionsApart, ClientStep
  <2>5. \A i \in DOMAIN backlog' : cl'[backlog'[i]] # "out"
    BY <1>1, <1>5, <2>1, <2>2, <2>a DEF ConnectionsApart, ClientStep
  <2>6. \A x \in Fds : file'[x] # NoClient => cl'[file'[x]] # "out"
    BY <1>3, <2>2 DEF ConnectionsApart, ClientStep
  <2>7. ConnectionsApart'
    BY <2>3, <2>4, <2>5, <2>6 DEF ConnectionsApart, ClientStep, Fds
  <2>8. \A d \in Clients : Waits(d)' => Waits(d)
    BY <1>1, <1>5, <2>1, <2>a DEF Waits, ClientStep
  <2> QED
    BY <1>2, <1>3, <2>2, <2>7, <2>8 DEF ConnectionsApart, ClientStep, Alive
<1> QED
  BY <1>4, <1>5 DEF ClientStep

\* accept takes the first request of the queue.
LEMMA AcceptedApart ==
    ASSUME HearTypeOK, ConnectionsApart, NEW fd \in Fds, Accepted(fd), cl' = cl,
           UNCHANGED <<taken, log, fed>>, joined' \in [Clients -> Nat]
    PROVE  /\ HearTypeOK' /\ ConnectionsApart'
           /\ file[fd] = NoClient /\ file'[fd] = Head(backlog) /\ Head(backlog) \in Clients
           /\ \A x \in Fds \ {fd} : file'[x] = file[x]
           /\ \A x \in Fds : file[x] # Head(backlog)
           /\ \A d \in Clients : Waits(d)' => Waits(d) /\ d # Head(backlog)
           /\ Waits(Head(backlog))
<1> DEFINE n == Len(backlog)
           h == Head(backlog)
<1>1. n \in Nat /\ DOMAIN backlog = 1..n /\ \A i \in 1..n : backlog[i] \in Clients
  BY LenProperties DEF HearTypeOK
<1>2. /\ backlog # <<>> /\ backlog \in Seq(Clients)
      /\ file' = [file EXCEPT ![fd] = h] /\ backlog' = Tail(backlog)
  BY DEF Accepted, HearTypeOK
<1>3. /\ n > 0 /\ h = backlog[1] /\ Tail(backlog) \in Seq(Clients) /\ DOMAIN Tail(backlog) = 1..(n - 1)
      /\ \A i \in 1..(n - 1) : Tail(backlog)[i] = backlog[i + 1]
  BY <1>1, <1>2
<1>4. file[fd] = NoClient
  <2>1. fd \in FreeFds
    <3>1. fd = Min(FreeFds) /\ FreeFds # {}
      BY DEF Accepted
    <3> QED
      BY <3>1, NumbersOnly, LeastIsMember DEF FreeFds
  <2> QED
    BY <2>1 DEF FreeFds
<1> HIDE DEF n, h
<1>5. 1 \in 1..n /\ \A i \in 1..(n - 1) : i + 1 \in 1..n /\ i + 1 # 1
  BY <1>1, <1>3
<1>6. h \in Clients /\ h # NoClient
  BY <1>1, <1>3, <1>5, RoomAssumption
<1>7. file'[fd] = h /\ file' \in [Fds -> Peer] /\ \A x \in Fds \ {fd} : file'[x] = file[x]
  BY <1>2, <1>6 DEF HearTypeOK, Peer
<1>8. HearTypeOK'
  BY <1>2, <1>3, <1>7 DEF HearTypeOK
<1>a. \A i \in 1..(n - 1) : backlog'[i] = backlog[i + 1] /\ i + 1 \in DOMAIN backlog /\ i + 1 # 1
  BY <1>1, <1>2, <1>3, <1>5
<1>b. 1 \in DOMAIN backlog /\ DOMAIN backlog' = 1..(n - 1)
  BY <1>1, <1>2, <1>3, <1>5
<1>9. (\A x \in Fds : file[x] # h) /\ \A i \in 1..(n - 1) : backlog'[i] # h
  BY <1>3, <1>a, <1>b DEF ConnectionsApart
<1>10. ConnectionsApart'
  <2>1. \A x, y \in Fds : file'[x] = file'[y] /\ file'[x] # NoClient => x = y
    BY <1>7, <1>9 DEF ConnectionsApart
  <2>2. \A i, j \in 1..(n - 1) : backlog'[i] = backlog'[j] => i = j
    <3> SUFFICES ASSUME NEW i \in 1..(n - 1), NEW j \in 1..(n - 1), backlog'[i] = backlog'[j]
                 PROVE  i = j
      OBVIOUS
    <3>1. i + 1 = j + 1
      BY <1>a DEF ConnectionsApart
    <3> QED
      BY <1>1, <3>1
  <2>3. \A x \in Fds, i \in 1..(n - 1) : file'[x] # backlog'[i]
    BY <1>7, <1>9, <1>a DEF ConnectionsApart
  <2>4. \A i \in 1..(n - 1) : cl[backlog'[i]] # "out"
    BY <1>a DEF ConnectionsApart
  <2>5. \A x \in Fds : file'[x] # NoClient => cl[file'[x]] # "out"
    BY <1>3, <1>7, <1>b DEF ConnectionsApart
  <2> QED
    BY <1>b, <2>1, <2>2, <2>3, <2>4, <2>5 DEF ConnectionsApart, Fds
<1>11. \A d \in Clients : Waits(d)' => Waits(d) /\ d # h
  BY <1>3, <1>9, <1>a, <1>b DEF Waits, ConnectionsApart
<1>12. Waits(h)
  BY <1>1, <1>3, <1>5 DEF Waits
<1> QED
  BY <1>4, <1>6, <1>7, <1>8, <1>9, <1>10, <1>11, <1>12 DEF h

-----------------------------------------------------------------------------
\* The server with threads: the one in the mutex sends the last message of the log.

LockIsHeld == /\ lock # NoThread => lock \in Threads /\ th[lock].pc = "send"
              /\ \A t \in Threads : th[t].pc = "send" =>
                     /\ lock = t /\ th[t].i > 0
                     /\ log # <<>> /\ log[Len(log)] = th[t].msg

ThreadsOwn == \A t \in Threads :
    /\ th[t].pc \in {"recv", "forward", "send"} => th[t].conn = file[th[t].sock]
    /\ th[t].pc \in {"forward", "send"} => th[t].msg[1] = th[t].conn

Joining(c) == Waits(c) \/ (acceptor = "add" /\ FileOf(clientsock) = c)
NotYetFed == \A c \in Clients : Joining(c) => fed[c] = <<>>

Ahead(i) == lock # NoThread /\ th[lock].i <= i
EntriesHear == \A i \in DOMAIN open_sockets :
    Alive(file[open_sockets[i]]) =>
        HearsTo(file[open_sockets[i]], IF Ahead(i) THEN Len(log) - 1 ELSE Len(log))

ThreadsHear == clean /\ acceptor # "ended" => ThreadsOwn /\ NotYetFed /\ EntriesHear

HearInv == HearTypeOK /\ ConnectionsApart /\ LockIsHeld /\ ThreadsHear

LEMMA InitHear == ServerInit => HearInv
<1> SUFFICES ASSUME ServerInit PROVE HearInv
  OBVIOUS
<1>1. HearTypeOK
  BY DEF ServerInit, ConfInit, HearTypeOK, Peer
<1>2. ConnectionsApart
  BY DEF ServerInit, ConfInit, ConnectionsApart
<1>3. \A t \in Threads : th[t].pc = "none"
  BY DEF ServerInit, FreshThread
<1>4. LockIsHeld
  BY <1>3 DEF ServerInit, LockIsHeld
<1>5. ThreadsHear
  BY <1>3 DEF ServerInit, ConfInit, ThreadsHear, ThreadsOwn, NotYetFed, EntriesHear
<1> QED
  BY <1>1, <1>2, <1>4, <1>5 DEF HearInv

LEMMA Entries ==
    ASSUME ServerInv, clean, acceptor # "ended", NEW i \in DOMAIN open_sockets
    PROVE  /\ ServerUp /\ TableIsLive /\ UsersApart
           /\ open_sockets[i] \in Fds /\ Owned(open_sockets[i])
           /\ file[open_sockets[i]] # NoClient /\ file[open_sockets[i]] \in Clients
           /\ \A j \in DOMAIN open_sockets : open_sockets[i] = open_sockets[j] => i = j
<1>1. acceptor # "start"
  BY DEF ServerInv, NothingYet
<1>2. ServerUp /\ TableIsLive /\ UsersApart
  BY <1>1 DEF ServerInv, ServerUp
<1>3. \A fd : fd \in {open_sockets[j] : j \in DOMAIN open_sockets} => fd \in Fds /\ Owned(fd)
  BY <1>2 DEF TableIsLive
<1>4. open_sockets[i] \in Fds /\ Owned(open_sockets[i])
  BY <1>3
<1>5. file[open_sockets[i]] # NoClient /\ file[open_sockets[i]] \in Peer
  BY <1>2, <1>4 DEF TableIsLive, ServerInv, ServerTypeOK
<1> QED
  BY <1>2, <1>4, <1>5 DEF TableIsLive, Peer

LEMMA Lengths == ASSUME HearTypeOK PROVE Len(log) \in Nat /\ \A c \in Clients : joined[c] \in Nat
BY LenProperties DEF HearTypeOK

LEMMA ClientHears ==
    ASSUME ServerInv, HearInv, NEW c \in Clients, ServerClient(c)
    PROVE  HearInv'
<1>1. UNCHANGED <<open_sockets, lock, clientsock, acceptor, th, clean>>
  BY DEF ServerClient, serverVars
<1>2. ClientStep(c)
  BY ClientSteps DEF ServerClient, HearInv
<1>3. HearTypeOK' /\ ConnectionsApart' /\ (\A d \in Clients : Waits(d)' => Waits(d))
      /\ \A fd \in Fds : file[fd] # NoClient /\ Alive(file[fd])' => Alive(file[fd])
  BY <1>2, ClientsApart DEF HearInv
<1>4. UNCHANGED <<file, log, fed, joined>>
  BY <1>2 DEF ClientStep, historyVars
<1>5. LockIsHeld'
  BY <1>1, <1>4 DEF HearInv, LockIsHeld
<1>6. ThreadsHear'
  <2> SUFFICES ASSUME clean, acceptor # "ended" PROVE ThreadsOwn' /\ NotYetFed' /\ EntriesHear'
    BY <1>1 DEF ThreadsHear
  <2>1. ThreadsOwn /\ NotYetFed /\ EntriesHear
    BY DEF HearInv, ThreadsHear
  <2>2. ThreadsOwn'
    BY <1>1, <1>4, <2>1 DEF ThreadsOwn
  <2>3. NotYetFed'
    BY <1>1, <1>3, <1>4, <2>1 DEF NotYetFed, Joining, FileOf
  <2>4. ASSUME NEW i \in DOMAIN open_sockets, Alive(file[open_sockets[i]])'
        PROVE  HearsTo(file[open_sockets[i]], IF Ahead(i) THEN Len(log) - 1 ELSE Len(log))'
    <3>1. Alive(file[open_sockets[i]])
      BY <1>1, <1>3, <1>4, <2>4, Entries
    <3>2. HearsTo(file[open_sockets[i]], IF Ahead(i) THEN Len(log) - 1 ELSE Len(log))
      BY <2>1, <3>1 DEF EntriesHear
    <3>3. Ahead(i)' <=> Ahead(i)
      BY <1>1 DEF Ahead
    <3> QED
      BY <1>1, <1>4, <3>2, <3>3, HearsStill
  <2> QED
    BY <1>1, <1>4, <2>2, <2>3, <2>4 DEF EntriesHear
<1> QED
  BY <1>3, <1>5, <1>6 DEF HearInv

\* A step of a thread outside of the mutex.
LEMMA ThreadHears ==
    ASSUME ServerInv, HearInv, NEW t \in Threads, NEW r \in Thread, th' = [th EXCEPT ![t] = r],
           th[t].pc # "send", r.pc # "send", clean' => clean,
           acceptor' = acceptor \/ (acceptor' # "add" /\ acceptor # "ended"),
           clean' /\ acceptor' # "ended" /\ r.pc \in {"recv", "forward"} => r.conn = file[r.sock],
           r.pc = "forward" /\ clean' /\ acceptor' # "ended" => r.msg[1] = r.conn,
           taken' \in [Clients -> Nat],
           UNCHANGED <<cl, backlog, file, log, fed, joined, open_sockets, lock, clientsock>>
    PROVE  HearInv'
<1>1. th \in [Threads -> Thread]
  BY DEF ServerInv, ServerTypeOK
<1>2. th'[t] = r /\ \A u \in Threads \ {t} : th'[u] = th[u]
  BY <1>1
<1>3. HearTypeOK' /\ ConnectionsApart'
  BY DEF HearInv, HearTypeOK, ConnectionsApart
<1>4. LockIsHeld'
  BY <1>2 DEF HearInv, LockIsHeld
<1>5. lock # NoThread => lock \in Threads \ {t}
  BY DEF HearInv, LockIsHeld
<1>6. ThreadsHear'
  <2> SUFFICES ASSUME clean', acceptor' # "ended" PROVE ThreadsOwn' /\ NotYetFed' /\ EntriesHear'
    BY DEF ThreadsHear
  <2>1. ThreadsOwn /\ NotYetFed /\ EntriesHear
    BY DEF HearInv, ThreadsHear
  <2>2. ThreadsOwn'
    BY <1>2, <2>1 DEF ThreadsOwn
  <2>3. NotYetFed'
    BY <2>1 DEF NotYetFed, Joining, FileOf, Waits
  <2>4. \A i : Ahead(i)' <=> Ahead(i)
    BY <1>2, <1>5 DEF Ahead
  <2>5. EntriesHear'
    BY <2>1, <2>4, HearsStill DEF EntriesHear, Alive
  <2> QED
    BY <2>2, <2>3, <2>5
<1> QED
  BY <1>3, <1>4, <1>6 DEF HearInv

LEMMA StartHears ==
    ASSUME ServerInv, HearInv, NEW t \in Threads, Start(t) PROVE HearInv'
<1> DEFINE r == [th[t] EXCEPT !.pc = "call", !.sock = clientsock]
<1>1. th[t] \in Thread /\ clientsock \in Fds \cup {BadSocket} /\ taken \in [Clients -> Nat]
  BY DEF ServerInv, ServerTypeOK
<1>2. r \in Thread /\ r.pc = "call"
  BY <1>1 DEF Thread, Place
<1>3. th' = [th EXCEPT ![t] = r] /\ th[t].pc = "start" /\ (clean' => clean)
  BY DEF Start
<1>4. UNCHANGED <<taken, cl, backlog, file, log, fed, joined, open_sockets, lock, clientsock, acceptor>>
  BY DEF Start, confVars, clientVars, kernelVars, historyVars
<1>5. taken' \in [Clients -> Nat]
  BY <1>1, <1>4
<1> HIDE DEF r
<1>6. th[t].pc # "send" /\ r.pc # "send" /\ (clean' => clean)
  BY <1>2, <1>3, <1>4
<1>7. acceptor' = acceptor \/ (acceptor' # "add" /\ acceptor # "ended")
  BY <1>2, <1>3, <1>4
<1>8. clean' /\ acceptor' # "ended" /\ r.pc \in {"recv", "forward"} => r.conn = file[r.sock]
  BY <1>2, <1>3, <1>4
<1>9. r.pc = "forward" /\ clean' /\ acceptor' # "ended" => r.msg[1] = r.conn
  BY <1>2, <1>3, <1>4
<1>10. UNCHANGED <<cl, backlog, file, log, fed, joined, open_sockets, lock, clientsock>>
  BY <1>4
<1> QED
  BY <1>2, <1>3, <1>5, <1>6, <1>7, <1>8, <1>9, <1>10, ThreadHears

LEMMA CallHears ==
    ASSUME ServerInv, HearInv, NEW t \in Threads, Call(t) PROVE HearInv'
<1> DEFINE c == FileOf(th[t].sock)
           place == IF c = NoClient THEN "remove" ELSE "recv"
           r == [th[t] EXCEPT !.conn = c, !.pc = place]
<1>1. th[t] \in Thread /\ th \in [Threads -> Thread] /\ file \in [Fds -> Peer] /\ taken \in [Clients -> Nat]
  BY DEF ServerInv, ServerTypeOK
<1>2. c \in Peer /\ (c # NoClient => c = file[th[t].sock])
  BY <1>1 DEF FileOf, Peer
<1>3. place \in {"remove", "recv"} /\ (place = "recv" => c = file[th[t].sock])
  BY <1>2
<1>4. th' = [th EXCEPT ![t] = r] /\ th[t].pc = "call"
  BY <1>1 DEF Call
<1> HIDE DEF c, place
<1>5. r \in Thread /\ r.pc = place /\ r.conn = c /\ r.sock = th[t].sock
  BY <1>1, <1>2, <1>3 DEF Thread, Place
<1>6. UNCHANGED <<taken, cl, backlog, file, log, fed, joined, open_sockets, lock, clientsock, acceptor, clean>>
  BY DEF Call, confVars, clientVars, kernelVars, historyVars
<1>7. taken' \in [Clients -> Nat]
  BY <1>1, <1>6
<1> HIDE DEF r
<1>8. r.pc \notin {"send", "forward"} /\ (r.pc = "recv" => r.conn = file[r.sock])
  BY <1>3, <1>5
<1>9. th[t].pc # "send" /\ r.pc # "send" /\ (clean' => clean)
  BY <1>4, <1>6, <1>8
<1>10. acceptor' = acceptor \/ (acceptor' # "add" /\ acceptor # "ended")
  BY <1>4, <1>6, <1>8
<1>11. clean' /\ acceptor' # "ended" /\ r.pc \in {"recv", "forward"} => r.conn = file[r.sock]
  BY <1>4, <1>6, <1>8
<1>12. r.pc = "forward" /\ clean' /\ acceptor' # "ended" => r.msg[1] = r.conn
  BY <1>4, <1>6, <1>8
<1>13. UNCHANGED <<cl, backlog, file, log, fed, joined, open_sockets, lock, clientsock>>
  BY <1>6
<1>14. r \in Thread /\ th' = [th EXCEPT ![t] = r]
  BY <1>4, <1>5
<1> QED
  BY <1>7, <1>9, <1>10, <1>11, <1>12, <1>13, <1>14, ThreadHears

LEMMA RecvHears ==
    ASSUME ServerInv, HearInv, NEW t \in Threads, Recv(t) PROVE HearInv'
<1>1. th[t] \in Thread /\ th \in [Threads -> Thread] /\ taken \in [Clients -> Nat]
  BY DEF ServerInv, ServerTypeOK
<1>2. th[t].pc = "recv" /\ th[t].conn \in Clients
  BY DEF Recv, ServerInv, ServerTypeOK
<1>3. UNCHANGED <<cl, backlog, file, log, fed, joined, open_sockets, lock, clientsock, acceptor, clean>>
  BY DEF Recv, kernelVars, historyVars
<1>4. clean' /\ acceptor' # "ended" => th[t].conn = file[th[t].sock]
  BY <1>2, <1>3 DEF HearInv, ThreadsHear, ThreadsOwn
<1>5. CASE RecvText(th[t].conn) /\ th' = [th EXCEPT ![t].pc = "forward", ![t].msg = <<th[t].conn, taken'[th[t].conn]>>]
  <2> DEFINE c == th[t].conn
             msg == <<c, taken'[c]>>
             r == [th[t] EXCEPT !.pc = "forward", !.msg = msg]
  <2>1. taken' \in [Clients -> Nat] /\ taken'[c] \in Nat
    BY <1>1, <1>2, <1>5 DEF RecvText
  <2>2. msg \in Peer \X Nat /\ msg[1] = c
    BY <1>2, <2>1 DEF Peer
  <2>3. th' = [th EXCEPT ![t] = r]
    BY <1>1, <1>5
  <2> HIDE DEF msg
  <2>4. r \in Thread /\ r.pc = "forward" /\ r.sock = th[t].sock /\ r.conn = c /\ r.msg[1] = c
    BY <1>1, <2>2 DEF Thread, Place
  <2> HIDE DEF r
  <2>5. clean' /\ acceptor' # "ended" => r.conn = file[r.sock]
    BY <1>4, <2>4
  <2>6. th[t].pc # "send" /\ r.pc # "send" /\ (clean' => clean)
    BY <1>2, <1>3, <2>4, <2>5
  <2>7. acceptor' = acceptor \/ (acceptor' # "add" /\ acceptor # "ended")
    BY <1>2, <1>3, <2>4, <2>5
  <2>8. clean' /\ acceptor' # "ended" /\ r.pc \in {"recv", "forward"} => r.conn = file[r.sock]
    BY <1>2, <1>3, <2>4, <2>5
  <2>9. r.pc = "forward" /\ clean' /\ acceptor' # "ended" => r.msg[1] = r.conn
    BY <1>2, <1>3, <2>4, <2>5
  <2>10. UNCHANGED <<cl, backlog, file, log, fed, joined, open_sockets, lock, clientsock>>
    BY <1>3
  <2>11. r \in Thread /\ taken' \in [Clients -> Nat]
    BY <2>1, <2>4
  <2> QED
    BY <2>3, <2>6, <2>7, <2>8, <2>9, <2>10, <2>11, ThreadHears
<1>6. CASE th' = [th EXCEPT ![t].pc = "remove"] /\ taken' = taken
  <2> DEFINE r == [th[t] EXCEPT !.pc = "remove"]
  <2>1. th' = [th EXCEPT ![t] = r]
    BY <1>1, <1>6
  <2>2. r \in Thread /\ r.pc = "remove"
    BY <1>1 DEF Thread, Place
  <2>3. taken' \in [Clients -> Nat]
    BY <1>1, <1>6
  <2> HIDE DEF r
  <2>4. th[t].pc # "send" /\ r.pc # "send" /\ (clean' => clean)
    BY <1>2, <1>3, <2>2
  <2>5. acceptor' = acceptor \/ (acceptor' # "add" /\ acceptor # "ended")
    BY <1>2, <1>3, <2>2
  <2>6. clean' /\ acceptor' # "ended" /\ r.pc \in {"recv", "forward"} => r.conn = file[r.sock]
    BY <1>2, <1>3, <2>2
  <2>7. r.pc = "forward" /\ clean' /\ acceptor' # "ended" => r.msg[1] = r.conn
    BY <1>2, <1>3, <2>2
  <2>8. UNCHANGED <<cl, backlog, file, log, fed, joined, open_sockets, lock, clientsock>>
    BY <1>3
  <2>9. r \in Thread
    BY <2>2
  <2> QED
    BY <2>1, <2>3, <2>4, <2>5, <2>6, <2>7, <2>8, <2>9, ThreadHears
<1> QED
  BY <1>5, <1>6 DEF Recv, Goto

LEMMA CreateHears ==
    ASSUME ServerInv, HearInv, NEW t \in Threads, Create(t) PROVE HearInv'
<1> DEFINE r == [FreshThread EXCEPT !.pc = "start", !.sock = clientsock]
<1>1. clientsock \in Fds \cup {BadSocket} /\ taken \in [Clients -> Nat]
  BY DEF ServerInv, ServerTypeOK
<1>2. r \in Thread /\ r.pc = "start"
  BY <1>1 DEF FreshThread, NoMsg, Thread, Place, Peer
<1>3. /\ acceptor = "create" /\ acceptor' = "accept" /\ th[t].pc = "none" /\ th' = [th EXCEPT ![t] = r]
      /\ UNCHANGED <<taken, cl, backlog, file, log, fed, joined, open_sockets, lock, clientsock, clean>>
  BY DEF Create, confVars, clientVars, kernelVars, historyVars
<1>4. taken' \in [Clients -> Nat]
  BY <1>1, <1>3
<1> HIDE DEF r
<1> QED
  BY <1>2, <1>3, <1>4, ThreadHears

\* The acceptor's steps that touch neither a table nor a connection.
LEMMA AcceptorElseHears ==
    ASSUME HearInv, StartServer \/ AcceptFails \/ CreateFails \/ StartFails
    PROVE  HearInv'
<1>1. /\ UNCHANGED <<taken, cl, backlog, file, log, fed, joined, open_sockets, lock, th, clean>>
      /\ acceptor # "ended" /\ acceptor' # "add"
  BY DEF StartServer, AcceptFails, CreateFails, StartFails, confVars, clientVars, kernelVars, historyVars
<1>2. HearTypeOK' /\ ConnectionsApart' /\ LockIsHeld'
  BY <1>1 DEF HearInv, HearTypeOK, ConnectionsApart, LockIsHeld
<1>3. ASSUME clean' PROVE ThreadsOwn' /\ NotYetFed' /\ EntriesHear'
  <2>1. ThreadsOwn /\ NotYetFed /\ EntriesHear
    BY <1>1, <1>3 DEF HearInv, ThreadsHear
  <2>2. ThreadsOwn' /\ NotYetFed'
    BY <1>1, <2>1 DEF ThreadsOwn, NotYetFed, Joining, Waits
  <2>3. \A i : Ahead(i)' <=> Ahead(i)
    BY <1>1 DEF Ahead
  <2>4. EntriesHear'
    BY <1>1, <2>1, <2>3, HearsStill DEF EntriesHear, Alive
  <2> QED
    BY <2>2, <2>4
<1> QED
  BY <1>2, <1>3 DEF HearInv, ThreadsHear

LEMMA AcceptHears ==
    ASSUME ServerInv, HearInv, NEW fd \in Fds, Accept(fd) PROVE HearInv'
<1>1. /\ UNCHANGED <<taken, cl, log, fed, joined, open_sockets, lock, th, clean>>
      /\ acceptor = "accept" /\ acceptor' = "add" /\ clientsock' = fd /\ Accepted(fd)
  BY DEF Accept, clientVars, historyVars
<1>2. HearTypeOK /\ ConnectionsApart /\ joined' \in [Clients -> Nat]
  BY <1>1 DEF HearInv, HearTypeOK
<1>3. /\ HearTypeOK' /\ ConnectionsApart'
      /\ file[fd] = NoClient /\ file'[fd] = Head(backlog)
      /\ \A x \in Fds \ {fd} : file'[x] = file[x]
      /\ \A d \in Clients : Waits(d)' => Waits(d)
      /\ Waits(Head(backlog))
  BY <1>1, <1>2, AcceptedApart
<1>4. LockIsHeld'
  BY <1>1 DEF HearInv, LockIsHeld
<1>5. ASSUME clean PROVE ThreadsOwn' /\ NotYetFed' /\ EntriesHear'
  <2>1. ThreadsOwn /\ NotYetFed /\ EntriesHear /\ UsersApart
    BY <1>1, <1>5 DEF HearInv, ThreadsHear, ServerInv, ServerUp
  <2>2. ThreadsOwn'
    <3>1. \A t \in Threads : th[t].pc \in {"recv", "forward", "send"} => file'[th[t].sock] = file[th[t].sock]
      BY <1>3, <2>1 DEF UsersApart, Using
    <3> QED
      BY <1>1, <2>1, <3>1 DEF ThreadsOwn
  <2>3. \A c \in Clients : Joining(c)' => Joining(c)
    BY <1>1, <1>3 DEF Joining, FileOf, Fds
  <2>4. NotYetFed'
    BY <1>1, <2>1, <2>3 DEF NotYetFed
  <2>5. \A i : Ahead(i)' <=> Ahead(i)
    BY <1>1 DEF Ahead
  <2>6. \A i \in DOMAIN open_sockets : file'[open_sockets[i]] = file[open_sockets[i]]
    BY <1>1, <1>3, <1>5, Entries
  <2>7. EntriesHear'
    BY <1>1, <2>1, <2>5, <2>6, HearsStill DEF EntriesHear, Alive
  <2> QED
    BY <2>2, <2>4, <2>7
<1> QED
  BY <1>1, <1>3, <1>4, <1>5 DEF HearInv, ThreadsHear

\* The new member is owed what is said from now on.
LEMMA AddHears ==
    ASSUME ServerInv, HearInv, Add PROVE HearInv'
<1>0. PICK c : c = file[clientsock]
  OBVIOUS
<1> DEFINE n == Len(open_sockets)
<1>1. /\ UNCHANGED <<taken, cl, backlog, file, log, fed, lock, clientsock, th, clean>>
      /\ acceptor = "add" /\ acceptor' = "create" /\ lock = NoThread
      /\ open_sockets' = Append(open_sockets, clientsock)
      /\ joined' = [d \in Clients |-> IF d = FileOf(clientsock) THEN Len(log) ELSE joined[d]]
  BY DEF Add, AddSocket, clientVars, kernelVars
<1>2. clientsock \in Fds /\ open_sockets \in Seq(Fds) /\ c \in Peer /\ FileOf(clientsock) = c
  BY <1>0, <1>1 DEF ServerInv, ServerTypeOK, Holds, FileOf
<1>3. /\ n \in Nat /\ DOMAIN open_sockets = 1..n /\ DOMAIN open_sockets' = 1..(n + 1)
      /\ \A i \in 1..n : open_sockets'[i] = open_sockets[i]
      /\ open_sockets'[n + 1] = clientsock
  BY <1>1, <1>2, AppendProperties, LenProperties
<1> HIDE DEF n
<1>4. Len(log) \in Nat /\ joined' \in [Clients -> Nat]
  BY <1>1, Lengths DEF HearInv
<1>5. HearTypeOK' /\ ConnectionsApart' /\ LockIsHeld'
  BY <1>1, <1>4 DEF HearInv, HearTypeOK, ConnectionsApart, LockIsHeld
<1>6. ASSUME clean PROVE ThreadsOwn' /\ NotYetFed' /\ EntriesHear'
  <2>1. ThreadsOwn /\ NotYetFed /\ EntriesHear /\ UsersApart
    BY <1>1, <1>6 DEF HearInv, ThreadsHear, ServerInv, ServerUp
  <2>2. c # NoClient /\ c \in Clients
    BY <1>0, <1>1, <1>2, <2>1 DEF UsersApart, Holds, Peer
  <2>3. ThreadsOwn' /\ NotYetFed'
    BY <1>1, <2>1 DEF ThreadsOwn, NotYetFed, Joining, Waits
  <2>4. fed[c] = <<>> /\ joined'[c] = Len(log)
    BY <1>1, <1>2, <2>1, <2>2 DEF NotYetFed, Joining
  <2>5. \A i : ~Ahead(i) /\ ~Ahead(i)'
    BY <1>1 DEF Ahead
  <2>6. ASSUME NEW i \in 1..n, NEW d, d = file[open_sockets[i]], Alive(d)
        PROVE  HearsTo(d, Len(log))'
    <3>1. open_sockets[i] \in Fds /\ Owned(open_sockets[i]) /\ d \in Clients /\ d # NoClient
      BY <1>1, <1>3, <1>6, <2>6, Entries
    <3>2. open_sockets[i] # clientsock
      BY <1>1, <2>1, <3>1 DEF Owned, UsersApart, Holds, Using
    <3>3. d # c
      BY <1>0, <1>2, <2>6, <3>1, <3>2 DEF HearInv, ConnectionsApart
    <3>4. joined'[d] = joined[d]
      BY <1>1, <1>2, <3>1, <3>3
    <3>5. HearsTo(d, Len(log))
      BY <1>3, <2>1, <2>5, <2>6 DEF EntriesHear
    <3> QED
      BY <1>1, <3>4, <3>5, HearsStill
  <2>7. HearsTo(c, Len(log))'
    <3>1. fed'[c] = <<>> /\ joined'[c] = Len(log) /\ log' = log
      BY <1>1, <2>4
    <3> QED
      BY <1>4, <3>1, JustJoined
  <2>8. \A i \in 1..(n + 1) : i = n + 1 \/ i \in 1..n
    BY <1>3
  <2>9. EntriesHear'
    <3> SUFFICES ASSUME NEW i \in 1..(n + 1), Alive(file[open_sockets[i]])'
                 PROVE  HearsTo(file[open_sockets[i]], Len(log))'
      BY <1>3, <2>5 DEF EntriesHear
    <3>1. CASE i \in 1..n
      <4>1. Alive(file[open_sockets[i]]) /\ file'[open_sockets'[i]] = file[open_sockets[i]]
        BY <1>1, <1>3, <3>1 DEF Alive
      <4> QED
        BY <1>1, <2>6, <3>1, <4>1
    <3>2. CASE i = n + 1
      BY <1>0, <1>1, <1>3, <2>7, <3>2
    <3> QED
      BY <2>8, <3>1, <3>2
  <2> QED
    BY <2>3, <2>9
<1> QED
  BY <1>1, <1>5, <1>6 DEF HearInv, ThreadsHear

LEMMA EndHears ==
    ASSUME HearInv, Drop PROVE HearInv'
<1>1. /\ UNCHANGED <<taken, cl, log, fed, joined, lock>>
      /\ acceptor' = "ended" /\ lock = NoThread
      /\ file' = [fd \in Fds |-> NoClient] /\ backlog' = <<>>
      /\ th' = [t \in Threads |-> [FreshThread EXCEPT !.pc = "done"]]
  BY DEF Drop, RemoveSocket, clientVars, historyVars
<1>2. HearTypeOK' /\ ConnectionsApart'
  BY <1>1 DEF HearInv, HearTypeOK, ConnectionsApart, Peer
<1>3. \A t \in Threads : th'[t].pc = "done"
  BY <1>1 DEF FreshThread
<1>4. LockIsHeld' /\ ThreadsHear'
  BY <1>1, <1>3 DEF LockIsHeld, ThreadsHear
<1> QED
  BY <1>2, <1>4 DEF HearInv

\* A thread that enters the mutex puts its message at the end of the log: every
\* member is now one message behind.
LEMMA ForwardHears ==
    ASSUME ServerInv, HearInv, NEW t \in Threads, Forward(t) PROVE HearInv'
<1>0. PICK n \in Nat : n = Len(log)
  BY Lengths DEF HearInv
<1>1. /\ UNCHANGED <<cl, taken, backlog, file, fed, joined, open_sockets, clientsock, acceptor, clean>>
      /\ th[t].pc = "forward" /\ lock = NoThread /\ lock' = t
      /\ log' = Append(log, th[t].msg)
      /\ th' = [th EXCEPT ![t].pc = "send", ![t].i = 1]
  BY DEF Forward, clientVars, kernelVars
<1>2. th \in [Threads -> Thread] /\ th[t].msg \in Message
  BY DEF ServerInv, ServerTypeOK, Thread, Message
<1>3. /\ th'[t].pc = "send" /\ th'[t].i = 1 /\ th'[t].msg = th[t].msg
      /\ th'[t].conn = th[t].conn /\ th'[t].sock = th[t].sock
      /\ \A u \in Threads \ {t} : th'[u] = th[u]
  BY <1>1, <1>2 DEF Thread
<1>4. log \in Seq(Message)
  BY DEF HearInv, HearTypeOK
<1>5. /\ log' \in Seq(Message) /\ Len(log') = n + 1 /\ log' # <<>> /\ log'[Len(log')] = th[t].msg
  BY <1>0, <1>1, <1>2, <1>4, AppendProperties
<1>6. HearTypeOK' /\ ConnectionsApart'
  BY <1>1, <1>5 DEF HearInv, HearTypeOK, ConnectionsApart
<1>7. t # NoThread
  BY DEF Threads, NoThread
<1>8. \A u \in Threads : th[u].pc # "send"
  BY <1>1 DEF HearInv, LockIsHeld, Threads, NoThread
<1>9. LockIsHeld'
  <2>1. lock' = t
    BY <1>1
  <2>2. \A u \in Threads : th'[u].pc = "send" => u = t
    BY <1>3, <1>8
  <2> QED
    BY <1>3, <1>5, <2>1, <2>2 DEF LockIsHeld
<1>10. ASSUME clean, acceptor # "ended" PROVE ThreadsOwn' /\ NotYetFed' /\ EntriesHear'
  <2>1. ThreadsOwn /\ NotYetFed /\ EntriesHear
    BY <1>10 DEF HearInv, ThreadsHear
  <2>2. ThreadsOwn'
    <3>1. file' = file /\ th[t].pc = "forward"
      BY <1>1
    <3> QED
      BY <1>3, <2>1, <3>1 DEF ThreadsOwn
  <2>3. NotYetFed'
    BY <1>1, <2>1 DEF NotYetFed, Joining, Waits, FileOf
  <2>4. open_sockets \in Seq(Fds) /\ \A i \in DOMAIN open_sockets : i \in Nat /\ 1 <= i
    BY LenProperties DEF ServerInv, ServerTypeOK
  <2>5. \A i \in DOMAIN open_sockets : ~Ahead(i) /\ Ahead(i)'
    BY <1>1, <1>3, <1>7, <2>4 DEF Ahead
  <2>6. ASSUME NEW i \in DOMAIN open_sockets, NEW d, d = file[open_sockets[i]], Alive(d)
        PROVE  HearsTo(d, n)'
    <3>1. d \in Clients
      BY <1>10, <2>6, Entries
    <3>2. joined[d] \in Nat
      BY <3>1, Lengths DEF HearInv
    <3>3. HearsTo(d, n)
      BY <1>0, <2>1, <2>5, <2>6 DEF EntriesHear
    <3>4. fed'[d] = fed[d] /\ joined'[d] = joined[d]
      BY <1>1
    <3> QED
      BY <1>0, <1>1, <1>2, <1>4, <3>2, <3>3, <3>4, LogGrows
  <2>7. Len(log)' - 1 = n
    BY <1>0, <1>5
  <2>8. EntriesHear'
    <3> SUFFICES ASSUME NEW i \in DOMAIN open_sockets, Alive(file[open_sockets[i]])'
                 PROVE  HearsTo(file[open_sockets[i]], Len(log) - 1)'
      BY <1>1, <2>5 DEF EntriesHear
    <3>1. PICK d : d = file[open_sockets[i]]
      OBVIOUS
    <3>2. Alive(d) /\ file'[open_sockets'[i]] = d
      BY <1>1, <3>1 DEF Alive
    <3>3. HearsTo(d, n)'
      BY <2>6, <3>1, <3>2
    <3> QED
      BY <2>7, <3>2, <3>3
  <2> QED
    BY <2>2, <2>3, <2>8
<1> QED
  BY <1>1, <1>6, <1>9, <1>10 DEF HearInv, ThreadsHear

\* One turn of the loop: the member at place i has heard the message, or it said it.
LEMMA SendHears ==
    ASSUME ServerInv, HearInv, NEW t \in Threads, Send(t) PROVE HearInv'
<1>0. PICK i : i = th[t].i
  OBVIOUS
<1>a. PICK m : m = th[t].msg
  OBVIOUS
<1>b. PICK s : s = open_sockets[i]
  OBVIOUS
<1>1. /\ UNCHANGED <<cl, taken, backlog, file, log, joined, open_sockets, lock, clientsock, acceptor, clean>>
      /\ th[t].pc = "send" /\ i <= Len(open_sockets)
      /\ IF s = th[t].sock THEN fed' = fed ELSE SendText(FileOf(s), m)
      /\ th' = [th EXCEPT ![t].i = i + 1]
  BY <1>0, <1>a, <1>b DEF Send, kernelVars
<1>2. th \in [Threads -> Thread] /\ m \in Message /\ i \in Nat /\ open_sockets \in Seq(Fds)
  BY <1>0, <1>a DEF ServerInv, ServerTypeOK, Thread, Message
<1>3. /\ th'[t].pc = "send" /\ th'[t].i = i + 1 /\ th'[t].msg = m
      /\ th'[t].conn = th[t].conn /\ th'[t].sock = th[t].sock
      /\ \A u \in Threads \ {t} : th'[u] = th[u]
  BY <1>1, <1>2, <1>a DEF Thread
<1>4. lock = t /\ i > 0 /\ log # <<>> /\ log[Len(log)] = m /\ t # NoThread
  BY <1>0, <1>1, <1>a DEF HearInv, LockIsHeld, Threads, NoThread
<1>5. i \in DOMAIN open_sockets /\ DOMAIN open_sockets \subseteq Nat /\ s \in Fds
  <2>1. DOMAIN open_sockets = 1..Len(open_sockets) /\ Len(open_sockets) \in Nat
    BY <1>2, LenProperties
  <2>2. i \in 1..Len(open_sockets)
    BY <1>1, <1>2, <1>4, <2>1
  <2> QED
    BY <1>2, <1>b, <2>1, <2>2
<1>c. PICK c : c = file[s]
  OBVIOUS
<1>6. FileOf(s) = c
  BY <1>5, <1>c DEF FileOf
<1>7. fed \in [Clients -> Seq(Message)] /\ log \in Seq(Message) /\ c \in Peer
  BY <1>5, <1>c DEF HearInv, HearTypeOK
<1>8. \/ fed' = fed /\ (s = th[t].sock \/ c = NoClient \/ ~Alive(c))
      \/ c \in Clients /\ s # th[t].sock /\ fed' = [fed EXCEPT ![c] = Append(fed[c], m)]
  BY <1>1, <1>6, <1>7 DEF SendText, Peer
<1>9. fed' \in [Clients -> Seq(Message)] /\ \A d \in Clients : d # c => fed'[d] = fed[d]
  <2>1. CASE fed' = fed
    BY <1>7, <2>1
  <2>2. CASE c \in Clients /\ fed' = [fed EXCEPT ![c] = Append(fed[c], m)]
    <3>1. Append(fed[c], m) \in Seq(Message)
      BY <1>2, <1>7, <2>2, AppendProperties
    <3> QED
      BY <1>7, <2>2, <3>1
  <2> QED
    BY <1>8, <2>1, <2>2
<1>10. HearTypeOK' /\ ConnectionsApart'
  BY <1>1, <1>9 DEF HearInv, HearTypeOK, ConnectionsApart
<1>11. LockIsHeld'
  BY <1>1, <1>2, <1>3, <1>4 DEF HearInv, LockIsHeld
<1>12. ASSUME clean, acceptor # "ended" PROVE ThreadsOwn' /\ NotYetFed' /\ EntriesHear'
  <2>1. ThreadsOwn /\ NotYetFed /\ EntriesHear
    BY <1>12 DEF HearInv, ThreadsHear
  <2>2. UsersApart /\ Owned(s) /\ c # NoClient /\ c \in Clients
    BY <1>5, <1>12, <1>b, <1>c, Entries
  <2>3. ThreadsOwn'
    BY <1>1, <1>3, <1>a, <2>1 DEF ThreadsOwn
  <2>4. ~Joining(c)
    <3>1. ~Waits(c)
      BY <1>5, <1>c, <2>2 DEF HearInv, ConnectionsApart, Waits
    <3>2. ASSUME acceptor = "add", FileOf(clientsock) = c PROVE FALSE
      <4>1. clientsock \in Fds /\ file[clientsock] = c
        BY <3>2 DEF ServerInv, ServerTypeOK, Holds, FileOf
      <4>2. clientsock = s
        BY <1>5, <1>c, <2>2, <4>1 DEF HearInv, ConnectionsApart
      <4> QED
        BY <2>2, <3>2, <4>2 DEF Owned, UsersApart, Holds, Using
    <3> QED
      BY <3>1, <3>2 DEF Joining
  <2>5. \A d \in Clients : Joining(d)' => Joining(d)
    BY <1>1 DEF Joining, Waits, FileOf
  <2>6. NotYetFed'
    BY <1>9, <2>1, <2>4, <2>5 DEF NotYetFed
  <2>7. PICK n \in Nat : Len(log) = n + 1
    <3>1. Len(log) \in Nat /\ Len(log) # 0
      BY <1>4, <1>7, EmptySeq, LenProperties
    <3>2. Len(log) - 1 \in Nat /\ Len(log) = (Len(log) - 1) + 1
      BY <3>1
    <3> QED
      BY <3>2
  <2>8. ASSUME Alive(c) PROVE HearsTo(c, n + 1)'
    <3>1. Ahead(i)
      BY <1>0, <1>2, <1>4 DEF Ahead
    <3>2. HearsTo(c, n)
      <4>1. HearsTo(c, Len(log) - 1)
        BY <1>5, <1>b, <1>c, <2>1, <2>8, <3>1 DEF EntriesHear
      <4>2. Len(log) - 1 = n
        BY <2>7
      <4> QED
        BY <4>1, <4>2
    <3>3. joined[c] \in Nat /\ joined'[c] = joined[c] /\ log' = log /\ m = log[n + 1]
      BY <1>1, <1>4, <2>2, <2>7, Lengths DEF HearInv
    <3>4. m[1] = file[th[t].sock]
      BY <1>1, <1>a, <2>1 DEF ThreadsOwn
    <3>5. CASE s = th[t].sock
      <4>1. fed'[c] = fed[c] /\ log[n + 1][1] = c
        BY <1>1, <1>c, <3>3, <3>4, <3>5
      <4> QED
        BY <3>2, <3>3, <4>1, OwnMessage
    <3>6. CASE s # th[t].sock
      <4>1. th[t].sock \in Fds
        BY <1>1, <2>2 DEF UsersApart, Using
      <4>2. m[1] # c
        BY <1>5, <1>c, <2>2, <3>4, <3>6, <4>1 DEF HearInv, ConnectionsApart
      <4>3. fed'[c] = Append(fed[c], m) /\ fed[c] \in Seq(Message)
        BY <1>7, <1>8, <2>2, <2>8, <3>6
      <4> QED
        BY <1>2, <3>2, <3>3, <4>2, <4>3, NextMessage
    <3> QED
      BY <3>5, <3>6
  <2>9. ASSUME NEW j \in DOMAIN open_sockets, NEW d, d = file[open_sockets[j]], Alive(d), j # i
        PROVE  HearsTo(d, IF Ahead(j) THEN n ELSE n + 1)'
    <3>1. d \in Clients /\ d # c
      <4>1. /\ open_sockets[j] \in Fds /\ d \in Clients /\ d # NoClient
            /\ open_sockets[j] = open_sockets[i] => j = i
        BY <1>5, <1>12, <2>9, Entries
      <4> QED
        BY <1>5, <1>b, <1>c, <2>9, <4>1 DEF HearInv, ConnectionsApart
    <3>2. fed'[d] = fed[d] /\ joined'[d] = joined[d] /\ log' = log
      BY <1>1, <1>9, <3>1
    <3>3. Len(log) - 1 = n
      BY <2>7
    <3>4. HearsTo(d, IF Ahead(j) THEN n ELSE n + 1)
      BY <2>1, <2>7, <2>9, <3>3 DEF EntriesHear
    <3>5. Ahead(j)' <=> Ahead(j)
      <4>1. j \in Nat
        BY <1>5
      <4>2. i + 1 <= j <=> i <= j
        BY <1>2, <2>9, <4>1
      <4> QED
        BY <1>0, <1>1, <1>3, <1>4, <4>2 DEF Ahead
    <3> QED
      BY <3>2, <3>4, <3>5, HearsStill
  <2>10. ~Ahead(i)'
    BY <1>1, <1>2, <1>3, <1>4 DEF Ahead
  <2>11. EntriesHear'
    <3>0. Len(log)' = n + 1 /\ Len(log)' - 1 = n
      BY <1>1, <2>7
    <3> SUFFICES ASSUME NEW j \in DOMAIN open_sockets, Alive(file[open_sockets[j]])'
                 PROVE  HearsTo(file[open_sockets[j]], IF Ahead(j) THEN n ELSE n + 1)'
      BY <1>1, <3>0 DEF EntriesHear
    <3>1. PICK d : d = file[open_sockets[j]]
      OBVIOUS
    <3>2. Alive(d) /\ file'[open_sockets'[j]] = d
      BY <1>1, <3>1 DEF Alive
    <3>3. CASE j = i
      BY <1>b, <1>c, <2>8, <2>10, <3>1, <3>2, <3>3
    <3>4. CASE j # i
      BY <2>9, <3>1, <3>2, <3>4
    <3> QED
      BY <3>3, <3>4
  <2> QED
    BY <2>3, <2>6, <2>11
<1> QED
  BY <1>1, <1>10, <1>11, <1>12 DEF HearInv, ThreadsHear

LEMMA SentHears ==
    ASSUME ServerInv, HearInv, NEW t \in Threads, Sent(t) PROVE HearInv'
<1>1. /\ UNCHANGED <<cl, taken, backlog, file, log, fed, joined, open_sockets, clientsock, acceptor, clean>>
      /\ th[t].pc = "send" /\ th[t].i > Len(open_sockets) /\ lock' = NoThread
  BY DEF Sent, confVars, clientVars, kernelVars, historyVars
<1>2. /\ th \in [Threads -> Thread] /\ th[t].i \in Nat
      /\ \A j \in DOMAIN open_sockets : j \in Nat /\ j <= Len(open_sockets) /\ Len(open_sockets) \in Nat
  BY LenProperties DEF ServerInv, ServerTypeOK, Thread
<1>3. th'[t].pc = "call" /\ \A u \in Threads \ {t} : th'[u] = th[u]
  BY <1>2 DEF Sent, Thread
<1>4. lock = t /\ \A u \in Threads \ {t} : th[u].pc # "send"
  BY <1>1 DEF HearInv, LockIsHeld
<1>5. LockIsHeld'
  BY <1>1, <1>3, <1>4 DEF LockIsHeld
<1>6. HearTypeOK' /\ ConnectionsApart'
  BY <1>1 DEF HearInv, HearTypeOK, ConnectionsApart
<1>7. ASSUME clean, acceptor # "ended" PROVE ThreadsOwn' /\ NotYetFed' /\ EntriesHear'
  <2>1. ThreadsOwn /\ NotYetFed /\ EntriesHear
    BY <1>7 DEF HearInv, ThreadsHear
  <2>2. ThreadsOwn' /\ NotYetFed'
    BY <1>1, <1>3, <2>1 DEF ThreadsOwn, NotYetFed, Joining, Waits, FileOf
  <2>3. \A j \in DOMAIN open_sockets : ~Ahead(j) /\ ~Ahead(j)'
    BY <1>1, <1>2, <1>4 DEF Ahead
  <2>4. EntriesHear'
    BY <1>1, <2>1, <2>3, HearsStill DEF EntriesHear, Alive
  <2> QED
    BY <2>2, <2>4
<1> QED
  BY <1>1, <1>5, <1>6, <1>7 DEF HearInv, ThreadsHear

\* What is left of the table was in it before.
LEMMA DropSocketHears ==
    ASSUME ServerInv, ServerInv', HearInv, NEW t \in Threads, DropSocket(t) PROVE HearInv'
<1>1. /\ UNCHANGED <<cl, taken, backlog, file, log, fed, joined, lock, clientsock, acceptor, clean>>
      /\ th[t].pc = "remove" /\ lock = NoThread
  BY DEF DropSocket, RemoveSocket, confVars, clientVars, kernelVars, historyVars
<1>2. th \in [Threads -> Thread]
  BY DEF ServerInv, ServerTypeOK
<1>3. th'[t].pc = "close" /\ th'[t].sock = th[t].sock /\ \A u \in Threads \ {t} : th'[u] = th[u]
  BY <1>2 DEF DropSocket, Goto, Thread
<1>4. HearTypeOK' /\ ConnectionsApart' /\ LockIsHeld'
  BY <1>1, <1>3 DEF HearInv, HearTypeOK, ConnectionsApart, LockIsHeld
<1>5. ASSUME clean, acceptor # "ended" PROVE ThreadsOwn' /\ NotYetFed' /\ EntriesHear'
  <2>1. ThreadsOwn /\ NotYetFed /\ EntriesHear
    BY <1>5 DEF HearInv, ThreadsHear
  <2>2. ThreadsOwn' /\ NotYetFed'
    BY <1>1, <1>3, <2>1 DEF ThreadsOwn, NotYetFed, Joining, Waits, FileOf
  <2>3. \A j : ~Ahead(j) /\ ~Ahead(j)'
    BY <1>1 DEF Ahead
  <2>4. ASSUME NEW j \in DOMAIN open_sockets', NEW d, d = file[open_sockets'[j]], Alive(d)
        PROVE  HearsTo(d, Len(log))'
    <3>1. acceptor # "start" /\ ServerUp /\ ServerUp' /\ clean'
      BY <1>1, <1>3, <1>5 DEF ServerInv, NothingYet, ServerUp
    <3>2. TableIsLive /\ TableIsLive'
      BY DEF ServerInv
    <3>3. \A fd : fd \in {open_sockets'[i] : i \in DOMAIN open_sockets'} => fd \in Fds /\ Owned(fd)'
      BY <3>1, <3>2 DEF TableIsLive, Fds
    <3>4. \A fd : Owned(fd)' => Owned(fd)
      BY <1>1, <1>3 DEF Owned
    <3>5. open_sockets'[j] \in Fds /\ Owned(open_sockets'[j])
      BY <3>3, <3>4
    <3>6. \A fd \in Fds : Owned(fd) => \E i \in DOMAIN open_sockets : open_sockets[i] = fd
      <4>1. {open_sockets[i] : i \in DOMAIN open_sockets} = {fd \in Fds : Owned(fd)}
        BY <1>5, <3>1, <3>2 DEF TableIsLive
      <4> QED
        BY <4>1
    <3>7. PICK i \in DOMAIN open_sockets : open_sockets[i] = open_sockets'[j]
      BY <3>5, <3>6
    <3>8. HearsTo(d, Len(log))
      BY <2>1, <2>3, <2>4, <3>7 DEF EntriesHear
    <3> QED
      BY <1>1, <3>8, HearsStill
  <2>5. EntriesHear'
    <3> SUFFICES ASSUME NEW j \in DOMAIN open_sockets', Alive(file[open_sockets[j]])'
                 PROVE  HearsTo(file[open_sockets[j]], Len(log))'
      BY <2>3 DEF EntriesHear
    <3>1. PICK d : d = file[open_sockets'[j]]
      OBVIOUS
    <3>2. Alive(d) /\ file'[open_sockets'[j]] = d
      BY <1>1, <3>1 DEF Alive
    <3> QED
      BY <2>4, <3>1, <3>2
  <2> QED
    BY <2>2, <2>5
<1> QED
  BY <1>1, <1>4, <1>5 DEF HearInv, ThreadsHear

\* A thread closes a descriptor that is no entry of the table any more.
LEMMA CloseHears ==
    ASSUME ServerInv, ServerInv', HearInv, NEW t \in Threads, Close(t) PROVE HearInv'
<1>1. /\ UNCHANGED <<cl, taken, backlog, log, fed, joined, open_sockets, lock, clientsock, acceptor, clean>>
      /\ th[t].pc = "close"
      /\ file' = [fd \in Fds |-> IF fd = th[t].sock THEN NoClient ELSE file[fd]]
  BY DEF Close, clientVars, historyVars
<1>2. th \in [Threads -> Thread]
  BY DEF ServerInv, ServerTypeOK
<1>3. th'[t].pc = "done" /\ \A u \in Threads \ {t} : th'[u] = th[u]
  BY <1>2 DEF Close, FreshThread
<1>4. \A fd \in Fds : file'[fd] = NoClient \/ (file'[fd] = file[fd])
  BY <1>1
<1>5. HearTypeOK' /\ ConnectionsApart'
  <2>1. HearTypeOK /\ ConnectionsApart /\ NoClient \in Peer
    BY DEF HearInv, Peer
  <2>2. HearTypeOK'
    BY <1>1, <2>1 DEF HearTypeOK
  <2>3. \A i \in DOMAIN backlog : backlog[i] # NoClient
    BY <2>1, RoomAssumption DEF HearTypeOK
  <2>4. ConnectionsApart'
    BY <1>1, <1>4, <2>1, <2>3 DEF ConnectionsApart, Fds
  <2> QED
    BY <2>2, <2>4
<1>6. LockIsHeld'
  BY <1>1, <1>3 DEF HearInv, LockIsHeld
<1>7. ASSUME clean, acceptor # "ended" PROVE ThreadsOwn' /\ NotYetFed' /\ EntriesHear'
  <2>1. ThreadsOwn /\ NotYetFed /\ EntriesHear
    BY <1>7 DEF HearInv, ThreadsHear
  <2>2. UsersApart /\ ServerUp'
    BY <1>1, <1>3, <1>7 DEF ServerInv, ServerUp, NothingYet
  <2>3. ThreadsOwn'
    <3>1. \A u \in Threads \ {t} : th[u].pc \in {"recv", "forward", "send"} => file'[th[u].sock] = file[th[u].sock]
      BY <1>1, <2>2 DEF UsersApart, Using
    <3> QED
      BY <1>3, <2>1, <3>1 DEF ThreadsOwn
  <2>4. NotYetFed'
    <3>1. \A c \in Clients : FileOf(clientsock)' = c => FileOf(clientsock) = c
      BY <1>1, RoomAssumption DEF FileOf, Fds
    <3>2. \A c \in Clients : Joining(c)' => Joining(c)
      BY <1>1, <3>1 DEF Joining, Waits
    <3> QED
      BY <1>1, <2>1, <3>2 DEF NotYetFed
  <2>5. \A j \in DOMAIN open_sockets : file'[open_sockets[j]] = file[open_sockets[j]]
    <3>1. TableIsLive'
      BY DEF ServerInv
    <3>2. \A fd : fd \in {open_sockets'[i] : i \in DOMAIN open_sockets'} => fd \in Fds /\ file'[fd] # NoClient
      BY <1>1, <1>7, <2>2, <3>1 DEF TableIsLive, Fds
    <3>3. \A j \in DOMAIN open_sockets : open_sockets[j] \in Fds /\ file'[open_sockets[j]] # NoClient
      BY <1>1, <3>2
    <3> QED
      BY <1>4, <3>3
  <2>6. \A j \in DOMAIN open_sockets : Ahead(j)' <=> Ahead(j)
    BY <1>1, <1>3 DEF Ahead, HearInv, LockIsHeld
  <2>7. EntriesHear'
    BY <1>1, <2>1, <2>5, <2>6, HearsStill DEF EntriesHear, Alive
  <2> QED
    BY <2>3, <2>4, <2>7
<1> QED
  BY <1>1, <1>5, <1>6, <1>7 DEF HearInv, ThreadsHear

LEMMA StepHears == ServerInv /\ HearInv /\ [ServerNext]_<<confVars, serverVars>> => HearInv'
<1> SUFFICES ASSUME ServerInv, HearInv, [ServerNext]_<<confVars, serverVars>> PROVE HearInv'
  OBVIOUS
<1>1. ServerInv'
  BY StepServer
<1>2. ASSUME NEW t \in Threads, Worker(t) PROVE HearInv'
  BY <1>1, <1>2, StartHears, CallHears, RecvHears, ForwardHears, SendHears, SentHears, DropSocketHears,
     CloseHears DEF Worker
<1>3. CASE Acceptor
  BY <1>3, AcceptHears, AcceptorElseHears, AddHears, EndHears, CreateHears DEF Acceptor
<1>4. CASE UNCHANGED <<confVars, serverVars>>
  <2>1. UNCHANGED <<cl, taken, backlog, file, log, fed, joined, open_sockets, lock, th, clientsock, acceptor, clean>>
    BY <1>4 DEF confVars, clientVars, kernelVars, historyVars, serverVars
  <2>2. HearTypeOK' /\ ConnectionsApart' /\ LockIsHeld'
    BY <2>1 DEF HearInv, HearTypeOK, ConnectionsApart, LockIsHeld
  <2>3. ASSUME ThreadsOwn, NotYetFed, EntriesHear PROVE ThreadsOwn' /\ NotYetFed' /\ EntriesHear'
    <3>1. ThreadsOwn' /\ NotYetFed'
      BY <2>1, <2>3 DEF ThreadsOwn, NotYetFed, Joining, Waits, FileOf
    <3>2. \A i : Ahead(i)' <=> Ahead(i)
      BY <2>1 DEF Ahead
    <3>3. EntriesHear'
      BY <2>1, <2>3, <3>2, HearsStill DEF EntriesHear, Alive
    <3> QED
      BY <3>1, <3>3
  <2> QED
    BY <2>1, <2>2, <2>3 DEF HearInv, ThreadsHear
<1> QED
  BY <1>2, <1>3, <1>4, ClientHears, AcceptorElseHears DEF ServerNext

LEMMA ThreadsInform == ServerInv /\ HearInv => MemberHears
<1> SUFFICES ASSUME ServerInv, HearInv, clean, ServerUp, NEW i \in DOMAIN open_sockets,
                    Alive(FileOf(open_sockets[i]))
             PROVE  HasHeard(FileOf(open_sockets[i]),
                             IF lock # NoThread /\ th[lock].i <= i THEN Len(log) - 1 ELSE Len(log))
  BY DEF MemberHears
<1>1. acceptor # "ended"
  BY DEF ServerUp
<1>2. FileOf(open_sockets[i]) = file[open_sockets[i]]
  BY <1>1, Entries DEF FileOf
<1>3. EntriesHear
  BY <1>1 DEF HearInv, ThreadsHear
<1> QED
  BY <1>2, <1>3 DEF EntriesHear, HearsTo, Ahead

-----------------------------------------------------------------------------
\* The server with select: masterset is the set of the open connections, and
\* those that have still to get the last message of the log are the targets.

MastersAreOpen == /\ masterset = {fd \in Fds : file[fd] # NoClient}
                  /\ livesdmax \in Nat /\ \A fd \in masterset : fd <= livesdmax
                  /\ livesdset \subseteq masterset \cup {servsock}

TargetsAreLeft == IF at = "send"
                  THEN /\ targets \subseteq masterset /\ frsock \in masterset \ targets
                       /\ log # <<>> /\ log[Len(log)][1] = file[frsock]
                  ELSE targets = {}

WaitersUnfed == \A c \in Clients : Waits(c) => fed[c] = <<>>

MastersHear == \A fd \in masterset :
    Alive(file[fd]) => HearsTo(file[fd], IF fd \in targets THEN Len(log) - 1 ELSE Len(log))

SelectInv == /\ HearTypeOK /\ ConnectionsApart
             /\ at # "ended" => MastersAreOpen /\ TargetsAreLeft /\ WaitersUnfed /\ MastersHear

LEMMA LargerOfTwo == ASSUME NEW a \in Nat, NEW b \in Nat
                     PROVE  Max({a, b}) \in Nat /\ a <= Max({a, b}) /\ b <= Max({a, b})
<1>1. \E x \in {a, b} : \A y \in {a, b} : x >= y
  <2>1. CASE a >= b
    BY <2>1
  <2>2. CASE ~(a >= b)
    BY <2>2
  <2> QED
    BY <2>1, <2>2
<1>2. Max({a, b}) \in {a, b} /\ \A y \in {a, b} : Max({a, b}) >= y
  BY <1>1 DEF Max
<1> QED
  BY <1>2

\* What a client says itself is not owed to it.
LEMMA OwnAdded ==
    ASSUME log \in Seq(Message), NEW c, joined[c] \in Nat, NEW m \in Message, log' = Append(log, m),
           m[1] = c, NEW n, n = Len(log), HearsTo(c, n), fed'[c] = fed[c], joined'[c] = joined[c]
    PROVE  HearsTo(c, n + 1)'
<1>1. HearsTo(c, n)'
  BY LogGrows
<1>2. n \in Nat /\ log'[n + 1] = m
  BY AppendProperties, LenProperties
<1>3. Owed(c, n + 1)' = Owed(c, n)'
  <2>1. \A k : k \in (joined'[c] + 1)..(n + 1) => k = n + 1 \/ k \in (joined'[c] + 1)..n
    BY <1>2
  <2>2. \A k \in (joined'[c] + 1)..n : k \in (joined'[c] + 1)..(n + 1)
    BY <1>2
  <2> QED
    BY <1>2, <2>1, <2>2 DEF Owed
<1>4. joined'[c] <= n + 1
  BY <1>1, <1>2 DEF HearsTo
<1> QED
  BY <1>1, <1>3, <1>4 DEF HearsTo, HasHeard

LEMMA InitSelect == SelectInit => SelectInv
<1> SUFFICES ASSUME SelectInit PROVE SelectInv
  OBVIOUS
<1>1. HearTypeOK
  BY DEF SelectInit, ConfInit, HearTypeOK, Peer
<1>2. ConnectionsApart
  BY DEF SelectInit, ConfInit, ConnectionsApart
<1>3. MastersAreOpen /\ TargetsAreLeft /\ WaitersUnfed /\ MastersHear
  BY DEF SelectInit, ConfInit, MastersAreOpen, TargetsAreLeft, WaitersUnfed, MastersHear, servsock
<1> QED
  BY <1>1, <1>2, <1>3 DEF SelectInv

\* The steps that change nothing but the place of the server and what it has
\* found ready.
LEMMA SelectElse ==
    ASSUME SelectInv, UNCHANGED <<taken, cl, backlog, file, log, fed, joined, masterset, livesdmax, frsock, targets>>,
           at # "ended" => livesdset' \subseteq masterset \cup {servsock},
           at # "ended" \/ at' = at, at' = at \/ (at' # "send" /\ targets = {})
    PROVE  SelectInv'
<1>1. HearTypeOK' /\ ConnectionsApart'
  BY DEF SelectInv, HearTypeOK, ConnectionsApart
<1>2. ASSUME at' # "ended" PROVE MastersAreOpen' /\ TargetsAreLeft' /\ WaitersUnfed' /\ MastersHear'
  <2>1. MastersAreOpen /\ TargetsAreLeft /\ WaitersUnfed /\ MastersHear
    BY <1>2 DEF SelectInv
  <2>a. livesdset' \subseteq masterset' \cup {servsock}
    BY <1>2
  <2>2. MastersAreOpen' /\ WaitersUnfed'
    BY <2>1, <2>a DEF MastersAreOpen, WaitersUnfed, Waits, Fds
  <2>3. TargetsAreLeft'
    BY <2>1 DEF TargetsAreLeft
  <2>4. MastersHear'
    BY <2>1, HearsStill DEF MastersHear, Alive
  <2> QED
    BY <2>2, <2>3, <2>4
<1> QED
  BY <1>1, <1>2 DEF SelectInv

LEMMA ServeElse ==
    ASSUME SelectInv, StartListening \/ Select \/ SendDone \/ ScanDone \/ UNCHANGED <<confVars, selectVars>>
    PROVE  SelectInv'
<1>1. UNCHANGED <<taken, cl, backlog, file, log, fed, joined, masterset, livesdmax, frsock, targets>>
  BY DEF StartListening, Select, SendDone, ScanDone, confVars, clientVars, kernelVars, historyVars, selectVars
<1>2. at # "ended" \/ at' = at
  BY DEF StartListening, Select, SendDone, ScanDone, selectVars
<1>3. at' = at \/ (at' # "send" /\ targets = {})
  BY DEF StartListening, Select, SendDone, ScanDone, selectVars, SelectInv, TargetsAreLeft
<1>4. at # "ended" => livesdset' \subseteq masterset \cup {servsock}
  <2>1. at # "ended" => livesdset \subseteq masterset \cup {servsock}
    BY DEF SelectInv, MastersAreOpen
  <2>2. CASE Select
    <3>1. at # "ended"
      BY <2>2 DEF Select
    <3> QED
      BY <2>2, <3>1 DEF Select, SelectInv, MastersAreOpen
  <2>3. CASE ~Select
    <3>1. livesdset' \subseteq livesdset
      BY <2>3 DEF StartListening, SendDone, ScanDone, selectVars
    <3> QED
      BY <2>1, <3>1
  <2> QED
    BY <2>2, <2>3
<1> QED
  BY <1>1, <1>2, <1>3, <1>4, SelectElse

LEMMA ServeEnds ==
    ASSUME SelectInv, Ended PROVE SelectInv'
BY DEF Ended, SelectInv, HearTypeOK, ConnectionsApart, clientVars, historyVars, Peer

LEMMA SelectClientHears ==
    ASSUME SelectInv, NEW c \in Clients, SelectClient(c) PROVE SelectInv'
<1>1. UNCHANGED selectVars
  BY DEF SelectClient
<1>2. ClientStep(c)
  BY ClientSteps DEF SelectClient, SelectInv
<1>3. HearTypeOK' /\ ConnectionsApart' /\ (\A d \in Clients : Waits(d)' => Waits(d))
      /\ \A fd \in Fds : file[fd] # NoClient /\ Alive(file[fd])' => Alive(file[fd])
  BY <1>2, ClientsApart DEF SelectInv
<1>4. UNCHANGED <<file, log, fed, joined>>
  BY <1>2 DEF ClientStep, historyVars
<1>5. ASSUME at # "ended" PROVE MastersAreOpen' /\ TargetsAreLeft' /\ WaitersUnfed' /\ MastersHear'
  <2>1. MastersAreOpen /\ TargetsAreLeft /\ WaitersUnfed /\ MastersHear
    BY <1>5 DEF SelectInv
  <2>2. MastersAreOpen' /\ TargetsAreLeft'
    BY <1>1, <1>4, <2>1 DEF MastersAreOpen, TargetsAreLeft, selectVars, Fds
  <2>3. WaitersUnfed'
    BY <1>3, <1>4, <2>1 DEF WaitersUnfed
  <2>4. ASSUME NEW fd \in masterset, Alive(file[fd])'
        PROVE  HearsTo(file[fd], IF fd \in targets THEN Len(log) - 1 ELSE Len(log))'
    <3>1. fd \in Fds /\ file[fd] # NoClient
      BY <2>1 DEF MastersAreOpen
    <3>2. Alive(file[fd])
      BY <1>3, <1>4, <2>4, <3>1
    <3>3. HearsTo(file[fd], IF fd \in targets THEN Len(log) - 1 ELSE Len(log))
      BY <2>1, <3>2 DEF MastersHear
    <3> QED
      BY <1>1, <1>4, <3>3, HearsStill DEF selectVars
  <2>5. MastersHear'
    BY <1>1, <1>4, <2>4 DEF MastersHear, selectVars
  <2> QED
    BY <2>2, <2>3, <2>5
<1> QED
  BY <1>1, <1>3, <1>5 DEF SelectInv, selectVars

LEMMA ReadyIsMaster ==
    ASSUME MastersAreOpen, HearTypeOK, Ready # {}
    PROVE  /\ Min(Ready) \in masterset /\ Min(Ready) \in Fds
           /\ file[Min(Ready)] # NoClient /\ file[Min(Ready)] \in Clients
<1>1. Ready \subseteq masterset /\ masterset \subseteq Fds
  BY DEF MastersAreOpen, Ready
<1>2. Ready \in SUBSET Nat
  BY <1>1, NumbersOnly
<1>3. Min(Ready) \in masterset
  BY <1>1, <1>2, LeastIsMember
<1> QED
  BY <1>1, <1>3 DEF MastersAreOpen, HearTypeOK, Peer

\* The message is owed to all the others.
LEMMA ReceiveHears ==
    ASSUME SelectInv, Receive PROVE SelectInv'
<1>0. PICK fd : fd = Min(Ready)
  OBVIOUS
<1>a. PICK c : c = file[fd]
  OBVIOUS
<1>b. PICK m : m = <<c, taken'[c]>>
  OBVIOUS
<1>c. PICK n \in Nat : n = Len(log)
  BY Lengths DEF SelectInv
<1>1. /\ UNCHANGED <<cl, backlog, file, fed, joined, masterset, livesdset, livesdmax>>
      /\ at = "scan" /\ at' = "send" /\ Ready # {}
      /\ taken' = [taken EXCEPT ![c] = taken[c] + 1]
      /\ frsock' = fd /\ targets' = {s \in masterset : s <= livesdmax} \ {fd}
      /\ log' = Append(log, m)
  BY <1>0, <1>a, <1>b DEF Receive, RecvText, kernelVars
<1>2. /\ HearTypeOK /\ ConnectionsApart
      /\ MastersAreOpen /\ TargetsAreLeft /\ WaitersUnfed /\ MastersHear
  BY <1>1 DEF SelectInv
<1>3. fd \in masterset /\ fd \in Fds /\ c # NoClient /\ c \in Clients
  BY <1>0, <1>1, <1>2, <1>a, ReadyIsMaster
<1>4. taken' \in [Clients -> Nat] /\ m \in Message /\ m[1] = c
  <2>1. taken' \in [Clients -> Nat] /\ taken'[c] \in Nat
    BY <1>1, <1>2, <1>3 DEF HearTypeOK
  <2> QED
    BY <1>3, <1>b, <2>1 DEF Message, Peer
<1>5. log \in Seq(Message) /\ log' \in Seq(Message) /\ Len(log') = n + 1 /\ log' # <<>> /\ log'[Len(log')] = m
  BY <1>1, <1>2, <1>4, <1>c, AppendProperties DEF HearTypeOK
<1>d. /\ UNCHANGED <<cl, backlog, file, fed, joined, masterset, livesdset, livesdmax>>
      /\ at' = "send" /\ frsock' = fd /\ targets = {}
  BY <1>1, <1>2 DEF TargetsAreLeft
<1>6. HearTypeOK' /\ ConnectionsApart'
  BY <1>2, <1>4, <1>5, <1>d DEF HearTypeOK, ConnectionsApart
<1>7. targets' = masterset \ {fd}
  BY <1>1, <1>2 DEF MastersAreOpen
<1>8. MastersAreOpen' /\ WaitersUnfed'
  BY <1>2, <1>d DEF MastersAreOpen, WaitersUnfed, Waits, Fds
<1>9. TargetsAreLeft'
  BY <1>3, <1>4, <1>5, <1>7, <1>a, <1>d DEF TargetsAreLeft
<1>10. ASSUME NEW s \in masterset, NEW d, d = file[s], Alive(d)
       PROVE  HearsTo(d, IF s = fd THEN n + 1 ELSE n)'
  <2>1. d \in Clients
    BY <1>2, <1>10 DEF MastersAreOpen, HearTypeOK, Peer
  <2>2. joined[d] \in Nat /\ fed'[d] = fed[d] /\ joined'[d] = joined[d]
    BY <1>2, <1>d, <2>1, Lengths
  <2>3. HearsTo(d, n)
    BY <1>2, <1>10, <1>c, <1>d DEF MastersHear
  <2>4. log' = Append(log, m)
    BY <1>1
  <2>5. CASE s = fd
    <3>1. m[1] = d
      BY <1>4, <1>10, <1>a, <2>5
    <3>2. HearsTo(d, n + 1)'
      BY <1>4, <1>5, <1>c, <2>2, <2>3, <2>4, <3>1, OwnAdded
    <3> QED
      BY <2>5, <3>2
  <2>6. CASE s # fd
    <3>1. HearsTo(d, n)'
      BY <1>4, <1>5, <1>c, <2>2, <2>3, <2>4, LogGrows
    <3> QED
      BY <2>6, <3>1
  <2> QED
    BY <2>5, <2>6
<1>11. MastersHear'
  <2>0. Len(log)' = n + 1 /\ Len(log)' - 1 = n
    BY <1>5
  <2> SUFFICES ASSUME NEW s \in masterset, Alive(file[s])'
               PROVE  HearsTo(file[s], IF s \in targets THEN n ELSE n + 1)'
    BY <1>d, <2>0 DEF MastersHear
  <2>1. PICK d : d = file[s]
    OBVIOUS
  <2>2. Alive(d) /\ file'[s] = d
    BY <1>d, <2>1 DEF Alive
  <2>3. HearsTo(d, IF s = fd THEN n + 1 ELSE n)'
    BY <1>10, <2>1, <2>2
  <2>4. s \in targets' <=> s # fd
    BY <1>7
  <2> QED
    BY <2>2, <2>3, <2>4
<1> QED
  BY <1>6, <1>8, <1>9, <1>11 DEF SelectInv

LEMMA DisconnectHears ==
    ASSUME SelectInv, Disconnect PROVE SelectInv'
<1>0. PICK fd : fd = Min(Ready)
  OBVIOUS
<1>1. /\ UNCHANGED <<taken, cl, backlog, log, fed, joined, livesdmax, at, frsock, targets>>
      /\ at = "scan" /\ Ready # {}
      /\ masterset' = masterset \ {fd} /\ livesdset' = livesdset \ {fd}
      /\ file' = [file EXCEPT ![fd] = NoClient]
  BY <1>0 DEF Disconnect, clientVars, historyVars
<1>2. /\ HearTypeOK /\ ConnectionsApart
      /\ MastersAreOpen /\ TargetsAreLeft /\ WaitersUnfed /\ MastersHear
  BY <1>1 DEF SelectInv
<1>3. fd \in masterset /\ fd \in Fds
  BY <1>0, <1>1, <1>2, ReadyIsMaster
<1>4. file'[fd] = NoClient /\ file' \in [Fds -> Peer] /\ \A s \in Fds \ {fd} : file'[s] = file[s]
  BY <1>1, <1>2, <1>3 DEF HearTypeOK, Peer
<1>5. /\ UNCHANGED <<taken, cl, backlog, log, fed, joined, livesdmax, at, frsock>>
      /\ targets = {} /\ targets' = {} /\ at' = "scan"
      /\ masterset' = masterset \ {fd} /\ livesdset' = livesdset \ {fd}
  BY <1>1, <1>2 DEF TargetsAreLeft
<1>6. HearTypeOK'
  BY <1>2, <1>4, <1>5 DEF HearTypeOK
<1>7. ConnectionsApart'
  <2>1. \A i \in DOMAIN backlog : backlog[i] # NoClient
    BY <1>2, RoomAssumption DEF HearTypeOK
  <2> QED
    BY <1>2, <1>4, <1>5, <2>1 DEF ConnectionsApart, Fds
<1>8. MastersAreOpen'
  <2>1. masterset' = {s \in Fds : file'[s] # NoClient}
    BY <1>2, <1>3, <1>4, <1>5 DEF MastersAreOpen
  <2> QED
    BY <1>2, <1>5, <2>1 DEF MastersAreOpen, Fds
<1>9. TargetsAreLeft' /\ WaitersUnfed'
  BY <1>2, <1>5 DEF TargetsAreLeft, WaitersUnfed, Waits
<1>10. MastersHear'
  <2>1. \A s \in masterset' : s \in masterset /\ file'[s] = file[s]
    BY <1>2, <1>4, <1>5 DEF MastersAreOpen
  <2> QED
    BY <1>2, <1>5, <2>1, HearsStill DEF MastersHear, Alive
<1> QED
  BY <1>6, <1>7, <1>8, <1>9, <1>10 DEF SelectInv

LEMMA SendNextHears ==
    ASSUME SelectInv, SendNext PROVE SelectInv'
<1>0. PICK fd : fd = Min(targets)
  OBVIOUS
<1>a. PICK c : c = file[fd]
  OBVIOUS
<1>b. PICK m : m = log[Len(log)]
  OBVIOUS
<1>1. /\ UNCHANGED <<taken, cl, backlog, file, log, joined, masterset, livesdset, livesdmax, at, frsock>>
      /\ at = "send" /\ targets # {} /\ SendText(c, m) /\ targets' = targets \ {fd}
  BY <1>0, <1>a, <1>b DEF SendNext, kernelVars
<1>2. /\ HearTypeOK /\ ConnectionsApart
      /\ MastersAreOpen /\ TargetsAreLeft /\ WaitersUnfed /\ MastersHear
  BY <1>1 DEF SelectInv
<1>3. targets \subseteq masterset /\ masterset \subseteq Fds /\ frsock \in masterset \ targets
      /\ log # <<>> /\ m[1] = file[frsock]
  BY <1>1, <1>2, <1>b DEF TargetsAreLeft, MastersAreOpen
<1>4. fd \in targets
  <2>1. targets \in SUBSET Nat
    BY <1>3, NumbersOnly
  <2> QED
    BY <1>0, <1>1, <2>1, LeastIsMember
<1>5. fd \in Fds /\ fd \in masterset /\ fd # frsock /\ c # NoClient /\ c \in Clients
  BY <1>2, <1>3, <1>4, <1>a DEF MastersAreOpen, HearTypeOK, Peer
<1>6. m[1] # c
  BY <1>2, <1>3, <1>5, <1>a DEF ConnectionsApart
<1>7. PICK n \in Nat : Len(log) = n + 1 /\ m = log[n + 1] /\ m \in Message
  <2>1. log \in Seq(Message)
    BY <1>2 DEF HearTypeOK
  <2>2. Len(log) \in Nat /\ Len(log) # 0
    BY <1>3, <2>1, EmptySeq, LenProperties
  <2>3. Len(log) - 1 \in Nat /\ Len(log) = (Len(log) - 1) + 1
    BY <2>2
  <2>4. log[Len(log)] \in Message
    BY <2>1, <2>2
  <2> QED
    BY <1>b, <2>3, <2>4
<1>8. fed \in [Clients -> Seq(Message)] /\ \/ ~Alive(c) /\ fed' = fed
                                           \/ Alive(c) /\ fed' = [fed EXCEPT ![c] = Append(fed[c], m)]
  BY <1>1, <1>2, <1>5 DEF SendText, HearTypeOK
<1>9. fed' \in [Clients -> Seq(Message)] /\ \A d \in Clients : d # c => fed'[d] = fed[d]
  <2>1. Append(fed[c], m) \in Seq(Message)
    BY <1>5, <1>7, <1>8, AppendProperties
  <2> QED
    BY <1>5, <1>8, <2>1
<1>10. HearTypeOK' /\ ConnectionsApart'
  BY <1>1, <1>2, <1>9 DEF HearTypeOK, ConnectionsApart
<1>11. MastersAreOpen' /\ TargetsAreLeft'
  BY <1>1, <1>2 DEF MastersAreOpen, TargetsAreLeft, Fds
<1>12. WaitersUnfed'
  <2>1. ~Waits(c)
    BY <1>2, <1>5, <1>a DEF ConnectionsApart, Waits
  <2>2. \A d \in Clients : Waits(d)' <=> Waits(d)
    BY <1>1 DEF Waits
  <2> QED
    BY <1>2, <1>9, <2>1, <2>2 DEF WaitersUnfed
<1>13. ASSUME Alive(c) PROVE HearsTo(c, n + 1)'
  <2>1. HearsTo(c, n)
    <3>1. HearsTo(c, Len(log) - 1)
      BY <1>2, <1>4, <1>5, <1>13, <1>a DEF MastersHear
    <3>2. Len(log) - 1 = n
      BY <1>7
    <3> QED
      BY <3>1, <3>2
  <2>2. joined[c] \in Nat /\ joined'[c] = joined[c] /\ log' = log
    BY <1>1, <1>2, <1>5, Lengths
  <2>3. fed'[c] = Append(fed[c], m) /\ fed[c] \in Seq(Message)
    BY <1>5, <1>8, <1>13
  <2> QED
    BY <1>6, <1>7, <2>1, <2>2, <2>3, NextMessage
<1>14. ASSUME NEW s \in masterset, NEW d, d = file[s], Alive(d), s # fd
       PROVE  HearsTo(d, IF s \in targets THEN n ELSE n + 1)'
  <2>1. d \in Clients /\ d # c
    BY <1>2, <1>3, <1>5, <1>14, <1>a DEF ConnectionsApart, MastersAreOpen, HearTypeOK, Peer
  <2>2. fed'[d] = fed[d] /\ joined'[d] = joined[d] /\ log' = log
    BY <1>1, <1>9, <2>1
  <2>3. Len(log) - 1 = n
    BY <1>7
  <2>4. HearsTo(d, IF s \in targets THEN n ELSE n + 1)
    BY <1>2, <1>7, <1>14, <2>3 DEF MastersHear
  <2>5. s \in targets' <=> s \in targets
    BY <1>1, <1>14
  <2> QED
    BY <2>2, <2>4, <2>5, HearsStill
<1>15. MastersHear'
  <2>0. Len(log)' = n + 1 /\ Len(log)' - 1 = n /\ fd \notin targets'
    BY <1>1, <1>7
  <2> SUFFICES ASSUME NEW s \in masterset, Alive(file[s])'
               PROVE  HearsTo(file[s], IF s \in targets THEN n ELSE n + 1)'
    BY <1>1, <2>0 DEF MastersHear
  <2>1. PICK d : d = file[s]
    OBVIOUS
  <2>2. Alive(d) /\ file'[s] = d
    BY <1>1, <2>1 DEF Alive
  <2>3. CASE s = fd
    BY <1>13, <1>a, <2>0, <2>1, <2>2, <2>3
  <2>4. CASE s # fd
    BY <1>14, <2>1, <2>2, <2>4
  <2> QED
    BY <2>3, <2>4
<1> QED
  BY <1>10, <1>11, <1>12, <1>15 DEF SelectInv

LEMMA AcceptReadyHears ==
    ASSUME SelectInv, AcceptReady PROVE SelectInv'
<1>0. PICK fd \in Fds : /\ Accepted(fd)
                        /\ masterset' = masterset \cup {fd}
                        /\ livesdmax' = Max({livesdmax, fd})
                        /\ joined' = [joined EXCEPT ![Head(backlog)] = Len(log)]
  BY DEF AcceptReady
<1>1. /\ UNCHANGED <<taken, cl, log, fed, frsock, targets>>
      /\ at = "scan" /\ at' = "select" /\ livesdset' = {}
  BY DEF AcceptReady, clientVars
<1>2. /\ HearTypeOK /\ ConnectionsApart
      /\ MastersAreOpen /\ TargetsAreLeft /\ WaitersUnfed /\ MastersHear
  BY <1>1 DEF SelectInv
<1>3. Len(log) \in Nat /\ targets = {} /\ targets' = {}
  BY <1>1, <1>2, Lengths DEF TargetsAreLeft
<1>4. joined' \in [Clients -> Nat] /\ \A d \in Clients : d # Head(backlog) => joined'[d] = joined[d]
  BY <1>0, <1>2, <1>3 DEF HearTypeOK
<1>a. PICK h : h = Head(backlog)
  OBVIOUS
<1>5. /\ HearTypeOK' /\ ConnectionsApart'
      /\ file[fd] = NoClient /\ file'[fd] = h /\ h \in Clients
      /\ \A x \in Fds \ {fd} : file'[x] = file[x]
      /\ \A x \in Fds : file[x] # h
      /\ \A d \in Clients : Waits(d)' => Waits(d) /\ d # h
      /\ Waits(h)
  BY <1>0, <1>1, <1>2, <1>4, <1>a, AcceptedApart
<1>6. h # NoClient /\ fed[h] = <<>> /\ joined'[h] = Len(log) /\ \A d \in Clients : d # h => joined'[d] = joined[d]
  BY <1>0, <1>2, <1>4, <1>5, <1>a, RoomAssumption DEF WaitersUnfed, HearTypeOK
<1>7. MastersAreOpen'
  <2>1. masterset' = {s \in Fds : file'[s] # NoClient}
    BY <1>0, <1>2, <1>5, <1>6 DEF MastersAreOpen
  <2>2. fd \in Nat /\ Fds \subseteq Nat /\ livesdmax \in Nat
    BY <1>2, NumbersOnly DEF MastersAreOpen
  <2>3. livesdmax' \in Nat /\ livesdmax <= livesdmax' /\ fd <= livesdmax'
    BY <1>0, <2>2, LargerOfTwo
  <2>4. \A s \in masterset : s <= livesdmax /\ s \in Nat
    BY <1>2, <2>2 DEF MastersAreOpen
  <2>5. \A s \in masterset' : s <= livesdmax'
    BY <1>0, <2>2, <2>3, <2>4
  <2> QED
    BY <1>1, <2>1, <2>3, <2>5 DEF MastersAreOpen, Fds
<1>8. TargetsAreLeft' /\ WaitersUnfed'
  BY <1>1, <1>2, <1>3, <1>5 DEF TargetsAreLeft, WaitersUnfed
<1>9. ASSUME NEW s \in masterset', NEW d, d = file'[s], Alive(d)
      PROVE  HearsTo(d, Len(log))'
  <2>1. CASE s = fd
    <3>1. d = h /\ fed'[d] = <<>> /\ joined'[d] = Len(log) /\ log' = log
      BY <1>1, <1>5, <1>6, <1>9, <2>1
    <3> QED
      BY <1>3, <3>1, JustJoined
  <2>2. CASE s # fd
    <3>1. s \in masterset /\ s \in Fds
      BY <1>0, <1>2, <1>9, <2>2 DEF MastersAreOpen
    <3>2. d = file[s] /\ d \in Clients /\ d # h
      BY <1>2, <1>5, <1>9, <2>2, <3>1 DEF MastersAreOpen, HearTypeOK, Peer
    <3>3. HearsTo(d, Len(log))
      BY <1>2, <1>3, <1>9, <3>1, <3>2 DEF MastersHear
    <3>4. fed'[d] = fed[d] /\ joined'[d] = joined[d] /\ log' = log
      BY <1>1, <1>6, <3>2
    <3> QED
      BY <3>3, <3>4, HearsStill
  <2> QED
    BY <2>1, <2>2
<1>10. MastersHear'
  <2> SUFFICES ASSUME NEW s \in masterset', Alive(file[s])'
               PROVE  HearsTo(file[s], Len(log))'
    BY <1>3 DEF MastersHear
  <2>1. PICK d : d = file'[s]
    OBVIOUS
  <2>2. Alive(d)
    BY <1>1, <2>1 DEF Alive
  <2> QED
    BY <1>9, <2>1, <2>2
<1> QED
  BY <1>5, <1>7, <1>8, <1>10 DEF SelectInv

LEMMA StepSelect == SelectInv /\ [SelectNext]_<<confVars, selectVars>> => SelectInv'
<1> SUFFICES ASSUME SelectInv, [SelectNext]_<<confVars, selectVars>> PROVE SelectInv'
  OBVIOUS
<1>1. CASE SelectServe
  BY <1>1, ServeElse, ReceiveHears, DisconnectHears, SendNextHears, AcceptReadyHears DEF SelectServe
<1>2. CASE ListeningFails \/ Sigpipe \/ AcceptExits
  BY <1>2, ServeEnds DEF ListeningFails, Sigpipe, AcceptExits
<1> QED
  BY <1>1, <1>2, SelectClientHears, ServeElse DEF SelectNext

LEMMA SelectInforms == SelectInv => SelectMemberHears
BY DEF SelectInv, MastersHear, SelectMemberHears, HearsTo

-----------------------------------------------------------------------------
\* Whichever of the two servers runs.

ConferenceInv == \/ program = "threads" /\ ServerInv /\ HearInv
                 \/ program = "select" /\ SelectInv

\* For any number of clients, whatever they type and whenever they leave: a
\* member of the conference has been sent all that the others said since it
\* joined, each message once and in the one order of the log, but for the one
\* on its way (the loops over open_sockets and over masterset).
THEOREM MembersStayInformed == Spec => []MembersHearAll
<1>1. Init => ConferenceInv
  BY InitServer, InitHear, InitSelect DEF Init, ConferenceInv
<1>2. ConferenceInv /\ [Next]_vars => ConferenceInv'
  <2> SUFFICES ASSUME ConferenceInv, [Next]_vars PROVE ConferenceInv'
    OBVIOUS
  <2>1. CASE program = "threads"
    <3>1. [ServerNext]_<<confVars, serverVars>> /\ program' = program
      BY <2>1 DEF Next, vars
    <3> QED
      BY <2>1, <3>1, StepServer, StepHears DEF ConferenceInv
  <2>2. CASE program = "select"
    <3>1. [SelectNext]_<<confVars, selectVars>> /\ program' = program
      BY <2>2 DEF Next, vars
    <3> QED
      BY <2>2, <3>1, StepSelect DEF ConferenceInv
  <2> QED
    BY <2>1, <2>2 DEF ConferenceInv
<1>3. ConferenceInv => MembersHearAll
  BY ThreadsInform, SelectInforms DEF ConferenceInv, MembersHearAll
<1> QED
  BY <1>1, <1>2, <1>3, PTL DEF Spec

-----------------------------------------------------------------------------
\* The proxy: a page that is not in the list yet is known to its thread only.

MaybeNode == Nodes \cup {NULL}
MaybeUrl == Urls \cup {Unparsable}
Page == [request_url : MaybeUrl, host : MaybeUrl, next : MaybeNode, cache_status : {0, 1}]

\* Between two calls of strtok or of gethostbyname, or about to make one.
Calling == {"parse", "lines", "temp1", "port", "fetch", "connect", "size", "sizing"}
Early == {"none", "start", "recv", "lookup", "append", "walk", "link"} \cup Calling
Late == {"send", "spin", "print", "final", "close", "done"}
Job == [pc : Early \cup Late, sock : Sockets \cup {Failed}, url : MaybeUrl, host : MaybeUrl,
        found : {0, 1, 2, 3}, p : MaybeNode, node : MaybeNode]

StaticTypeOK == strtokLeft \in MaybeNode /\ resolved \in MaybeUrl

ProxyTypeOK == /\ page \in [Nodes -> Page]
               /\ worker \in [Nodes -> Job]
               /\ cache_list \in MaybeNode
               /\ proxySock \in Sockets \cup {Failed}
               /\ StaticTypeOK

\* A thread that has not linked its page may have set no pointer to it.
Private(t) == /\ page[t].next = NULL
              /\ cache_list # t
              /\ \A n \in Nodes : page[n].next # t /\ worker[n].p # t

PagesArePrivate ==
    IF ProxyUp
    THEN \A t \in Nodes :
           /\ worker[t].pc \in Early => Private(t)
           /\ worker[t].pc \in {"append", "walk", "link"} => worker[t].node = t
           /\ worker[t].pc = "link" => worker[t].p \in Nodes
    ELSE \A t \in Nodes : worker[t].pc = "none"

ProxyInv == ProxyTypeOK /\ PagesArePrivate /\ CacheEnds

LEMMA NullIsNoNode == NULL \notin Nodes
BY DEF NULL, Nodes

LEMMA InitProxy == ProxyInit => ProxyInv
<1> SUFFICES ASSUME ProxyInit PROVE ProxyInv
  OBVIOUS
<1>1. ProxyTypeOK
  BY DEF ProxyInit, ProxyTypeOK, StaticTypeOK, init_node, NoWorker, Page, Job, Early, Late, MaybeNode, MaybeUrl
<1>2. \A t \in Nodes : page[t].next = NULL /\ worker[t].p = NULL /\ worker[t].pc = "none"
  BY DEF ProxyInit, init_node, NoWorker
<1>3. PagesArePrivate
  BY <1>2, NullIsNoNode DEF ProxyInit, PagesArePrivate, Private
<1>4. CacheEnds
  BY <1>2, NullIsNoNode DEF CacheEnds
<1> QED
  BY <1>1, <1>3, <1>4 DEF ProxyInv

\* The list ends as before if no pointer of it is changed.
LEMMA SameLinks ==
    ASSUME CacheEnds, \A n \in Nodes : page'[n].next = page[n].next
    PROVE  CacheEnds'
<1> SUFFICES ASSUME NEW ring \in (SUBSET Nodes) \ {{}} PROVE \E n \in ring : page'[n].next \notin ring
  BY DEF CacheEnds, Nodes
<1>1. PICK n \in ring : page[n].next \notin ring
  BY DEF CacheEnds
<1> QED
  BY <1>1

\* A ring through the new link would go on from a page that has no next.
LEMMA NewLink ==
    ASSUME CacheEnds, NEW p \in Nodes, NEW t \in Nodes, page[t].next = NULL, p # t,
           page'[p].next = t, \A n \in Nodes \ {p} : page'[n].next = page[n].next
    PROVE  CacheEnds'
<1> SUFFICES ASSUME NEW ring \in (SUBSET Nodes) \ {{}} PROVE \E n \in ring : page'[n].next \notin ring
  BY DEF CacheEnds, Nodes
<1>1. CASE p \notin ring
  <2>1. PICK n \in ring : page[n].next \notin ring
    BY DEF CacheEnds
  <2> QED
    BY <1>1, <2>1
<1>2. CASE p \in ring /\ t \notin ring
  BY <1>2
<1>3. CASE t \in ring
  BY <1>3, NullIsNoNode
<1> QED
  BY <1>1, <1>2, <1>3

\* A step of a thread that touches no link: it moves on, or looks at a page that
\* was in the list.
LEMMA ThreadMoves ==
    ASSUME ProxyInv, ProxyUp, ProxyUp', NEW t \in Nodes, NEW r \in Job,
           worker' = [worker EXCEPT ![t] = r],
           r.pc \in Early => worker[t].pc \in Early,
           r.p \in {worker[t].p, cache_list, NULL} \/ \E n \in Nodes : r.p = page[n].next,
           r.pc \in {"append", "walk", "link"} => r.node = t,
           r.pc = "link" => r.p \in Nodes,
           page' \in [Nodes -> Page], \A n \in Nodes : page'[n].next = page[n].next,
           cache_list' = cache_list, proxySock' \in Sockets \cup {Failed}, StaticTypeOK'
    PROVE  ProxyInv'
<1>0. ProxyTypeOK /\ worker \in [Nodes -> Job]
  BY DEF ProxyInv, ProxyTypeOK
<1>1. worker'[t] = r /\ \A u \in Nodes \ {t} : worker'[u] = worker[u]
  BY <1>0
<1>2. ProxyTypeOK'
  BY <1>0, NullIsNoNode DEF ProxyTypeOK, MaybeNode, Nodes, Job, Page
<1>3. CacheEnds'
  BY SameLinks DEF ProxyInv
<1>4. ASSUME NEW u \in Nodes
      PROVE  /\ worker'[u].pc \in Early => Private(u)'
             /\ worker'[u].pc \in {"append", "walk", "link"} => worker'[u].node = u
             /\ worker'[u].pc = "link" => worker'[u].p \in Nodes
  <2>1. CASE worker'[u].pc \in Early
    <3>1. worker[u].pc \in Early
      BY <1>1, <2>1
    <3>2. Private(u)
      BY <3>1 DEF ProxyInv, PagesArePrivate
    <3>3. r.p # u
      BY <1>1, <3>2, NullIsNoNode DEF Private
    <3>4. Private(u)'
      BY <1>1, <3>2, <3>3 DEF Private
    <3> QED
      BY <1>1, <3>4 DEF ProxyInv, PagesArePrivate
  <2>2. CASE worker'[u].pc \notin Early
    BY <1>1, <2>2 DEF ProxyInv, PagesArePrivate, Early
  <2> QED
    BY <2>1, <2>2
<1> QED
  BY <1>2, <1>3, <1>4 DEF ProxyInv, PagesArePrivate, Nodes

\* A step of the acceptor alone.
LEMMA AcceptorMoves ==
    ASSUME ProxyInv, ProxyUp, ProxyUp', worker' = worker, page' = page,
           cache_list' = cache_list, proxySock' \in Sockets \cup {Failed}, StaticTypeOK'
    PROVE  ProxyInv'
<1>1. ProxyTypeOK'
  BY DEF ProxyInv, ProxyTypeOK
<1>2. CacheEnds'
  BY SameLinks DEF ProxyInv
<1>3. PagesArePrivate'
  BY DEF ProxyInv, PagesArePrivate, Private
<1> QED
  BY <1>1, <1>2, <1>3 DEF ProxyInv

LEMMA StaticsStay ==
    ASSUME ProxyInv, UNCHANGED staticVars
    PROVE  StaticTypeOK'
BY DEF ProxyInv, ProxyTypeOK, StaticTypeOK, staticVars

LEMMA ProxyStops ==
    ASSUME ProxyInv, ProxyEnds, UNCHANGED cacheVars, UNCHANGED proxySock, UNCHANGED staticVars
    PROVE  ProxyInv'
<1>0. StaticTypeOK'
  BY StaticsStay
<1>1. ProxyTypeOK'
  BY <1>0 DEF ProxyInv, ProxyTypeOK, ProxyEnds, cacheVars, NoWorker, Job, Early, Late, MaybeNode, MaybeUrl
<1>2. CacheEnds'
  BY SameLinks DEF ProxyInv, cacheVars
<1>3. PagesArePrivate'
  BY DEF PagesArePrivate, ProxyEnds, ProxyUp, NoWorker
<1> QED
  BY <1>1, <1>2, <1>3 DEF ProxyInv

LEMMA StepProxyAcceptor ==
    ASSUME ProxyInv,
           \/ ProxyStart \/ ProxyStartFails \/ ProxyAcceptFails \/ ProxyAdd \/ ProxyCreateFails
           \/ \E b \in Browsers : Leave(b) \/ ProxyAccept(b)
    PROVE  ProxyInv'
<1>0. proxySock \in Sockets \cup {Failed}
  BY DEF ProxyInv, ProxyTypeOK
<1>1. CASE ProxyStart
  BY <1>0, <1>1, StaticsStay, AcceptorMoves DEF ProxyStart, ProxyUp, cacheVars
<1>2. CASE ProxyStartFails
  BY <1>2, ProxyStops DEF ProxyStartFails
<1>3. CASE ProxyAcceptFails
  BY <1>3, StaticsStay, AcceptorMoves DEF ProxyAcceptFails, ProxyUp, cacheVars
<1>4. CASE ProxyAdd
  BY <1>0, <1>4, StaticsStay, AcceptorMoves DEF ProxyAdd, ProxyUp, cacheVars
<1>5. CASE ProxyCreateFails
  BY <1>5, ProxyStops DEF ProxyCreateFails
<1>6. ASSUME NEW b \in Browsers, Leave(b) PROVE ProxyInv'
  BY <1>0, <1>6, StaticsStay, AcceptorMoves DEF Leave, ProxyUp, cacheVars, socketVars
<1>7. ASSUME NEW b \in Browsers, ProxyAccept(b) PROVE ProxyInv'
  BY <1>7, StaticsStay, AcceptorMoves DEF ProxyAccept, ProxyUp, cacheVars
<1> QED
  BY <1>1, <1>2, <1>3, <1>4, <1>5, <1>6, <1>7

LEMMA StepProxyCreate ==
    ASSUME ProxyInv, NEW t \in Nodes, ProxyCreate(t)
    PROVE  ProxyInv'
<1> DEFINE r == [NoWorker EXCEPT !.pc = "start", !.sock = proxySock]
<1>1. worker' = [worker EXCEPT ![t] = r]
  BY DEF ProxyCreate
<1>2. r \in Job /\ r.pc = "start" /\ r.p = NULL
  BY DEF ProxyInv, ProxyTypeOK, NoWorker, Job, Early, MaybeNode, MaybeUrl
<1>3. worker[t].pc \in Early /\ ProxyUp /\ ProxyUp'
  BY DEF ProxyCreate, ProxyUp, Early
<1>4. page' \in [Nodes -> Page] /\ page' = page /\ cache_list' = cache_list
      /\ proxySock' \in Sockets \cup {Failed} /\ StaticTypeOK'
  BY StaticsStay DEF ProxyCreate, cacheVars, ProxyInv, ProxyTypeOK
<1> HIDE DEF r
<1> QED
  BY <1>1, <1>2, <1>3, <1>4, ThreadMoves

\* A thread runs only while the proxy is up.
LEMMA ThreadIsUp ==
    ASSUME ProxyInv, NEW t \in Nodes, worker[t].pc # "none"
    PROVE  ProxyUp /\ worker[t] \in Job /\ (worker[t].pc \in {"append", "walk", "link"} => worker[t].node = t)
BY DEF ProxyInv, PagesArePrivate, ProxyTypeOK

\* A step of a thread that leaves the list alone, but for the status of a page.
LEMMA ThreadSteps ==
    ASSUME ProxyInv, NEW t \in Nodes, worker[t].pc # "none", NEW r \in Job,
           worker' = [worker EXCEPT ![t] = r],
           r.pc \in Early => worker[t].pc \in Early,
           r.p \in {worker[t].p, cache_list, NULL} \/ \E n \in Nodes : r.p = page[n].next,
           r.pc \in {"append", "walk", "link"} => r.node = t,
           r.pc = "link" => r.p \in Nodes,
           UNCHANGED <<proxyAcceptor, proxySock, cacheVars>>, StaticTypeOK'
    PROVE  ProxyInv'
<1>1. ProxyUp /\ ProxyUp'
  BY ThreadIsUp DEF ProxyUp
<1>2. page' \in [Nodes -> Page] /\ page' = page /\ cache_list' = cache_list
      /\ proxySock' \in Sockets \cup {Failed}
  BY DEF cacheVars, ProxyInv, ProxyTypeOK
<1> QED
  BY <1>1, <1>2, ThreadMoves

LEMMA StepBegin ==
    ASSUME ProxyInv, NEW t \in Nodes, Begin(t)
    PROVE  ProxyInv'
<1> DEFINE r == [worker[t] EXCEPT !.pc = "recv", !.sock = proxySock]
<1>1. worker' = [worker EXCEPT ![t] = r] /\ worker[t].pc = "start"
  BY DEF Begin
<1>2. r \in Job /\ r.pc = "recv" /\ r.p = worker[t].p
  BY <1>1 DEF ProxyInv, ProxyTypeOK, Job, Early
<1>3. UNCHANGED <<proxyAcceptor, proxySock, cacheVars>> /\ StaticTypeOK'
  BY StaticsStay DEF Begin, socketVars
<1> HIDE DEF r
<1> QED
  BY <1>1, <1>2, <1>3, ThreadSteps DEF Early

LEMMA StepReadRequest ==
    ASSUME ProxyInv, NEW t \in Nodes, ReadRequest(t)
    PROVE  ProxyInv'
<1>0. worker[t].pc = "recv" /\ worker[t] \in Job
  BY ThreadIsUp DEF ReadRequest
<1>1. UNCHANGED <<proxyAcceptor, proxySock, cacheVars>> /\ StaticTypeOK'
  BY StaticsStay DEF ReadRequest, socketVars
<1>2. CASE \E url \in MaybeUrl : worker' = [worker EXCEPT ![t].pc = "parse", ![t].url = url]
  <2>1. PICK url \in MaybeUrl : worker' = [worker EXCEPT ![t].pc = "parse", ![t].url = url]
    BY <1>2
  <2> DEFINE r == [worker[t] EXCEPT !.pc = "parse", !.url = url]
  <2>2. worker' = [worker EXCEPT ![t] = r]
    BY <2>1
  <2>3. r \in Job /\ r.pc = "parse" /\ r.p = worker[t].p
    BY <1>0 DEF Job, Early, Calling
  <2> HIDE DEF r
  <2> QED
    BY <1>0, <1>1, <2>2, <2>3, ThreadSteps DEF Early
<1>3. CASE worker' = [worker EXCEPT ![t].pc = "final"]
  <2> DEFINE r == [worker[t] EXCEPT !.pc = "final"]
  <2>1. worker' = [worker EXCEPT ![t] = r]
    BY <1>3
  <2>2. r \in Job /\ r.pc = "final" /\ r.p = worker[t].p
    BY <1>0 DEF Job, Late
  <2> HIDE DEF r
  <2> QED
    BY <1>0, <1>1, <2>1, <2>2, ThreadSteps DEF Early
<1> QED
  BY <1>2, <1>3 DEF ReadRequest, MaybeUrl

\* The steps about the calls of strtok and of gethostbyname: a thread that is
\* Calling goes on, keeps its url, its socket and its page, and touches no link.
CallStep(t) == ProxyParse(t) \/ Resolve(t) \/ HookToServer(t) \/ SizeFirst(t) \/ FetchFails(t)

Calls(t, r) == /\ r.pc \in Calling \cup {"lookup", "final"}
               /\ r.sock = worker[t].sock /\ r.url = worker[t].url /\ r.node = worker[t].node
               /\ r.p \in {worker[t].p, cache_list}

LEMMA CallShape ==
    ASSUME ProxyInv, NEW t \in Nodes, CallStep(t)
    PROVE  /\ worker[t].pc \in Calling
           /\ \E r \in Job : worker' = [worker EXCEPT ![t] = r] /\ Calls(t, r)
           /\ UNCHANGED <<proxyAcceptor, proxySock, peer, crowd, cacheVars, proxyHistory>>
           /\ StaticTypeOK'
<1>1. worker[t].pc \in Calling
  BY DEF CallStep, ProxyParse, ParseFirst, ParseNext, ParseEnds, ParseHost, ParsePort, Resolve, HookToServer,
         SizeFirst, FetchFails, Calling
<1>2. /\ worker[t] \in Job /\ worker \in [Nodes -> Job] /\ strtokLeft \in MaybeNode
      /\ resolved \in MaybeUrl /\ cache_list \in MaybeNode
  BY <1>1, ThreadIsUp DEF ProxyInv, ProxyTypeOK, StaticTypeOK, Calling
<1>3. UNCHANGED <<proxyAcceptor, proxySock, peer, crowd, cacheVars, proxyHistory>>
  BY DEF CallStep, ProxyParse, ParseFirst, ParseNext, ParseEnds, ParseHost, ParsePort, Resolve, HookToServer,
         SizeFirst, FetchFails, socketVars, browserVars
<1>4. StaticTypeOK'
  BY <1>2, <1>1 DEF CallStep, ProxyParse, ParseFirst, ParseNext, ParseEnds, ParseHost, ParsePort, Resolve,
         HookToServer, SizeFirst, FetchFails, StaticTypeOK, staticVars, MaybeNode, Job
<1>5. CASE ParseFirst(t)
  <2> DEFINE r == [worker[t] EXCEPT !.pc = "lines", !.found = 1]
  <2>1. worker' = [worker EXCEPT ![t] = r]
    BY <1>2, <1>5 DEF ParseFirst
  <2>2. r \in Job
    BY <1>2 DEF Job, Calling, Early, Late, MaybeUrl
  <2>3. Calls(t, r)
    BY <1>2 DEF Job, Calls, Calling
  <2> HIDE DEF r
  <2> QED
    BY <1>1, <1>3, <1>4, <2>1, <2>2, <2>3
<1>6. CASE ParseNext(t)
  <2> DEFINE r == [worker[t] EXCEPT !.found = @ + 1, !.host = worker[strtokLeft].url]
  <2>1. worker' = [worker EXCEPT ![t] = r]
    BY <1>2, <1>6 DEF ParseNext
  <2>2. worker[strtokLeft] \in Job /\ worker[t].found + 1 \in {0, 1, 2, 3} /\ worker[t].pc = "lines"
    BY <1>2, <1>6 DEF ParseNext, MaybeNode, Job
  <2>3. r \in Job
    BY <1>2, <2>2 DEF Job
  <2>4. Calls(t, r)
    BY <1>2, <2>2 DEF Job, Calls, Calling
  <2> HIDE DEF r
  <2> QED
    BY <1>1, <1>3, <1>4, <2>1, <2>3, <2>4
<1>7. CASE ParseEnds(t)
  <2> DEFINE r == [worker[t] EXCEPT !.pc = IF worker[t].found = 2 THEN "temp1" ELSE "final"]
  <2>1. worker' = [worker EXCEPT ![t] = r]
    BY <1>2, <1>7 DEF ParseEnds
  <2>2. r \in Job
    BY <1>2 DEF Job, Calling, Early, Late, MaybeUrl
  <2>3. Calls(t, r)
    BY <1>2 DEF Job, Calls, Calling
  <2> HIDE DEF r
  <2> QED
    BY <1>1, <1>3, <1>4, <2>1, <2>2, <2>3
<1>8. CASE ParseHost(t)
  <2> DEFINE r == [worker[t] EXCEPT !.pc = "port"]
  <2>1. worker' = [worker EXCEPT ![t] = r]
    BY <1>2, <1>8 DEF ParseHost
  <2>2. r \in Job
    BY <1>2 DEF Job, Calling, Early, Late, MaybeUrl
  <2>3. Calls(t, r)
    BY <1>2 DEF Job, Calls, Calling
  <2> HIDE DEF r
  <2> QED
    BY <1>1, <1>3, <1>4, <2>1, <2>2, <2>3
<1>9. CASE ParsePort(t)
  <2> DEFINE r == [worker[t] EXCEPT !.pc = "lookup", !.p = cache_list, !.host = IF strtokLeft = NULL THEN @ ELSE Unparsable]
  <2>1. worker' = [worker EXCEPT ![t] = r]
    BY <1>2, <1>9 DEF ParsePort
  <2>2. r \in Job
    BY <1>2 DEF Job, Calling, Early, Late, MaybeUrl
  <2>3. Calls(t, r)
    BY <1>2 DEF Job, Calls, Calling
  <2> HIDE DEF r
  <2> QED
    BY <1>1, <1>3, <1>4, <2>1, <2>2, <2>3
<1>10. CASE Resolve(t)
  <2> DEFINE r == [worker[t] EXCEPT !.pc = "connect"]
  <2>1. worker' = [worker EXCEPT ![t] = r]
    BY <1>2, <1>10 DEF Resolve
  <2>2. r \in Job
    BY <1>2 DEF Job, Calling, Early, Late, MaybeUrl
  <2>3. Calls(t, r)
    BY <1>2 DEF Job, Calls, Calling
  <2> HIDE DEF r
  <2> QED
    BY <1>1, <1>3, <1>4, <2>1, <2>2, <2>3
<1>11. CASE HookToServer(t)
  <2> DEFINE r == [worker[t] EXCEPT !.pc = "size", !.host = resolved]
  <2>1. worker' = [worker EXCEPT ![t] = r]
    BY <1>2, <1>11 DEF HookToServer
  <2>2. r \in Job
    BY <1>2 DEF Job, Calling, Early, Late, MaybeUrl
  <2>3. Calls(t, r)
    BY <1>2 DEF Job, Calls, Calling
  <2> HIDE DEF r
  <2> QED
    BY <1>1, <1>3, <1>4, <2>1, <2>2, <2>3
<1>12. CASE SizeFirst(t)
  <2> DEFINE r == [worker[t] EXCEPT !.pc = "sizing"]
  <2>1. worker' = [worker EXCEPT ![t] = r]
    BY <1>2, <1>12 DEF SizeFirst
  <2>2. r \in Job
    BY <1>2 DEF Job, Calling, Early, Late, MaybeUrl
  <2>3. Calls(t, r)
    BY <1>2 DEF Job, Calls, Calling
  <2> HIDE DEF r
  <2> QED
    BY <1>1, <1>3, <1>4, <2>1, <2>2, <2>3
<1>13. CASE FetchFails(t)
  <2> DEFINE r == [worker[t] EXCEPT !.pc = "final"]
  <2>1. worker' = [worker EXCEPT ![t] = r]
    BY <1>2, <1>13 DEF FetchFails
  <2>2. r \in Job
    BY <1>2 DEF Job, Calling, Early, Late, MaybeUrl
  <2>3. Calls(t, r)
    BY <1>2 DEF Job, Calls, Calling
  <2> HIDE DEF r
  <2> QED
    BY <1>1, <1>3, <1>4, <2>1, <2>2, <2>3
<1> QED
  BY <1>5, <1>6, <1>7, <1>8, <1>9, <1>10, <1>11, <1>12, <1>13 DEF CallStep, ProxyParse

LEMMA ThreadCalls ==
    ASSUME ProxyInv, NEW t \in Nodes, CallStep(t)
    PROVE  ProxyInv'
<1>1. /\ worker[t].pc \in Calling /\ UNCHANGED <<proxyAcceptor, proxySock, cacheVars>> /\ StaticTypeOK'
      /\ \E r \in Job : worker' = [worker EXCEPT ![t] = r] /\ Calls(t, r)
  BY CallShape
<1>2. PICK r \in Job : worker' = [worker EXCEPT ![t] = r] /\ Calls(t, r)
  BY <1>1
<1>3. worker[t].pc # "none" /\ worker[t].pc \in Early /\ r.pc \notin {"append", "walk", "link"}
      /\ r.p \in {worker[t].p, cache_list}
  BY <1>1, <1>2 DEF Calls, Calling, Early
<1> QED
  BY <1>1, <1>2, <1>3, ThreadSteps

LEMMA StepLookup ==
    ASSUME ProxyInv, NEW t \in Nodes, Lookup(t)
    PROVE  ProxyInv'
<1>0. /\ worker[t].pc = "lookup" /\ worker[t] \in Job /\ ProxyUp /\ ProxyUp'
      /\ page \in [Nodes -> Page] /\ cache_list' = cache_list
      /\ proxySock' = proxySock /\ proxySock \in Sockets \cup {Failed} /\ StaticTypeOK'
  BY StaticsStay DEF Lookup, ProxyInv, ProxyTypeOK, PagesArePrivate, ProxyUp, socketVars
<1> DEFINE p == worker[t].p
<1>1. CASE p = NULL /\ worker' = [worker EXCEPT ![t].pc = "fetch"] /\ UNCHANGED page
  <2> DEFINE r == [worker[t] EXCEPT !.pc = "fetch"]
  <2>1. worker' = [worker EXCEPT ![t] = r]
    BY <1>1
  <2>2. r \in Job /\ r.pc = "fetch" /\ r.p = worker[t].p
    BY <1>0 DEF Job, Early, Calling
  <2>3. page' \in [Nodes -> Page] /\ page' = page
    BY <1>0, <1>1
  <2> HIDE DEF r, p
  <2> QED
    BY <1>0, <2>1, <2>2, <2>3, ThreadMoves DEF Early
<1>2. CASE /\ p # NULL
           /\ page' = [page EXCEPT ![p].cache_status = 1]
           /\ worker' = [worker EXCEPT ![t].pc = "send", ![t].node = p]
  <2> DEFINE r == [worker[t] EXCEPT !.pc = "send", !.node = p]
  <2>1. worker' = [worker EXCEPT ![t] = r]
    BY <1>2
  <2>2. r \in Job /\ r.pc = "send" /\ r.p = worker[t].p
    BY <1>0 DEF Job, Late
  <2>3. p \in Nodes
    BY <1>0, <1>2 DEF Job, MaybeNode
  <2>4. page' \in [Nodes -> Page] /\ \A n \in Nodes : page'[n].next = page[n].next
    <3>1. page[p] \in Page
      BY <1>0, <2>3
    <3> DEFINE hit == [page[p] EXCEPT !.cache_status = 1]
    <3>2. hit \in Page /\ hit.next = page[p].next /\ page' = [page EXCEPT ![p] = hit]
      BY <1>2, <3>1 DEF Page
    <3> HIDE DEF hit, p
    <3> QED
      BY <1>0, <2>3, <3>2
  <2> HIDE DEF r, p
  <2> QED
    BY <1>0, <2>1, <2>2, <2>4, ThreadMoves DEF Early
<1>3. CASE p # NULL /\ worker' = [worker EXCEPT ![t].p = page[p].next] /\ UNCHANGED page
  <2> DEFINE r == [worker[t] EXCEPT !.p = page[p].next]
  <2>1. worker' = [worker EXCEPT ![t] = r]
    BY <1>3
  <2>2. p \in Nodes /\ page[p].next \in MaybeNode
    BY <1>0, <1>3 DEF Job, MaybeNode, Page
  <2>3. r \in Job /\ r.pc = "lookup" /\ r.p = page[p].next
    BY <1>0, <2>2 DEF Job
  <2>4. page' \in [Nodes -> Page] /\ page' = page
    BY <1>0, <1>3
  <2> HIDE DEF r, p
  <2> QED
    BY <1>0, <2>1, <2>2, <2>3, <2>4, ThreadMoves DEF Early
<1> QED
  BY <1>1, <1>2, <1>3 DEF Lookup

LEMMA StepFetch ==
    ASSUME ProxyInv, NEW t \in Nodes, Fetch(t)
    PROVE  ProxyInv'
<1>0. /\ worker[t].pc = "sizing" /\ worker[t] \in Job /\ ProxyUp /\ ProxyUp'
      /\ page \in [Nodes -> Page] /\ cache_list' = cache_list
      /\ proxySock' = proxySock /\ proxySock \in Sockets \cup {Failed}
      /\ page[t].next = NULL /\ StaticTypeOK'
  BY StaticsStay DEF Fetch, ProxyInv, ProxyTypeOK, PagesArePrivate, Private, Early, Calling, ProxyUp, socketVars
<1> DEFINE r == [worker[t] EXCEPT !.pc = "append", !.node = t]
           fresh == init_node(worker[t].url, worker[t].host)
<1>1. worker' = [worker EXCEPT ![t] = r] /\ page' = [page EXCEPT ![t] = fresh]
  BY DEF Fetch
<1>2. r \in Job /\ r.pc = "append" /\ r.node = t /\ r.p = worker[t].p
  BY <1>0 DEF Job, Early, MaybeNode
<1>3. fresh \in Page /\ fresh.next = NULL
  BY <1>0 DEF init_node, Page, Job, MaybeNode
<1> HIDE DEF r, fresh
<1>4. page' \in [Nodes -> Page] /\ \A n \in Nodes : page'[n].next = page[n].next
  BY <1>0, <1>1, <1>3
<1> QED
  BY <1>0, <1>1, <1>2, <1>4, ThreadMoves DEF Early, Calling

\* strtok comes to the end of somebody's lines.
LEMMA StepSizeNext ==
    ASSUME ProxyInv, NEW t \in Nodes, SizeNext(t)
    PROVE  ProxyInv'
<1>1. worker[t].pc = "sizing" /\ UNCHANGED <<proxyAcceptor, proxySock, worker, page, cache_list>>
  BY DEF SizeNext, socketVars, cacheVars
<1>2. StaticTypeOK'
  BY DEF SizeNext, StaticTypeOK, MaybeNode, ProxyInv, ProxyTypeOK
<1>3. ProxyUp /\ ProxyUp' /\ proxySock \in Sockets \cup {Failed}
  BY <1>1, ThreadIsUp DEF ProxyUp, ProxyInv, ProxyTypeOK
<1> QED
  BY <1>1, <1>2, <1>3, AcceptorMoves

LEMMA StepCrash ==
    ASSUME ProxyInv, NEW t \in Nodes, ParseCrashes(t) \/ FetchCrashes(t)
    PROVE  ProxyInv'
BY ProxyStops DEF ParseCrashes, FetchCrashes

LEMMA StepAppendHead ==
    ASSUME ProxyInv, NEW t \in Nodes, AppendHead(t)
    PROVE  ProxyInv'
<1> DEFINE r == [worker[t] EXCEPT !.pc = "walk", !.p = cache_list]
<1>1. worker' = [worker EXCEPT ![t] = r] /\ worker[t].pc = "append"
  BY DEF AppendHead
<1>2. r \in Job /\ r.pc = "walk" /\ r.p = cache_list /\ r.node = t
  BY <1>1, ThreadIsUp DEF ProxyInv, ProxyTypeOK, Job, Early
<1>3. UNCHANGED <<proxyAcceptor, proxySock, cacheVars>> /\ StaticTypeOK'
  BY StaticsStay DEF AppendHead, socketVars
<1> HIDE DEF r
<1> QED
  BY <1>1, <1>2, <1>3, ThreadSteps DEF Early

LEMMA StepAppendWalk ==
    ASSUME ProxyInv, NEW t \in Nodes, AppendWalk(t)
    PROVE  ProxyInv'
<1> DEFINE p == worker[t].p
           r == IF page[p].next # NULL THEN [worker[t] EXCEPT !.p = page[p].next]
                                       ELSE [worker[t] EXCEPT !.pc = "link"]
<1>0. worker[t].pc = "walk" /\ worker[t] \in Job /\ worker[t].node = t /\ p # NULL
  BY ThreadIsUp DEF AppendWalk
<1>1. worker' = [worker EXCEPT ![t] = r]
  BY DEF AppendWalk
<1>2. p \in Nodes /\ page[p].next \in MaybeNode
  BY <1>0 DEF Job, MaybeNode, ProxyInv, ProxyTypeOK, Page
<1>3. r \in Job /\ r.pc \in {"walk", "link"} /\ r.node = t
  BY <1>0, <1>2 DEF Job, Early
<1>4. r.p \in {worker[t].p} \/ \E n \in Nodes : r.p = page[n].next
  BY <1>0, <1>2 DEF Job
<1>5. r.pc = "link" => r.p \in Nodes
  BY <1>0, <1>2 DEF Job
<1>6. UNCHANGED <<proxyAcceptor, proxySock, cacheVars>> /\ StaticTypeOK'
  BY StaticsStay DEF AppendWalk, socketVars
<1> HIDE DEF r, p
<1> QED
  BY <1>0, <1>1, <1>3, <1>4, <1>5, <1>6, ThreadSteps DEF Early

\* The page joins the list: first, or after the page that had no next when the
\* thread looked, whatever hangs there by now.
LEMMA StepAppendLink ==
    ASSUME ProxyInv, NEW t \in Nodes, AppendLink(t)
    PROVE  ProxyInv'
<1> DEFINE p == worker[t].p
           r == [worker[t] EXCEPT !.pc = "send"]
<1>0. /\ worker[t].pc \in {"walk", "link"} /\ ProxyTypeOK /\ worker[t] \in Job /\ worker[t].node = t
      /\ ProxyUp /\ ProxyUp' /\ proxySock' = proxySock /\ StaticTypeOK'
      /\ \A u \in Nodes : worker[u].pc \in Early => Private(u)
  BY ThreadIsUp, StaticsStay DEF AppendLink, ProxyUp, socketVars, ProxyInv, PagesArePrivate
<1>1. worker' = [worker EXCEPT ![t] = r]
  BY DEF AppendLink
<1>2. r \in Job /\ r.pc = "send" /\ r.p = p
  BY <1>0 DEF Job, Late
<1> HIDE DEF r
<1>3. worker'[t] = r /\ worker' \in [Nodes -> Job] /\ \A u \in Nodes \ {t} : worker'[u] = worker[u]
  BY <1>0, <1>1, <1>2 DEF ProxyTypeOK
<1>4. Private(t)
  BY <1>0 DEF Early
<1>5. CASE cache_list' = t /\ UNCHANGED page
  <2>1. ProxyTypeOK'
    BY <1>0, <1>3, <1>5 DEF ProxyTypeOK, MaybeNode
  <2>2. CacheEnds'
    BY <1>5, SameLinks DEF ProxyInv
  <2>3. ASSUME NEW u \in Nodes, worker'[u].pc \in Early PROVE u # t /\ Private(u)'
    BY <1>0, <1>2, <1>3, <1>5, <2>3 DEF Private, Early, Calling
  <2>4. PagesArePrivate'
    BY <1>0, <1>2, <1>3, <2>3 DEF PagesArePrivate, Nodes, ProxyInv, Early, Calling
  <2> QED
    BY <2>1, <2>2, <2>4 DEF ProxyInv
<1>6. CASE p \in Nodes /\ cache_list' = cache_list /\ page' = [page EXCEPT ![p].next = t]
  <2> DEFINE grown == [page[p] EXCEPT !.next = t]
  <2>1. grown \in Page /\ grown.next = t /\ page' = [page EXCEPT ![p] = grown]
    BY <1>0, <1>6 DEF ProxyTypeOK, Page, MaybeNode
  <2> HIDE DEF grown
  <2>2. page' \in [Nodes -> Page] /\ page'[p].next = t /\ \A n \in Nodes \ {p} : page'[n].next = page[n].next
    BY <1>0, <1>6, <2>1 DEF ProxyTypeOK
  <2>3. ProxyTypeOK'
    BY <1>0, <1>3, <1>6, <2>2 DEF ProxyTypeOK
  <2>4. p # t /\ page[t].next = NULL
    BY <1>4 DEF Private
  <2> HIDE DEF p
  <2>5. CacheEnds'
    BY <1>6, <2>2, <2>4, NewLink DEF ProxyInv
  <2>6. ASSUME NEW u \in Nodes, worker'[u].pc \in Early PROVE u # t /\ Private(u)'
    <3>1. u # t /\ Private(u)
      BY <1>0, <1>2, <1>3, <2>6 DEF Early, Calling
    <3>2. p # u
      BY <3>1 DEF Private, p
    <3> QED
      BY <1>2, <1>3, <1>6, <2>2, <3>1, <3>2 DEF Private, p
  <2>7. PagesArePrivate'
    BY <1>0, <1>2, <1>3, <2>6 DEF PagesArePrivate, Nodes, ProxyInv, Early, Calling
  <2> QED
    BY <2>3, <2>5, <2>7 DEF ProxyInv
<1>7. worker[t].pc = "link" => p \in Nodes
  BY <1>0 DEF ProxyInv, PagesArePrivate
<1> QED
  BY <1>0, <1>5, <1>6, <1>7 DEF AppendLink

LEMMA StepAnswer ==
    ASSUME ProxyInv, NEW t \in Nodes,
           SendPage(t) \/ PrintLine(t) \/ Final(t) \/ Hangup(t)
    PROVE  ProxyInv'
<1>1. PICK pc \in Late : worker' = [worker EXCEPT ![t].pc = pc]
  BY DEF SendPage, PrintLine, Final, Hangup, Late
<1> DEFINE r == [worker[t] EXCEPT !.pc = pc]
<1>2. worker' = [worker EXCEPT ![t] = r] /\ worker[t].pc # "none"
  BY <1>1 DEF SendPage, PrintLine, Final, Hangup
<1>3. r \in Job /\ r.pc \in Late /\ r.p = worker[t].p
  BY <1>2, ThreadIsUp DEF Job
<1>4. UNCHANGED <<proxyAcceptor, proxySock, cacheVars>> /\ StaticTypeOK'
  BY StaticsStay DEF SendPage, PrintLine, Final, Hangup, socketVars
<1> HIDE DEF r
<1>5. r.pc \notin Early /\ r.pc \notin {"append", "walk", "link"}
  BY <1>3 DEF Early, Late, Calling
<1> QED
  BY <1>2, <1>3, <1>4, <1>5, ThreadSteps

LEMMA StepProxy == ProxyInv /\ [ProxyNext]_proxyVars => ProxyInv'
<1> SUFFICES ASSUME ProxyInv, [ProxyNext]_proxyVars PROVE ProxyInv'
  OBVIOUS
<1>1. CASE UNCHANGED proxyVars
  BY <1>1 DEF proxyVars, socketVars, cacheVars, staticVars, StaticTypeOK, ProxyInv, ProxyTypeOK, PagesArePrivate,
              Private, ProxyUp, CacheEnds
<1>2. CASE \/ ProxyStart \/ ProxyStartFails \/ ProxyAcceptFails \/ ProxyAdd \/ ProxyCreateFails
           \/ \E b \in Browsers : Leave(b) \/ ProxyAccept(b)
  BY <1>2, StepProxyAcceptor
<1>3. ASSUME NEW t \in Nodes, \/ ProxyCreate(t) \/ ProxyWorker(t)
                             \/ ParseCrashes(t) \/ FetchFails(t) \/ FetchCrashes(t)
      PROVE  ProxyInv'
  BY <1>3, StepProxyCreate, StepBegin, StepReadRequest, StepLookup, ThreadCalls, StepSizeNext, StepFetch,
     StepCrash, StepAppendHead, StepAppendWalk, StepAppendLink, StepAnswer DEF ProxyWorker, CallStep, ProxyFetch
<1> QED
  BY <1>1, <1>2, <1>3 DEF ProxyNext

\* However many threads append at once and whatever fails, the list of pages ends:
\* no search of get_from_cache and no walk of add_to_cache can go round for ever.
THEOREM CacheStaysFinite == ProxySpec => []CacheEnds
<1>1. ProxyInv => CacheEnds
  BY DEF ProxyInv
<1> QED
  BY <1>1, InitProxy, StepProxy, PTL DEF ProxySpec

-----------------------------------------------------------------------------
\* The proxy: whose page a thread holds, and whose socket it answers on.

Active == {"start", "recv", "lookup", "append", "walk", "link",
           "send", "spin", "print", "final", "close"} \cup Calling
Answering == {"append", "walk", "link", "send", "spin", "print"}
Knowing == {"lookup", "append", "walk", "link", "send"} \cup Calling
Reported == {"final", "close", "done"}

AnswerTypeOK == /\ peer \in [Sockets -> Browsers \cup {NoBrowser}]
                /\ got \in [Browsers -> SUBSET Nodes]
                /\ DOMAIN said = Nodes
                /\ onTime \in BOOLEAN

NothingBefore == proxyAcceptor = "start" => /\ \A t \in Nodes : worker[t].pc = "none"
                                            /\ \A b \in Browsers : got[b] = {}

\* A page that is sent was fetched for the thread's url, and nobody can fetch
\* another one into its node any more.
PageIsFetched(t) ==
    /\ worker[t].pc \in Answering =>
         worker[t].node \in Nodes /\ page[worker[t].node].request_url = worker[t].url
    /\ worker[t].pc \in Early => /\ \A u \in Nodes \ {t} : worker[u].node # t
                                 /\ \A b \in Browsers : t \notin got[b]
    /\ worker[t].pc \in {"send", "spin", "print"} /\ worker[t].node # t =>
         page[worker[t].node].cache_status = 1
    /\ worker[t].pc \notin Reported => said[t] # "CACHE_MISS"

\* No two threads have one socket, and the browser at its end is the one whose
\* request the thread has read.
SocketIsOwn(t) ==
    worker[t].pc \in Active =>
        /\ worker[t].sock \in Sockets
        /\ peer[worker[t].sock] # NoBrowser
        /\ \A u \in Nodes \ {t} : worker[u].pc \in Active => worker[u].sock # worker[t].sock
        /\ worker[t].pc \in Knowing => worker[t].url = crowd.asks[peer[worker[t].sock]]

AcceptedIsApart ==
    proxyAcceptor \in {"add", "create"} =>
        /\ proxySock \in Sockets
        /\ peer[proxySock] # NoBrowser
        /\ \A t \in Nodes : worker[t].pc \in Active => worker[t].sock # proxySock

SocketsAreApart == onTime => AcceptedIsApart /\ \A t \in Nodes : SocketIsOwn(t)

\* AnswersAreRight but for the host.
UrlsAreRight ==
    /\ onTime => \A b \in Browsers : \A n \in got[b] : page[n].request_url = crowd.asks[b]
    /\ \A t \in Nodes : said[t] = "CACHE_MISS" => worker[t].node \in {t, NULL}

AnswerInv == /\ AnswerTypeOK
             /\ NothingBefore
             /\ ProxyUp => (\A t \in Nodes : PageIsFetched(t)) /\ SocketsAreApart
             /\ UrlsAreRight

LEMMA InitAnswer == ProxyInit => AnswerInv
<1> SUFFICES ASSUME ProxyInit PROVE AnswerInv
  OBVIOUS
<1>1. \A t \in Nodes : worker[t].pc = "none" /\ worker[t].node = NULL /\ said[t] = "nothing"
  BY DEF ProxyInit, NoWorker
<1>2. \A b \in Browsers : got[b] = {}
  BY DEF ProxyInit
<1>3. AnswerTypeOK /\ NothingBefore
  BY <1>1, <1>2 DEF ProxyInit, AnswerTypeOK, NothingBefore
<1>4. \A t \in Nodes : PageIsFetched(t)
  BY <1>1, <1>2, NullIsNoNode DEF PageIsFetched, Answering
<1>5. SocketsAreApart
  BY <1>1 DEF ProxyInit, SocketsAreApart, AcceptedIsApart, SocketIsOwn, Active, Calling
<1>6. UrlsAreRight
  BY <1>1, <1>2 DEF UrlsAreRight
<1> QED
  BY <1>3, <1>4, <1>5, <1>6 DEF AnswerInv

\* A step of a thread that stays with its page and its socket: neither what was
\* sent nor what was fetched changes.
LEMMA AnswerMoves ==
    ASSUME ProxyInv, AnswerInv, ProxyUp', NEW t \in Nodes, worker[t].pc # "none", NEW r \in Job,
           worker' = [worker EXCEPT ![t] = r], r.sock = worker[t].sock,
           r.pc \in Early => worker[t].pc \in Early,
           worker[t].pc \in Reported \cup {"print"} => r.pc \in Reported /\ r.node = worker[t].node,
           r.pc \in Answering => r.node \in Nodes /\ page[r.node].request_url = r.url,
           r.pc \in {"send", "spin", "print"} /\ r.node # t => page'[r.node].cache_status = 1,
           \A u \in Nodes \ {t} : worker[u].pc \in Early => r.node # u,
           onTime /\ r.pc \in Knowing => r.url = crowd.asks[peer[r.sock]],
           worker[t].pc \notin Active => r.pc \notin Active,
           \A n \in Nodes : /\ page'[n].request_url = page[n].request_url
                            /\ page[n].cache_status = 1 => page'[n].cache_status = 1,
           UNCHANGED <<proxyAcceptor, proxySock, peer, crowd, got, said, onTime>>
    PROVE  AnswerInv'
<1>0. /\ ProxyUp /\ worker \in [Nodes -> Job] /\ AnswerTypeOK /\ SocketsAreApart /\ UrlsAreRight
      /\ \A u \in Nodes : PageIsFetched(u)
  BY ThreadIsUp DEF AnswerInv, ProxyInv, ProxyTypeOK
<1>1. worker'[t] = r /\ \A u \in Nodes \ {t} : worker'[u] = worker[u]
  BY <1>0
<1>2. AnswerTypeOK'
  BY <1>0 DEF AnswerTypeOK
<1>3. NothingBefore'
  BY DEF AnswerInv, NothingBefore
<1>4. PageIsFetched(t)'
  <2>1. r.pc \in Early => /\ \A u \in Nodes \ {t} : worker[u].node # t
                          /\ \A b \in Browsers : t \notin got[b]
    BY <1>0 DEF PageIsFetched
  <2>2. r.pc \notin Reported => said[t] # "CACHE_MISS"
    BY <1>0 DEF PageIsFetched
  <2> QED
    BY <1>1, <2>1, <2>2 DEF PageIsFetched
<1>5. ASSUME NEW u \in Nodes \ {t} PROVE PageIsFetched(u)'
  BY <1>0, <1>1, <1>5 DEF PageIsFetched, Answering
<1>6. ASSUME onTime, NEW u \in Nodes PROVE SocketIsOwn(u)'
  BY <1>0, <1>1, <1>6 DEF SocketsAreApart, SocketIsOwn
<1>7. onTime => AcceptedIsApart'
  BY <1>0, <1>1 DEF SocketsAreApart, SocketIsOwn, AcceptedIsApart
<1>8. UrlsAreRight'
  <2>1. \A u \in Nodes \ {t} : said'[u] = "CACHE_MISS" => worker'[u].node \in {u, NULL}
    BY <1>0, <1>1 DEF UrlsAreRight
  <2>2. said[t] = "CACHE_MISS" => r.node \in {t, NULL}
    BY <1>0 DEF PageIsFetched, UrlsAreRight
  <2>3. \A b \in Browsers : got[b] \in SUBSET Nodes
    BY <1>0 DEF AnswerTypeOK
  <2> QED
    BY <1>0, <1>1, <2>1, <2>2, <2>3 DEF UrlsAreRight
<1> QED
  BY <1>2, <1>3, <1>4, <1>5, <1>6, <1>7, <1>8 DEF AnswerInv, SocketsAreApart

LEMMA BeginAnswers ==
    ASSUME ProxyInv, AnswerInv, NEW t \in Nodes, Begin(t)
    PROVE  AnswerInv'
<1> DEFINE r == [worker[t] EXCEPT !.pc = "recv", !.sock = proxySock]
<1>0. /\ ProxyUp /\ ProxyUp' /\ worker \in [Nodes -> Job] /\ worker[t].pc = "start"
      /\ AnswerTypeOK /\ UrlsAreRight /\ \A u \in Nodes : PageIsFetched(u)
  BY ThreadIsUp DEF Begin, AnswerInv, ProxyInv, ProxyTypeOK, ProxyUp, socketVars
<1>1. worker' = [worker EXCEPT ![t] = r] /\ r.pc = "recv" /\ r.node = worker[t].node /\ r.sock = proxySock
  BY <1>0 DEF Begin, Job
<1> HIDE DEF r
<1>2. worker'[t] = r /\ \A u \in Nodes \ {t} : worker'[u] = worker[u]
  BY <1>0, <1>1
<1>3. /\ UNCHANGED <<proxyAcceptor, proxySock, peer, crowd, got, said, page>>
      /\ onTime' = (onTime /\ worker[t].sock = proxySock)
  BY DEF Begin, socketVars, browserVars, cacheVars
<1>4. AnswerTypeOK'
  BY <1>0, <1>3 DEF AnswerTypeOK
<1>5. NothingBefore'
  BY <1>0, <1>3 DEF AnswerInv, NothingBefore
<1>6. \A u \in Nodes : PageIsFetched(u)'
  BY <1>0, <1>1, <1>2, <1>3 DEF PageIsFetched, Answering, Early, Reported, Calling
<1>7. SocketsAreApart'
  <2> SUFFICES ASSUME onTime, worker[t].sock = proxySock PROVE SocketsAreApart'
    BY <1>3 DEF SocketsAreApart
  <2>1. SocketsAreApart
    BY <1>0 DEF AnswerInv
  <2>2. \A u \in Nodes : SocketIsOwn(u)'
    BY <1>0, <1>1, <1>2, <1>3, <2>1 DEF SocketsAreApart, SocketIsOwn, Active, Knowing, Calling
  <2>3. AcceptedIsApart'
    BY <1>0, <1>1, <1>2, <1>3, <2>1 DEF SocketsAreApart, AcceptedIsApart, Active, Calling
  <2> QED
    BY <2>2, <2>3 DEF SocketsAreApart
<1>8. UrlsAreRight'
  BY <1>0, <1>1, <1>2, <1>3 DEF UrlsAreRight
<1> QED
  BY <1>4, <1>5, <1>6, <1>7, <1>8 DEF AnswerInv

\* The request that a thread reads is that of the browser at the other end.
LEMMA ReadRequestAnswers ==
    ASSUME ProxyInv, AnswerInv, NEW t \in Nodes, ReadRequest(t)
    PROVE  AnswerInv'
<1> DEFINE b == PeerOf(worker[t].sock)
<1>0. worker[t].pc = "recv" /\ worker[t] \in Job /\ worker \in [Nodes -> Job]
  BY ThreadIsUp DEF ReadRequest, ProxyInv, ProxyTypeOK
<1>1. PICK r \in Job :
        /\ worker' = [worker EXCEPT ![t] = r]
        /\ r.sock = worker[t].sock /\ r.node = worker[t].node
        /\ \/ r.pc = "parse" /\ (b # NoBrowser => r.url = crowd.asks[b])
           \/ r.pc = "final"
  <2>1. CASE \E url \in MaybeUrl : /\ b # NoBrowser => url = crowd.asks[b]
                                 /\ worker' = [worker EXCEPT ![t].pc = "parse", ![t].url = url]
    <3>1. PICK url \in MaybeUrl : /\ b # NoBrowser => url = crowd.asks[b]
                                 /\ worker' = [worker EXCEPT ![t].pc = "parse", ![t].url = url]
      BY <2>1
    <3> DEFINE r == [worker[t] EXCEPT !.pc = "parse", !.url = url]
    <3>2. worker' = [worker EXCEPT ![t] = r]
      BY <1>0, <3>1
    <3>3. r \in Job /\ r.pc = "parse" /\ r.url = url /\ r.sock = worker[t].sock /\ r.node = worker[t].node
      BY <1>0 DEF Job, Early, Calling
    <3> HIDE DEF r, b
    <3> QED
      BY <3>1, <3>2, <3>3
  <2>2. CASE worker' = [worker EXCEPT ![t].pc = "final"]
    <3> DEFINE r == [worker[t] EXCEPT !.pc = "final"]
    <3>1. worker' = [worker EXCEPT ![t] = r]
      BY <2>2
    <3>2. r \in Job /\ r.pc = "final" /\ r.sock = worker[t].sock /\ r.node = worker[t].node
      BY <1>0 DEF Job, Late
    <3> HIDE DEF r, b
    <3> QED
      BY <3>1, <3>2
  <2> QED
    BY <2>1, <2>2 DEF ReadRequest, MaybeUrl
<1>2. UNCHANGED <<proxyAcceptor, proxySock, peer, crowd, page, got, said, onTime>>
  BY DEF ReadRequest, socketVars, cacheVars, proxyHistory
<1>3. ProxyUp /\ ProxyUp' /\ SocketsAreApart /\ \A u \in Nodes : PageIsFetched(u)
  BY <1>0, <1>2, ThreadIsUp DEF AnswerInv, ProxyUp
<1>4. onTime => b = peer[worker[t].sock] /\ b # NoBrowser
  BY <1>0, <1>3 DEF SocketsAreApart, SocketIsOwn, Active, PeerOf
<1> HIDE DEF b
<1>5. onTime /\ r.pc \in Knowing => r.url = crowd.asks[peer[r.sock]]
  BY <1>1, <1>4 DEF Knowing, Calling
<1>6. \A u \in Nodes \ {t} : worker[u].pc \in Early => r.node # u
  BY <1>1, <1>3 DEF PageIsFetched
<1>7. /\ worker[t].pc # "none" /\ worker[t].pc \in Early /\ worker[t].pc \in Active
      /\ worker[t].pc \notin Reported \cup {"print"}
  BY <1>0 DEF Reported, Early, Active
<1>8. r.pc \notin Answering /\ r.pc \notin {"send", "spin", "print"}
  BY <1>1 DEF Answering
<1> QED
  BY <1>1, <1>2, <1>3, <1>5, <1>6, <1>7, <1>8, AnswerMoves

\* A thread that parses, resolves or sizes keeps its url, its socket and its page.
LEMMA CallAnswers ==
    ASSUME ProxyInv, AnswerInv, NEW t \in Nodes, CallStep(t)
    PROVE  AnswerInv'
<1>1. /\ worker[t].pc \in Calling
      /\ \E r \in Job : worker' = [worker EXCEPT ![t] = r] /\ Calls(t, r)
      /\ UNCHANGED <<proxyAcceptor, proxySock, peer, crowd, page, got, said, onTime>>
  BY CallShape DEF cacheVars, proxyHistory
<1>2. PICK r \in Job : worker' = [worker EXCEPT ![t] = r] /\ Calls(t, r)
  BY <1>1
<1>3. ProxyUp /\ ProxyUp' /\ SocketsAreApart /\ \A u \in Nodes : PageIsFetched(u)
  BY <1>1, ThreadIsUp DEF AnswerInv, ProxyUp, Calling
<1>4. /\ worker[t].pc # "none" /\ worker[t].pc \in Early /\ worker[t].pc \in Active
      /\ worker[t].pc \in Knowing /\ worker[t].pc \notin Reported \cup {"print"}
  BY <1>1 DEF Early, Active, Knowing, Reported, Calling
<1>5. r.pc \notin Answering /\ r.pc \notin {"send", "spin", "print"}
  BY <1>2 DEF Calls, Calling, Answering
<1>6. onTime => r.url = crowd.asks[peer[r.sock]]
  BY <1>2, <1>3, <1>4 DEF Calls, SocketsAreApart, SocketIsOwn
<1>7. \A u \in Nodes \ {t} : worker[u].pc \in Early => r.node # u
  BY <1>2, <1>3 DEF Calls, PageIsFetched
<1>8. r.sock = worker[t].sock
  BY <1>2 DEF Calls
<1> QED
  BY <1>1, <1>2, <1>3, <1>4, <1>5, <1>6, <1>7, <1>8, AnswerMoves

\* A page found in the list has been fetched, by a thread that is done with it.
LEMMA LookupAnswers ==
    ASSUME ProxyInv, AnswerInv, NEW t \in Nodes, Lookup(t)
    PROVE  AnswerInv'
<1> DEFINE p == worker[t].p
<1>0. /\ worker[t].pc = "lookup" /\ worker[t] \in Job /\ ProxyUp /\ page \in [Nodes -> Page]
      /\ SocketsAreApart /\ \A u \in Nodes : PageIsFetched(u)
  BY ThreadIsUp DEF Lookup, ProxyInv, ProxyTypeOK, AnswerInv
<1>1. UNCHANGED <<proxyAcceptor, proxySock, peer, crowd, got, said, onTime>> /\ ProxyUp'
  BY <1>0 DEF Lookup, socketVars, browserVars, proxyHistory, ProxyUp
<1>2. onTime => worker[t].url = crowd.asks[peer[worker[t].sock]]
  BY <1>0 DEF SocketsAreApart, SocketIsOwn, Active, Knowing, Calling
<1>3. \A u \in Nodes \ {t} : worker[u].pc \in Early => worker[t].node # u /\ p # u
  BY <1>0 DEF PageIsFetched, ProxyInv, PagesArePrivate, Private
<1>4. CASE p = NULL /\ worker' = [worker EXCEPT ![t].pc = "fetch"] /\ UNCHANGED page
  <2> DEFINE r == [worker[t] EXCEPT !.pc = "fetch"]
  <2>1. worker' = [worker EXCEPT ![t] = r]
    BY <1>4
  <2>2. r \in Job /\ r.pc = "fetch" /\ r.node = worker[t].node /\ r.sock = worker[t].sock /\ r.url = worker[t].url
    BY <1>0 DEF Job, Early, Calling
  <2> HIDE DEF r, p
  <2>3. \A n \in Nodes : /\ page'[n].request_url = page[n].request_url
                         /\ page[n].cache_status = 1 => page'[n].cache_status = 1
    BY <1>4
  <2>4. /\ r.pc \in Early => worker[t].pc \in Early
        /\ worker[t].pc \notin Reported \cup {"print"} /\ worker[t].pc \in Active
        /\ r.pc \notin Answering /\ r.pc \notin {"send", "spin", "print"}
    BY <1>0, <2>2 DEF Answering, Reported, Early, Active, Calling
  <2>5. onTime => r.url = crowd.asks[peer[r.sock]]
    BY <1>2, <2>2
  <2>6. \A u \in Nodes \ {t} : worker[u].pc \in Early => r.node # u
    BY <1>3, <2>2
  <2> QED
    BY <1>0, <1>1, <2>1, <2>2, <2>3, <2>4, <2>5, <2>6, AnswerMoves
<1>5. CASE /\ p # NULL
           /\ page[p].request_url = worker[t].url
           /\ page' = [page EXCEPT ![p].cache_status = 1]
           /\ worker' = [worker EXCEPT ![t].pc = "send", ![t].node = p]
  <2> DEFINE r == [worker[t] EXCEPT !.pc = "send", !.node = p]
  <2>1. worker' = [worker EXCEPT ![t] = r]
    BY <1>5
  <2>2. r \in Job /\ r.pc = "send" /\ r.node = p /\ r.sock = worker[t].sock /\ r.url = worker[t].url
    BY <1>0 DEF Job, Late
  <2>3. p \in Nodes
    BY <1>0, <1>5 DEF Job, MaybeNode
  <2>4. page'[p].cache_status = 1
        /\ \A n \in Nodes : /\ page'[n].request_url = page[n].request_url
                            /\ page[n].cache_status = 1 => page'[n].cache_status = 1
    <3> DEFINE hit == [page[p] EXCEPT !.cache_status = 1]
    <3>1. hit.request_url = page[p].request_url /\ hit.cache_status = 1 /\ page' = [page EXCEPT ![p] = hit]
      BY <1>0, <1>5, <2>3 DEF Page
    <3> HIDE DEF hit, p
    <3> QED
      BY <1>0, <2>3, <3>1
  <2>5. page[r.node].request_url = r.url
    BY <1>5, <2>2
  <2> HIDE DEF r, p
  <2>6. /\ r.pc \notin Early
        /\ worker[t].pc \notin Reported \cup {"print"} /\ worker[t].pc \in Active
    BY <1>0, <2>2 DEF Reported, Early, Active, Calling
  <2>7. onTime => r.url = crowd.asks[peer[r.sock]]
    BY <1>2, <2>2
  <2>8. \A u \in Nodes \ {t} : worker[u].pc \in Early => r.node # u
    BY <1>3, <2>2
  <2>9. page'[r.node].cache_status = 1 /\ r.node \in Nodes
    BY <2>2, <2>3, <2>4
  <2> QED
    BY <1>0, <1>1, <2>1, <2>2, <2>4, <2>5, <2>6, <2>7, <2>8, <2>9, AnswerMoves
<1>6. CASE p # NULL /\ worker' = [worker EXCEPT ![t].p = page[p].next] /\ UNCHANGED page
  <2> DEFINE r == [worker[t] EXCEPT !.p = page[p].next]
  <2>1. worker' = [worker EXCEPT ![t] = r]
    BY <1>6
  <2>2. p \in Nodes /\ page[p].next \in MaybeNode
    BY <1>0, <1>6 DEF Job, MaybeNode, Page
  <2>3. r \in Job /\ r.pc = "lookup" /\ r.node = worker[t].node /\ r.sock = worker[t].sock /\ r.url = worker[t].url
    BY <1>0, <2>2 DEF Job
  <2> HIDE DEF r, p
  <2>4. \A n \in Nodes : /\ page'[n].request_url = page[n].request_url
                         /\ page[n].cache_status = 1 => page'[n].cache_status = 1
    BY <1>6
  <2>5. /\ r.pc \in Early => worker[t].pc \in Early
        /\ worker[t].pc \notin Reported \cup {"print"} /\ worker[t].pc \in Active
        /\ r.pc \notin Answering /\ r.pc \notin {"send", "spin", "print"}
    BY <1>0, <2>3 DEF Answering, Reported, Early, Active, Calling
  <2>6. onTime => r.url = crowd.asks[peer[r.sock]]
    BY <1>2, <2>3
  <2>7. \A u \in Nodes \ {t} : worker[u].pc \in Early => r.node # u
    BY <1>3, <2>3
  <2> QED
    BY <1>0, <1>1, <2>1, <2>3, <2>4, <2>5, <2>6, <2>7, AnswerMoves
<1> QED
  BY <1>4, <1>5, <1>6 DEF Lookup

\* Nobody holds, or has been sent, the page that a thread fetches.
LEMMA FetchAnswers ==
    ASSUME ProxyInv, AnswerInv, NEW t \in Nodes, Fetch(t)
    PROVE  AnswerInv'
<1> DEFINE r == [worker[t] EXCEPT !.pc = "append", !.node = t]
           fresh == init_node(worker[t].url, worker[t].host)
<1>0. /\ worker[t].pc = "sizing" /\ worker[t] \in Job /\ ProxyUp /\ page \in [Nodes -> Page]
      /\ worker \in [Nodes -> Job] /\ AnswerTypeOK /\ UrlsAreRight
      /\ SocketsAreApart /\ \A u \in Nodes : PageIsFetched(u)
  BY ThreadIsUp DEF Fetch, ProxyInv, ProxyTypeOK, AnswerInv
<1>1. worker' = [worker EXCEPT ![t] = r] /\ page' = [page EXCEPT ![t] = fresh]
  BY DEF Fetch
<1>2. /\ r.pc = "append" /\ r.node = t /\ r.url = worker[t].url /\ r.sock = worker[t].sock
      /\ fresh.request_url = worker[t].url
  BY <1>0 DEF Job, init_node
<1> HIDE DEF r, fresh
<1>3. worker'[t] = r /\ \A u \in Nodes \ {t} : worker'[u] = worker[u]
  BY <1>0, <1>1
<1>4. page'[t] = fresh /\ \A n \in Nodes \ {t} : page'[n] = page[n]
  BY <1>0, <1>1
<1>5. UNCHANGED <<proxyAcceptor, proxySock, peer, crowd, got, said, onTime>> /\ ProxyUp'
  BY <1>0 DEF Fetch, socketVars, browserVars, proxyHistory, ProxyUp
<1>6. (\A u \in Nodes \ {t} : worker[u].node # t) /\ \A b \in Browsers : t \notin got[b]
  BY <1>0 DEF PageIsFetched, Early, Calling
<1>7. AnswerTypeOK' /\ NothingBefore'
  BY <1>0, <1>5 DEF AnswerTypeOK, AnswerInv, NothingBefore
<1>8. PageIsFetched(t)'
  BY <1>0, <1>2, <1>3, <1>4, <1>5, <1>6 DEF PageIsFetched, Reported
<1>9. ASSUME NEW u \in Nodes \ {t} PROVE PageIsFetched(u)'
  BY <1>0, <1>2, <1>3, <1>4, <1>5, <1>6 DEF PageIsFetched, Answering
<1>10. SocketsAreApart'
  <2> SUFFICES ASSUME onTime PROVE SocketsAreApart'
    BY <1>5 DEF SocketsAreApart
  <2>1. \A u \in Nodes : SocketIsOwn(u)'
    BY <1>0, <1>2, <1>3, <1>5 DEF SocketsAreApart, SocketIsOwn, Active, Knowing, Calling
  <2>2. AcceptedIsApart'
    BY <1>0, <1>2, <1>3, <1>5 DEF SocketsAreApart, AcceptedIsApart, Active, Calling
  <2> QED
    BY <2>1, <2>2 DEF SocketsAreApart
<1>11. UrlsAreRight'
  <2>1. \A b \in Browsers : \A n \in got[b] : n \in Nodes \ {t}
    BY <1>0, <1>6 DEF AnswerTypeOK
  <2>2. said[t] # "CACHE_MISS"
    BY <1>0 DEF PageIsFetched, Reported
  <2> QED
    BY <1>0, <1>3, <1>4, <1>5, <2>1, <2>2 DEF UrlsAreRight
<1> QED
  BY <1>5, <1>7, <1>8, <1>9, <1>10, <1>11 DEF AnswerInv

\* The steps that append the page, and those after the answer.
LEMMA ThreadAnswers ==
    ASSUME ProxyInv, AnswerInv, NEW t \in Nodes,
           AppendHead(t) \/ AppendWalk(t) \/ AppendLink(t) \/ Final(t)
    PROVE  AnswerInv'
<1>0. /\ worker[t].pc \in {"append", "walk", "link", "final"} /\ worker[t] \in Job
      /\ ProxyUp /\ page \in [Nodes -> Page] /\ cache_list \in MaybeNode /\ SocketsAreApart
      /\ worker[t].pc \in {"append", "walk", "link"} => worker[t].node = t
      /\ worker[t].pc = "link" => worker[t].p \in Nodes
      /\ \A u \in Nodes : PageIsFetched(u)
  BY ThreadIsUp DEF AppendHead, AppendWalk, AppendLink, Final, ProxyInv, ProxyTypeOK,
                    AnswerInv, PagesArePrivate
<1>1. UNCHANGED <<proxyAcceptor, proxySock, peer, crowd, got, said, onTime>> /\ ProxyUp'
  BY <1>0 DEF AppendHead, AppendWalk, AppendLink, Final, socketVars, browserVars,
              proxyHistory, ProxyUp
<1>2. \A n \in Nodes : /\ page'[n].request_url = page[n].request_url
                       /\ page[n].cache_status = 1 => page'[n].cache_status = 1
  <2>1. CASE UNCHANGED page
    BY <2>1
  <2>2. CASE worker[t].pc = "link" /\ page' = [page EXCEPT ![worker[t].p].next = worker[t].node]
    <3> DEFINE p == worker[t].p
               grown == [page[p] EXCEPT !.next = worker[t].node]
    <3>1. grown.request_url = page[p].request_url /\ grown.cache_status = page[p].cache_status
          /\ page' = [page EXCEPT ![p] = grown] /\ p \in Nodes
      BY <1>0, <2>2 DEF Page
    <3> HIDE DEF grown, p
    <3> QED
      BY <1>0, <3>1
  <2> QED
    BY <2>1, <2>2 DEF AppendHead, AppendWalk, AppendLink, Final, cacheVars
<1> DEFINE Stays(r) == r.node = worker[t].node /\ r.sock = worker[t].sock /\ r.url = worker[t].url
<1>3. PICK r \in Job : /\ worker' = [worker EXCEPT ![t] = r] /\ Stays(r)
                      /\ \/ worker[t].pc \in {"append", "walk", "link"} /\ r.pc \in {"walk", "link", "send"}
                         \/ worker[t].pc = "final" /\ r.pc = "close"
  <2>0. worker[t] \in Job /\ cache_list \in MaybeNode
    BY <1>0
  <2>1. CASE AppendHead(t)
    <3> DEFINE r == [worker[t] EXCEPT !.pc = "walk", !.p = cache_list]
    <3>1. worker' = [worker EXCEPT ![t] = r]
      BY <2>1 DEF AppendHead
    <3>2. r \in Job
      BY <1>0, <2>0 DEF Job, Early, Late
    <3>3. Stays(r) /\ worker[t].pc = "append" /\ r.pc = "walk"
      BY <1>0, <2>1 DEF Job, AppendHead
    <3> HIDE DEF r
    <3> QED
      BY <3>1, <3>2, <3>3
  <2>2. CASE worker[t].pc = "walk" /\ worker[t].p # NULL /\ worker' = [worker EXCEPT ![t].p = page[worker[t].p].next]
    <3> DEFINE r == [worker[t] EXCEPT !.p = page[worker[t].p].next]
    <3>1. worker' = [worker EXCEPT ![t] = r]
      BY <2>2
    <3>2. page[worker[t].p].next \in MaybeNode
      BY <1>0, <2>2 DEF Job, MaybeNode, Page
    <3>3. r \in Job
      BY <2>0, <3>2 DEF Job
    <3>4. Stays(r) /\ r.pc = "walk"
      BY <1>0, <2>2 DEF Job
    <3> HIDE DEF r
    <3> QED
      BY <2>2, <3>1, <3>3, <3>4
  <2>3. CASE worker[t].pc = "walk" /\ worker' = [worker EXCEPT ![t].pc = "link"]
    <3> DEFINE r == [worker[t] EXCEPT !.pc = "link"]
    <3>1. worker' = [worker EXCEPT ![t] = r]
      BY <2>3
    <3>2. r \in Job /\ Stays(r) /\ r.pc = "link"
      BY <1>0 DEF Job, Early
    <3> HIDE DEF r
    <3> QED
      BY <2>3, <3>1, <3>2
  <2>4. CASE AppendLink(t)
    <3> DEFINE r == [worker[t] EXCEPT !.pc = "send"]
    <3>1. worker' = [worker EXCEPT ![t] = r] /\ worker[t].pc \in {"walk", "link"}
      BY <2>4 DEF AppendLink
    <3>2. r \in Job /\ Stays(r) /\ r.pc = "send"
      BY <1>0 DEF Job, Late
    <3> HIDE DEF r
    <3> QED
      BY <3>1, <3>2
  <2>5. CASE Final(t)
    <3> DEFINE r == [worker[t] EXCEPT !.pc = "close"]
    <3>1. worker' = [worker EXCEPT ![t] = r]
      BY <2>5 DEF Final
    <3>2. r \in Job
      BY <1>0, <2>0 DEF Job, Early, Late
    <3>3. Stays(r) /\ worker[t].pc = "final" /\ r.pc = "close"
      BY <1>0, <2>5 DEF Job, Final
    <3> HIDE DEF r
    <3> QED
      BY <3>1, <3>2, <3>3
  <2> QED
    BY <2>1, <2>2, <2>3, <2>4, <2>5 DEF AppendWalk
<1>4. /\ r.node = worker[t].node /\ r.sock = worker[t].sock /\ r.url = worker[t].url
  BY <1>3
<1>5. /\ r.pc \in Early => worker[t].pc \in Early
      /\ worker[t].pc \in Reported \cup {"print"} => r.pc \in Reported /\ r.node = worker[t].node
      /\ worker[t].pc \in Active
  BY <1>0, <1>3, <1>4 DEF Early, Reported, Active, Calling
<1>6. r.pc \in Answering => r.node = t /\ page[r.node].request_url = r.url
  BY <1>0, <1>3, <1>4 DEF PageIsFetched, Answering
<1>7. r.pc \in {"send", "spin", "print"} => r.node = t
  BY <1>6 DEF Answering
<1>8. \A u \in Nodes \ {t} : worker[u].pc \in Early => r.node # u
  BY <1>0, <1>4 DEF PageIsFetched
<1>9. onTime /\ r.pc \in Knowing => r.url = crowd.asks[peer[r.sock]]
  BY <1>0, <1>3, <1>4 DEF SocketsAreApart, SocketIsOwn, Active, Knowing, Calling
<1>10. worker' = [worker EXCEPT ![t] = r] /\ worker[t].pc # "none"
  BY <1>0, <1>3
<1> QED
  BY <1>1, <1>2, <1>4, <1>5, <1>6, <1>7, <1>8, <1>9, <1>10, AnswerMoves

\* The browser that receives the page is the one that asked for it.
LEMMA SendPageAnswers ==
    ASSUME ProxyInv, AnswerInv, NEW t \in Nodes, SendPage(t)
    PROVE  AnswerInv'
<1> DEFINE b == PeerOf(worker[t].sock)
<1>0. /\ worker[t].pc = "send" /\ worker[t] \in Job /\ ProxyUp /\ worker \in [Nodes -> Job]
      /\ AnswerTypeOK /\ UrlsAreRight /\ SocketsAreApart
      /\ \A u \in Nodes : PageIsFetched(u)
  BY ThreadIsUp DEF SendPage, ProxyInv, ProxyTypeOK, AnswerInv
<1>1. UNCHANGED <<proxyAcceptor, proxySock, peer, crowd, page, said, onTime>> /\ ProxyUp'
  BY <1>0 DEF SendPage, socketVars, browserVars, cacheVars, ProxyUp
<1>2. ASSUME NEW pc \in {"print", "spin"}, worker' = [worker EXCEPT ![t].pc = pc]
      PROVE  \E r \in Job : /\ worker' = [worker EXCEPT ![t] = r]
                            /\ r.pc = pc /\ r.node = worker[t].node /\ r.sock = worker[t].sock
                            /\ r.url = worker[t].url
  <2> DEFINE r == [worker[t] EXCEPT !.pc = pc]
  <2>1. worker' = [worker EXCEPT ![t] = r]
    BY <1>2
  <2>2. r \in Job /\ r.pc = pc /\ r.node = worker[t].node /\ r.sock = worker[t].sock /\ r.url = worker[t].url
    BY <1>0 DEF Job, Late
  <2> QED
    BY <2>1, <2>2
<1>3. /\ worker[t].node \in Nodes /\ page[worker[t].node].request_url = worker[t].url
      /\ worker[t].node # t => page[worker[t].node].cache_status = 1
      /\ \A u \in Nodes \ {t} : worker[u].pc \in Early => worker[t].node # u
  BY <1>0 DEF PageIsFetched, Answering
<1>4. CASE worker' = [worker EXCEPT ![t].pc = "spin"] /\ UNCHANGED got
  <2>1. PICK r \in Job : /\ worker' = [worker EXCEPT ![t] = r]
                         /\ r.pc = "spin" /\ r.node = worker[t].node /\ r.sock = worker[t].sock
                         /\ r.url = worker[t].url
    BY <1>2, <1>4
  <2>2. r.pc \notin Early /\ r.pc \notin Knowing /\ worker[t].pc \notin Reported \cup {"print"}
        /\ worker[t].pc \in Active
    BY <1>0, <2>1 DEF Early, Knowing, Reported, Active, Calling
  <2>3. UNCHANGED <<proxyAcceptor, proxySock, peer, crowd, got, said, onTime>>
    BY <1>1, <1>4
  <2>4. \A n \in Nodes : /\ page'[n].request_url = page[n].request_url
                         /\ page[n].cache_status = 1 => page'[n].cache_status = 1
    BY <1>1
  <2>5. /\ r.node \in Nodes /\ page[r.node].request_url = r.url
        /\ r.node # t => page'[r.node].cache_status = 1
        /\ \A u \in Nodes \ {t} : worker[u].pc \in Early => r.node # u
    BY <1>1, <1>3, <2>1
  <2> QED
    BY <1>0, <1>1, <2>1, <2>2, <2>3, <2>4, <2>5, AnswerMoves
<1>5. CASE /\ b # NoBrowser
           /\ got' = [got EXCEPT ![b] = @ \cup {worker[t].node}]
           /\ worker' = [worker EXCEPT ![t].pc = "print"]
  <2>1. PICK r \in Job : /\ worker' = [worker EXCEPT ![t] = r]
                         /\ r.pc = "print" /\ r.node = worker[t].node /\ r.sock = worker[t].sock
                         /\ r.url = worker[t].url
    BY <1>2, <1>5
  <2>2. worker'[t] = r /\ \A u \in Nodes \ {t} : worker'[u] = worker[u]
    BY <1>0, <2>1
  <2>3. b \in Browsers
    BY <1>0, <1>5 DEF PeerOf, AnswerTypeOK
  <2>4. /\ got' \in [Browsers -> SUBSET Nodes]
        /\ got'[b] = got[b] \cup {worker[t].node}
        /\ \A a \in Browsers \ {b} : got'[a] = got[a]
    BY <1>0, <1>3, <1>5, <2>3 DEF AnswerTypeOK
  <2> HIDE DEF b
  <2>5. AnswerTypeOK' /\ NothingBefore'
    BY <1>0, <1>1, <2>4 DEF AnswerTypeOK, AnswerInv, NothingBefore
  <2>6. PageIsFetched(t)'
    BY <1>0, <1>1, <1>3, <2>1, <2>2 DEF PageIsFetched, Early, Reported, Calling
  <2>7. ASSUME NEW u \in Nodes \ {t} PROVE PageIsFetched(u)'
    <3>1. worker[u].pc \in Early => \A a \in Browsers : u \notin got'[a]
      BY <1>0, <1>3, <2>4 DEF PageIsFetched
    <3> QED
      BY <1>0, <1>1, <2>1, <2>2, <3>1 DEF PageIsFetched
  <2>8. SocketsAreApart'
    <3> SUFFICES ASSUME onTime PROVE SocketsAreApart'
      BY <1>1 DEF SocketsAreApart
    <3>1. \A u \in Nodes : SocketIsOwn(u)'
      BY <1>0, <1>1, <2>1, <2>2 DEF SocketsAreApart, SocketIsOwn, Active, Knowing, Calling
    <3>2. AcceptedIsApart'
      BY <1>0, <1>1, <2>1, <2>2 DEF SocketsAreApart, AcceptedIsApart, Active, Calling
    <3> QED
      BY <3>1, <3>2 DEF SocketsAreApart
  <2>9. UrlsAreRight'
    <3>1. ASSUME onTime, NEW a \in Browsers, NEW n \in got'[a]
          PROVE  page[n].request_url = crowd.asks[a]
      <4>1. CASE n \in got[a]
        BY <1>0, <3>1, <4>1 DEF UrlsAreRight
      <4>2. CASE n \notin got[a]
        <5>1. a = b /\ n = worker[t].node
          BY <2>4, <4>2
        <5>2. worker[t].url = crowd.asks[peer[worker[t].sock]] /\ worker[t].sock \in Sockets
          BY <1>0, <3>1 DEF SocketsAreApart, SocketIsOwn, Active, Knowing, Calling
        <5> QED
          BY <1>3, <5>1, <5>2 DEF PeerOf, b
      <4> QED
        BY <4>1, <4>2
    <3> QED
      BY <1>0, <1>1, <2>1, <2>2, <3>1 DEF UrlsAreRight
  <2> QED
    BY <1>1, <2>5, <2>6, <2>7, <2>8, <2>9 DEF AnswerInv
<1> QED
  BY <1>4, <1>5 DEF SendPage

LEMMA PrintLineAnswers ==
    ASSUME ProxyInv, AnswerInv, NEW t \in Nodes, PrintLine(t)
    PROVE  AnswerInv'
<1> DEFINE r == [worker[t] EXCEPT !.pc = "final"]
<1>0. /\ worker[t].pc = "print" /\ worker[t] \in Job /\ ProxyUp /\ worker \in [Nodes -> Job]
      /\ AnswerTypeOK /\ UrlsAreRight /\ SocketsAreApart
      /\ \A u \in Nodes : PageIsFetched(u)
  BY ThreadIsUp DEF PrintLine, ProxyInv, ProxyTypeOK, AnswerInv
<1>1. UNCHANGED <<proxyAcceptor, proxySock, peer, crowd, page, got, onTime>> /\ ProxyUp'
  BY <1>0 DEF PrintLine, socketVars, browserVars, cacheVars, ProxyUp
<1>2. /\ DOMAIN said' = Nodes /\ \A u \in Nodes \ {t} : said'[u] = said[u]
      /\ said'[t] = "CACHE_MISS" => page[worker[t].node].cache_status = 0
  BY <1>0 DEF PrintLine, AnswerTypeOK
<1>3. worker' = [worker EXCEPT ![t] = r] /\ r.pc = "final" /\ r.node = worker[t].node /\ r.sock = worker[t].sock
  BY <1>0 DEF PrintLine, Job
<1> HIDE DEF r
<1>4. worker'[t] = r /\ \A u \in Nodes \ {t} : worker'[u] = worker[u]
  BY <1>0, <1>3
<1>5. AnswerTypeOK' /\ NothingBefore'
  BY <1>0, <1>1, <1>2 DEF AnswerTypeOK, AnswerInv, NothingBefore
<1>6. PageIsFetched(t)'
  BY <1>3, <1>4 DEF PageIsFetched, Answering, Early, Reported, Calling
<1>7. ASSUME NEW u \in Nodes \ {t} PROVE PageIsFetched(u)'
  BY <1>0, <1>1, <1>2, <1>3, <1>4 DEF PageIsFetched
<1>8. SocketsAreApart'
  <2> SUFFICES ASSUME onTime PROVE SocketsAreApart'
    BY <1>1 DEF SocketsAreApart
  <2>1. \A u \in Nodes : SocketIsOwn(u)'
    BY <1>0, <1>1, <1>3, <1>4 DEF SocketsAreApart, SocketIsOwn, Active, Knowing, Calling
  <2>2. AcceptedIsApart'
    BY <1>0, <1>1, <1>3, <1>4 DEF SocketsAreApart, AcceptedIsApart, Active, Calling
  <2> QED
    BY <2>1, <2>2 DEF SocketsAreApart
<1>9. UrlsAreRight'
  <2>1. said'[t] = "CACHE_MISS" => worker[t].node = t
    BY <1>0, <1>2 DEF PageIsFetched
  <2> QED
    BY <1>0, <1>1, <1>2, <1>3, <1>4, <2>1 DEF UrlsAreRight
<1> QED
  BY <1>1, <1>5, <1>6, <1>7, <1>8, <1>9 DEF AnswerInv

\* The socket that a thread closes is nobody else's.
LEMMA HangupAnswers ==
    ASSUME ProxyInv, AnswerInv, NEW t \in Nodes, Hangup(t)
    PROVE  AnswerInv'
<1> DEFINE r == [worker[t] EXCEPT !.pc = "done"]
<1>0. /\ worker[t].pc = "close" /\ worker[t] \in Job /\ ProxyUp /\ worker \in [Nodes -> Job]
      /\ AnswerTypeOK /\ UrlsAreRight /\ SocketsAreApart
      /\ \A u \in Nodes : PageIsFetched(u)
  BY ThreadIsUp DEF Hangup, ProxyInv, ProxyTypeOK, AnswerInv
<1>1. UNCHANGED <<proxyAcceptor, proxySock, crowd, page, got, said, onTime>> /\ ProxyUp'
  BY <1>0 DEF Hangup, browserVars, cacheVars, proxyHistory, ProxyUp
<1>2. /\ peer' \in [Sockets -> Browsers \cup {NoBrowser}]
      /\ \A s \in Sockets \ {worker[t].sock} : peer'[s] = peer[s]
  BY <1>0 DEF Hangup, AnswerTypeOK
<1>3. worker' = [worker EXCEPT ![t] = r] /\ r.pc = "done" /\ r.node = worker[t].node
  BY <1>0 DEF Hangup, Job
<1> HIDE DEF r
<1>4. worker'[t] = r /\ \A u \in Nodes \ {t} : worker'[u] = worker[u]
  BY <1>0, <1>3
<1>5. AnswerTypeOK' /\ NothingBefore'
  BY <1>0, <1>1, <1>2 DEF AnswerTypeOK, AnswerInv, NothingBefore
<1>6. PageIsFetched(t)'
  BY <1>3, <1>4 DEF PageIsFetched, Answering, Early, Reported, Calling
<1>7. ASSUME NEW u \in Nodes \ {t} PROVE PageIsFetched(u)'
  BY <1>0, <1>1, <1>3, <1>4 DEF PageIsFetched
<1>8. SocketsAreApart'
  <2> SUFFICES ASSUME onTime PROVE SocketsAreApart'
    BY <1>1 DEF SocketsAreApart
  <2>1. \A u \in Nodes \ {t} : worker[u].pc \in Active => worker[u].sock \in Sockets \ {worker[t].sock}
    BY <1>0 DEF SocketsAreApart, SocketIsOwn, Active, Calling
  <2>2. proxyAcceptor \in {"add", "create"} => proxySock \in Sockets \ {worker[t].sock}
    BY <1>0 DEF SocketsAreApart, AcceptedIsApart, Active, Calling
  <2>3. \A u \in Nodes \ {t} : SocketIsOwn(u)'
    BY <1>0, <1>1, <1>2, <1>3, <1>4, <2>1 DEF SocketsAreApart, SocketIsOwn, Active, Calling
  <2>4. SocketIsOwn(t)'
    BY <1>3, <1>4 DEF SocketIsOwn, Active, Calling
  <2>5. AcceptedIsApart'
    BY <1>0, <1>1, <1>2, <1>3, <1>4, <2>2 DEF SocketsAreApart, AcceptedIsApart, Active, Calling
  <2> QED
    BY <2>3, <2>4, <2>5 DEF SocketsAreApart
<1>9. UrlsAreRight'
  BY <1>0, <1>1, <1>3, <1>4 DEF UrlsAreRight
<1> QED
  BY <1>1, <1>5, <1>6, <1>7, <1>8, <1>9 DEF AnswerInv

\* A step of the acceptor that changes no socket.
LEMMA AcceptorAnswers ==
    ASSUME AnswerInv, ProxyUp, ProxyUp', proxyAcceptor' # "start",
           proxyAcceptor' \in {"add", "create"} => proxyAcceptor \in {"add", "create"} /\ proxySock' = proxySock,
           crowd' = crowd \/ proxyAcceptor = "start",
           UNCHANGED <<worker, peer, page, got, said, onTime>>
    PROVE  AnswerInv'
<1>0. /\ AnswerTypeOK /\ UrlsAreRight /\ SocketsAreApart
      /\ \A u \in Nodes : PageIsFetched(u)
  BY DEF AnswerInv
<1>1. CASE crowd' = crowd
  <2>1. AnswerTypeOK' /\ NothingBefore'
    BY <1>0 DEF AnswerTypeOK, NothingBefore
  <2>2. \A u \in Nodes : PageIsFetched(u)'
    BY <1>0 DEF PageIsFetched
  <2>3. SocketsAreApart'
    BY <1>0, <1>1 DEF SocketsAreApart, AcceptedIsApart, SocketIsOwn
  <2>4. UrlsAreRight'
    BY <1>0, <1>1 DEF UrlsAreRight
  <2> QED
    BY <2>1, <2>2, <2>3, <2>4 DEF AnswerInv
<1>2. CASE proxyAcceptor = "start"
  <2>1. (\A u \in Nodes : worker[u].pc = "none") /\ \A b \in Browsers : got[b] = {}
    BY <1>2 DEF AnswerInv, NothingBefore
  <2>2. AnswerTypeOK' /\ NothingBefore'
    BY <1>0 DEF AnswerTypeOK, NothingBefore
  <2>3. \A u \in Nodes : PageIsFetched(u)'
    BY <1>0 DEF PageIsFetched
  <2>4. SocketsAreApart'
    BY <1>2, <2>1 DEF SocketsAreApart, AcceptedIsApart, SocketIsOwn, Active, Calling
  <2>5. UrlsAreRight'
    BY <1>0, <2>1 DEF UrlsAreRight
  <2> QED
    BY <2>2, <2>3, <2>4, <2>5 DEF AnswerInv
<1> QED
  BY <1>1, <1>2

LEMMA EndAnswers ==
    ASSUME AnswerInv, ProxyEnds, UNCHANGED <<peer, crowd, page, got, said, onTime>>
    PROVE  AnswerInv'
<1>1. AnswerTypeOK' /\ NothingBefore' /\ ~ProxyUp'
  BY DEF AnswerInv, AnswerTypeOK, NothingBefore, ProxyEnds, ProxyUp
<1>2. \A t \in Nodes : worker'[t].node = NULL
  BY DEF ProxyEnds, NoWorker
<1>3. UrlsAreRight'
  BY <1>2 DEF AnswerInv, UrlsAreRight
<1> QED
  BY <1>1, <1>3 DEF AnswerInv

\* accept returns a descriptor that no thread still has.
LEMMA AcceptAnswers ==
    ASSUME ProxyInv, AnswerInv, NEW b \in Browsers, ProxyAccept(b)
    PROVE  AnswerInv'
<1>0. PICK fd \in Sockets : peer[fd] = NoBrowser /\ proxySock' = fd /\ peer' = [peer EXCEPT ![fd] = b]
  BY DEF ProxyAccept
<1>1. /\ AnswerTypeOK /\ UrlsAreRight /\ SocketsAreApart /\ ProxyUp'
      /\ \A u \in Nodes : PageIsFetched(u)
  BY DEF AnswerInv, ProxyAccept, ProxyUp
<1>2. UNCHANGED <<worker, crowd, page, got, said, onTime>> /\ proxyAcceptor' = "add"
  BY DEF ProxyAccept, cacheVars, proxyHistory
<1>3. /\ peer' \in [Sockets -> Browsers \cup {NoBrowser}] /\ peer'[fd] # NoBrowser
      /\ \A s \in Sockets \ {fd} : peer'[s] = peer[s]
  BY <1>0, <1>1, ProxyAssumption DEF AnswerTypeOK
<1>4. AnswerTypeOK' /\ NothingBefore'
  BY <1>1, <1>2, <1>3 DEF AnswerTypeOK, NothingBefore
<1>5. \A u \in Nodes : PageIsFetched(u)'
  BY <1>1, <1>2 DEF PageIsFetched
<1>6. SocketsAreApart'
  <2> SUFFICES ASSUME onTime PROVE SocketsAreApart'
    BY <1>2 DEF SocketsAreApart
  <2>1. \A u \in Nodes : worker[u].pc \in Active => worker[u].sock \in Sockets \ {fd}
    BY <1>0, <1>1 DEF SocketsAreApart, SocketIsOwn
  <2>2. \A u \in Nodes : SocketIsOwn(u)'
    BY <1>1, <1>2, <1>3, <2>1 DEF SocketsAreApart, SocketIsOwn
  <2>3. AcceptedIsApart'
    BY <1>0, <1>2, <1>3, <2>1 DEF AcceptedIsApart
  <2> QED
    BY <2>2, <2>3 DEF SocketsAreApart
<1>7. UrlsAreRight'
  BY <1>1, <1>2 DEF UrlsAreRight
<1> QED
  BY <1>1, <1>4, <1>5, <1>6, <1>7 DEF AnswerInv

LEMMA CreateAnswers ==
    ASSUME ProxyInv, AnswerInv, NEW t \in Nodes, ProxyCreate(t)
    PROVE  AnswerInv'
<1> DEFINE r == [NoWorker EXCEPT !.pc = "start", !.sock = proxySock]
<1>0. /\ worker \in [Nodes -> Job] /\ worker[t].pc = "none" /\ ProxyUp /\ ProxyUp'
      /\ AnswerTypeOK /\ UrlsAreRight /\ SocketsAreApart
      /\ \A u \in Nodes : PageIsFetched(u)
  BY DEF ProxyCreate, ProxyUp, AnswerInv, ProxyInv, ProxyTypeOK
<1>1. /\ UNCHANGED <<proxySock, peer, crowd, page, got, said, onTime>>
      /\ proxyAcceptor = "create" /\ proxyAcceptor' = "accept"
  BY DEF ProxyCreate, browserVars, cacheVars, proxyHistory
<1>2. worker' = [worker EXCEPT ![t] = r] /\ r.pc = "start" /\ r.sock = proxySock /\ r.node = NULL
  BY DEF ProxyCreate, NoWorker
<1> HIDE DEF r
<1>3. worker'[t] = r /\ \A u \in Nodes \ {t} : worker'[u] = worker[u]
  BY <1>0, <1>2
<1>4. AnswerTypeOK' /\ NothingBefore'
  BY <1>0, <1>1 DEF AnswerTypeOK, NothingBefore
<1>5. PageIsFetched(t)'
  BY <1>0, <1>1, <1>2, <1>3 DEF PageIsFetched, Answering, Early, Reported, Calling
<1>6. ASSUME NEW u \in Nodes \ {t} PROVE PageIsFetched(u)'
  BY <1>0, <1>1, <1>2, <1>3, NullIsNoNode DEF PageIsFetched
<1>7. SocketsAreApart'
  <2> SUFFICES ASSUME onTime PROVE SocketsAreApart'
    BY <1>1 DEF SocketsAreApart
  <2>1. /\ proxySock \in Sockets /\ peer[proxySock] # NoBrowser
        /\ \A u \in Nodes : worker[u].pc \in Active => worker[u].sock # proxySock
    BY <1>0, <1>1 DEF SocketsAreApart, AcceptedIsApart
  <2>2. SocketIsOwn(t)'
    BY <1>1, <1>2, <1>3, <2>1 DEF SocketIsOwn, Active, Knowing, Calling
  <2>3. ASSUME NEW u \in Nodes \ {t} PROVE SocketIsOwn(u)'
    BY <1>0, <1>1, <1>2, <1>3, <2>1 DEF SocketsAreApart, SocketIsOwn
  <2>4. AcceptedIsApart'
    BY <1>1 DEF AcceptedIsApart
  <2> QED
    BY <2>2, <2>3, <2>4 DEF SocketsAreApart
<1>8. UrlsAreRight'
  BY <1>0, <1>1, <1>2, <1>3 DEF UrlsAreRight
<1> QED
  BY <1>0, <1>4, <1>5, <1>6, <1>7, <1>8 DEF AnswerInv

LEMMA StepAnswers == ProxyInv /\ AnswerInv /\ [ProxyNext]_proxyVars => AnswerInv'
<1> SUFFICES ASSUME ProxyInv, AnswerInv, [ProxyNext]_proxyVars PROVE AnswerInv'
  OBVIOUS
<1>1. CASE UNCHANGED proxyVars
  <2>1. UNCHANGED <<proxyAcceptor, proxySock, peer, crowd, worker, page, got, said, onTime>>
    BY <1>1 DEF proxyVars, socketVars, browserVars, cacheVars, proxyHistory
  <2> QED
    BY <2>1 DEF AnswerInv, AnswerTypeOK, NothingBefore, PageIsFetched, SocketsAreApart, SocketIsOwn,
                AcceptedIsApart, UrlsAreRight, ProxyUp
<1>2. CASE ProxyStart \/ ProxyAcceptFails \/ ProxyAdd
  BY <1>2, AcceptorAnswers DEF ProxyStart, ProxyAcceptFails, ProxyAdd, ProxyUp, browserVars, cacheVars, proxyHistory
<1>3. CASE ProxyStartFails \/ ProxyCreateFails
  BY <1>3, EndAnswers DEF ProxyStartFails, ProxyCreateFails, browserVars, cacheVars, proxyHistory
<1>4. ASSUME NEW b \in Browsers, Leave(b) PROVE AnswerInv'
  <2>1. UNCHANGED <<proxyAcceptor, proxySock, peer, crowd, worker, page, got, said, onTime>>
    BY <1>4 DEF Leave, socketVars, cacheVars, proxyHistory
  <2> QED
    BY <2>1 DEF AnswerInv, AnswerTypeOK, NothingBefore, PageIsFetched, SocketsAreApart, SocketIsOwn,
                AcceptedIsApart, UrlsAreRight, ProxyUp
<1>5. ASSUME NEW t \in Nodes, ParseCrashes(t) \/ FetchCrashes(t) PROVE AnswerInv'
  BY <1>5, EndAnswers DEF ParseCrashes, FetchCrashes, browserVars, cacheVars, proxyHistory
<1>6. ASSUME NEW t \in Nodes, SizeNext(t) PROVE AnswerInv'
  <2>1. UNCHANGED <<proxyAcceptor, proxySock, peer, crowd, worker, page, got, said, onTime>>
    BY <1>6 DEF SizeNext, socketVars, browserVars, cacheVars, proxyHistory
  <2> QED
    BY <2>1 DEF AnswerInv, AnswerTypeOK, NothingBefore, PageIsFetched, SocketsAreApart, SocketIsOwn,
                AcceptedIsApart, UrlsAreRight, ProxyUp
<1>7. ASSUME NEW t \in Nodes, ProxyCreate(t) \/ ProxyWorker(t) \/ FetchFails(t) PROVE AnswerInv'
  BY <1>6, <1>7, CreateAnswers, BeginAnswers, ReadRequestAnswers, CallAnswers, LookupAnswers, FetchAnswers,
     ThreadAnswers, SendPageAnswers, PrintLineAnswers, HangupAnswers DEF ProxyWorker, ProxyFetch, CallStep
<1> QED
  BY <1>1, <1>2, <1>3, <1>4, <1>5, <1>6, <1>7, AcceptAnswers DEF ProxyNext

-----------------------------------------------------------------------------
\* The proxy: whose Host line a thread reads, and whose address it connects to.

Strtoks == {"lines", "temp1", "port", "sizing"}
KnowingHost == {"temp1", "port", "lookup", "fetch", "size", "sizing"}

\* Threads that are between two of their calls at the same time have all crossed.
ThreadsMeet ==
    /\ \A t, u \in InStrtok : t # u => t \in crossed
    /\ \A t, u \in InLookup : t # u => t \in crossed

LeftIsRead == strtokLeft # NULL => strtokLeft \in Nodes /\ worker[strtokLeft].pc = "lines"

HostIsOwn(t) ==
    t \notin crossed =>
        /\ worker[t].pc = "lines" /\ worker[t].found # 1 => strtokLeft = NULL /\ worker[t].host = worker[t].url
        /\ worker[t].pc \in KnowingHost \cup {"connect"} => worker[t].host = worker[t].url
        /\ worker[t].pc = "connect" => resolved = worker[t].url

PagesOfTheirHost == \A n \in Nodes \ crossed : page[n].host = page[n].request_url

HostInv == /\ PagesOfTheirHost
           /\ ProxyUp => ThreadsMeet /\ LeftIsRead /\ \A t \in Nodes : HostIsOwn(t)

LEMMA InitHost == ProxyInit => HostInv
<1> SUFFICES ASSUME ProxyInit PROVE HostInv
  OBVIOUS
<1>1. \A t \in Nodes : worker[t].pc = "none"
  BY DEF ProxyInit, NoWorker
<1>2. ThreadsMeet /\ \A t \in Nodes : HostIsOwn(t)
  BY <1>1 DEF ThreadsMeet, InStrtok, InLookup, HostIsOwn, KnowingHost
<1>3. PagesOfTheirHost /\ LeftIsRead
  BY DEF ProxyInit, PagesOfTheirHost, LeftIsRead, init_node
<1> QED
  BY <1>2, <1>3 DEF HostInv

\* A thread that alone is between two calls finds its own lines, or none.
LEMMA AloneInStrtok ==
    ASSUME HostInv, ProxyUp, NEW t \in Nodes, worker[t].pc \in Strtoks, t \notin crossed
    PROVE  /\ \A u \in Nodes \ {t} : worker[u].pc \notin Strtoks
           /\ strtokLeft \in {NULL, t}
           /\ worker[t].pc # "lines" => strtokLeft = NULL
BY DEF HostInv, ThreadsMeet, LeftIsRead, InStrtok, Strtoks

\* A step of one thread: whoever it meets has crossed, and if it has not crossed
\* anybody itself, it still has the host of its own url.
LEMMA HostMoves ==
    ASSUME HostInv, ProxyUp, ProxyUp', NEW t \in Nodes,
           \A u \in Nodes \ {t} : worker'[u] = worker[u],
           PagesOfTheirHost', LeftIsRead', HostIsOwn(t)', crossed \subseteq crossed',
           worker'[t].pc \in Strtoks => worker[t].pc \in Strtoks \/ InStrtok = {} \/ InStrtok \cup {t} \subseteq crossed',
           worker'[t].pc = "connect" => worker[t].pc = "connect" \/ InLookup = {} \/ InLookup \cup {t} \subseteq crossed',
           strtokLeft' = strtokLeft \/ InStrtok \subseteq crossed' \/ worker[t].pc \in Strtoks,
           resolved' = resolved \/ InLookup \subseteq crossed'
    PROVE  HostInv'
<1>1. ThreadsMeet /\ \A u \in Nodes : HostIsOwn(u)
  BY DEF HostInv
<1>2. ASSUME NEW u \in Nodes \ {t}, u \notin crossed' PROVE HostIsOwn(u)'
  <2>1. worker'[u] = worker[u] /\ u \notin crossed /\ HostIsOwn(u)
    BY <1>1, <1>2
  <2>2. worker[u].pc = "lines" => strtokLeft' = strtokLeft
    BY <1>1, <1>2 DEF ThreadsMeet, InStrtok, Strtoks
  <2>3. worker[u].pc = "connect" => resolved' = resolved
    BY <1>2 DEF InLookup
  <2> QED
    BY <2>1, <2>2, <2>3 DEF HostIsOwn
<1>3. ASSUME NEW u \in Nodes, NEW v \in Nodes, u # v,
             worker'[u].pc \in Strtoks, worker'[v].pc \in Strtoks
      PROVE  u \in crossed'
  BY <1>1, <1>3 DEF ThreadsMeet, InStrtok, Strtoks
<1>4. ASSUME NEW u \in Nodes, NEW v \in Nodes, u # v,
             worker'[u].pc = "connect", worker'[v].pc = "connect"
      PROVE  u \in crossed'
  BY <1>1, <1>4 DEF ThreadsMeet, InLookup
<1>5. ThreadsMeet'
  BY <1>3, <1>4 DEF ThreadsMeet, InStrtok, InLookup, Strtoks, Nodes
<1>6. \A u \in Nodes : HostIsOwn(u)'
  BY <1>2 DEF HostIsOwn
<1> QED
  BY <1>5, <1>6 DEF HostInv, Nodes

\* A step of a thread that calls neither strtok nor gethostbyname.
LEMMA QuietMoves ==
    ASSUME HostInv, ProxyUp, ProxyUp', NEW t \in Nodes, UNCHANGED staticVars, PagesOfTheirHost',
           \A u \in Nodes \ {t} : worker'[u] = worker[u],
           worker[t].pc = "lines" => strtokLeft = NULL,
           worker'[t].pc \in KnowingHost /\ t \notin crossed => worker'[t].host = worker'[t].url,
           worker'[t].pc \notin {"lines", "connect"},
           worker'[t].pc \in Strtoks => worker[t].pc \in Strtoks
    PROVE  HostInv'
<1>1. /\ strtokLeft' = strtokLeft /\ resolved' = resolved /\ crossed' = crossed
      /\ LeftIsRead
  BY DEF staticVars, HostInv
<1>2. LeftIsRead'
  BY <1>1, NullIsNoNode DEF LeftIsRead, Nodes
<1>3. HostIsOwn(t)'
  BY <1>1 DEF HostIsOwn
<1> QED
  BY <1>1, <1>2, <1>3, HostMoves

\* Pages that keep their url and their host.
LEMMA SamePages ==
    ASSUME HostInv, crossed \subseteq crossed',
           \A n \in Nodes : page'[n].host = page[n].host /\ page'[n].request_url = page[n].request_url
    PROVE  PagesOfTheirHost'
BY DEF HostInv, PagesOfTheirHost, Nodes

LEMMA ParseHosts ==
    ASSUME ProxyInv, HostInv, NEW t \in Nodes, ProxyParse(t)
    PROVE  HostInv'
<1>0. /\ ProxyUp /\ ProxyUp' /\ worker \in [Nodes -> Job] /\ worker[t] \in Job /\ page' = page
      /\ strtokLeft \in MaybeNode
  <2>1. worker[t].pc # "none" /\ page' = page /\ proxyAcceptor' = proxyAcceptor
    BY DEF ProxyParse, ParseFirst, ParseNext, ParseEnds, ParseHost, ParsePort, cacheVars, socketVars
  <2> QED
    BY <2>1, ThreadIsUp DEF ProxyUp, ProxyInv, ProxyTypeOK, StaticTypeOK
<1>1. HostIsOwn(t) /\ LeftIsRead
  BY <1>0 DEF HostInv
<1>2. crossed \subseteq crossed'
  BY DEF ProxyParse, ParseFirst, ParseNext, ParseEnds, ParseHost, ParsePort, Meets, staticVars
<1>3. PagesOfTheirHost'
  BY <1>0, <1>2, SamePages
<1>4. CASE ParseFirst(t)
  <2>1. /\ worker' = [worker EXCEPT ![t].pc = "lines", ![t].found = 1] /\ worker[t].pc = "parse"
        /\ strtokLeft' \in {NULL, t} /\ resolved' = resolved /\ Meets(t, InStrtok)
    BY <1>4 DEF ParseFirst
  <2>2. worker'[t].pc = "lines" /\ worker'[t].found = 1 /\ \A u \in Nodes \ {t} : worker'[u] = worker[u]
    BY <1>0, <2>1 DEF Job
  <2>3. InStrtok = {} \/ InStrtok \cup {t} \subseteq crossed'
    BY <2>1 DEF Meets
  <2>4. HostIsOwn(t)'
    BY <2>2 DEF HostIsOwn, KnowingHost
  <2>5. LeftIsRead'
    BY <2>1, <2>2 DEF LeftIsRead, Nodes
  <2> QED
    BY <1>0, <1>2, <1>3, <2>1, <2>2, <2>3, <2>4, <2>5, HostMoves
<1>5. CASE ParseNext(t)
  <2>1. /\ worker' = [worker EXCEPT ![t].found = @ + 1, ![t].host = worker[strtokLeft].url]
        /\ worker[t].pc = "lines" /\ strtokLeft # NULL
        /\ strtokLeft' = NULL \/ (t \in crossed /\ strtokLeft' = strtokLeft)
        /\ resolved' = resolved /\ crossed' = crossed
    BY <1>5 DEF ParseNext
  <2>2. /\ worker'[t].pc = "lines" /\ worker'[t].host = worker[strtokLeft].url
        /\ worker'[t].url = worker[t].url
        /\ \A u \in Nodes \ {t} : worker'[u] = worker[u]
    BY <1>0, <2>1 DEF Job
  <2>3. t \notin crossed => strtokLeft = t /\ strtokLeft' = NULL
    BY <1>0, <2>1, AloneInStrtok DEF Strtoks
  <2>4. HostIsOwn(t)'
    BY <2>1, <2>2, <2>3 DEF HostIsOwn, KnowingHost
  <2>5. LeftIsRead'
    BY <1>1, <2>1, <2>2 DEF LeftIsRead, Nodes
  <2>6. worker[t].pc \in Strtoks /\ worker'[t].pc # "connect"
    BY <2>1, <2>2 DEF Strtoks
  <2> QED
    BY <1>0, <1>2, <1>3, <2>1, <2>2, <2>4, <2>5, <2>6, HostMoves
<1>6. CASE ParseEnds(t)
  <2>1. /\ worker' = [worker EXCEPT ![t].pc = IF worker[t].found = 2 THEN "temp1" ELSE "final"]
        /\ worker[t].pc = "lines" /\ strtokLeft = NULL /\ UNCHANGED staticVars
    BY <1>6 DEF ParseEnds
  <2>2. /\ worker'[t].pc \in {"temp1", "final"}
        /\ worker'[t].pc = "temp1" => worker[t].found = 2
        /\ worker'[t].host = worker[t].host /\ worker'[t].url = worker[t].url
        /\ \A u \in Nodes \ {t} : worker'[u] = worker[u]
    BY <1>0, <2>1 DEF Job
  <2>3. worker'[t].pc \in KnowingHost /\ t \notin crossed => worker'[t].host = worker'[t].url
    BY <1>1, <2>1, <2>2 DEF HostIsOwn, KnowingHost
  <2>4. worker[t].pc \in Strtoks /\ worker'[t].pc \notin {"lines", "connect"}
    BY <2>1, <2>2 DEF Strtoks
  <2> QED
    BY <1>0, <1>3, <2>1, <2>2, <2>3, <2>4, QuietMoves
<1>7. CASE ParseHost(t) \/ ParsePort(t)
  <2>1. /\ worker[t].pc \in {"temp1", "port"} /\ strtokLeft' = NULL /\ resolved' = resolved /\ crossed' = crossed
    BY <1>7 DEF ParseHost, ParsePort
  <2>2. /\ worker'[t].pc \in {"port", "lookup"} /\ worker'[t].url = worker[t].url
        /\ strtokLeft = NULL => worker'[t].host = worker[t].host
        /\ \A u \in Nodes \ {t} : worker'[u] = worker[u]
    BY <1>0, <1>7 DEF ParseHost, ParsePort, Job
  <2>3. t \notin crossed => strtokLeft = NULL
    BY <1>0, <2>1, AloneInStrtok DEF Strtoks
  <2>4. HostIsOwn(t)'
    BY <1>1, <2>1, <2>2, <2>3 DEF HostIsOwn, KnowingHost
  <2>5. LeftIsRead'
    BY <2>1 DEF LeftIsRead
  <2>6. worker[t].pc \in Strtoks /\ worker'[t].pc # "connect"
    BY <2>1, <2>2 DEF Strtoks
  <2> QED
    BY <1>0, <1>2, <1>3, <2>1, <2>2, <2>4, <2>5, <2>6, HostMoves
<1> QED
  BY <1>4, <1>5, <1>6, <1>7 DEF ProxyParse

LEMMA FetchHosts ==
    ASSUME ProxyInv, HostInv, NEW t \in Nodes, ProxyFetch(t)
    PROVE  HostInv'
<1>0. /\ ProxyUp /\ ProxyUp' /\ worker \in [Nodes -> Job] /\ worker[t] \in Job /\ page \in [Nodes -> Page]
  <2>1. worker[t].pc # "none" /\ proxyAcceptor' = proxyAcceptor
    BY DEF ProxyFetch, Resolve, HookToServer, SizeFirst, SizeNext, Fetch, socketVars
  <2> QED
    BY <2>1, ThreadIsUp DEF ProxyUp, ProxyInv, ProxyTypeOK
<1>1. HostIsOwn(t) /\ LeftIsRead
  BY <1>0 DEF HostInv
<1>2. crossed \subseteq crossed'
  BY DEF ProxyFetch, Resolve, HookToServer, SizeFirst, SizeNext, Fetch, Meets, staticVars
<1>3. UNCHANGED page => PagesOfTheirHost'
  BY <1>2, SamePages
<1>4. CASE Resolve(t)
  <2>1. /\ worker' = [worker EXCEPT ![t].pc = "connect"] /\ worker[t].pc = "fetch"
        /\ resolved' = worker[t].host /\ strtokLeft' = strtokLeft /\ Meets(t, InLookup) /\ page' = page
    BY <1>4 DEF Resolve, cacheVars
  <2>2. /\ worker'[t].pc = "connect" /\ worker'[t].host = worker[t].host /\ worker'[t].url = worker[t].url
        /\ \A u \in Nodes \ {t} : worker'[u] = worker[u]
    BY <1>0, <2>1 DEF Job
  <2>3. InLookup = {} \/ InLookup \cup {t} \subseteq crossed'
    BY <2>1 DEF Meets
  <2>4. HostIsOwn(t)'
    BY <1>1, <1>2, <2>1, <2>2 DEF HostIsOwn, KnowingHost
  <2>5. LeftIsRead'
    BY <1>1, <2>1, <2>2 DEF LeftIsRead, Nodes
  <2>6. worker'[t].pc \notin Strtoks
    BY <2>2 DEF Strtoks
  <2> QED
    BY <1>0, <1>2, <1>3, <2>1, <2>2, <2>3, <2>4, <2>5, <2>6, HostMoves
<1>5. CASE HookToServer(t)
  <2>1. /\ worker' = [worker EXCEPT ![t].pc = "size", ![t].host = resolved] /\ worker[t].pc = "connect"
        /\ UNCHANGED staticVars /\ page' = page
    BY <1>5 DEF HookToServer, cacheVars
  <2>2. /\ worker'[t].pc = "size" /\ worker'[t].host = resolved /\ worker'[t].url = worker[t].url
        /\ \A u \in Nodes \ {t} : worker'[u] = worker[u]
    BY <1>0, <2>1 DEF Job
  <2>3. t \notin crossed => worker'[t].host = worker'[t].url
    BY <1>1, <2>1, <2>2 DEF HostIsOwn
  <2>4. worker[t].pc # "lines" /\ worker'[t].pc \notin {"lines", "connect"} /\ worker'[t].pc \notin Strtoks
    BY <2>1, <2>2 DEF Strtoks
  <2> QED
    BY <1>0, <1>3, <2>1, <2>2, <2>3, <2>4, QuietMoves
<1>6. CASE SizeFirst(t)
  <2>1. /\ worker' = [worker EXCEPT ![t].pc = "sizing"] /\ worker[t].pc = "size"
        /\ strtokLeft' = NULL /\ resolved' = resolved /\ Meets(t, InStrtok) /\ page' = page
    BY <1>6 DEF SizeFirst, cacheVars
  <2>2. /\ worker'[t].pc = "sizing" /\ worker'[t].host = worker[t].host /\ worker'[t].url = worker[t].url
        /\ \A u \in Nodes \ {t} : worker'[u] = worker[u]
    BY <1>0, <2>1 DEF Job
  <2>3. InStrtok = {} \/ InStrtok \cup {t} \subseteq crossed'
    BY <2>1 DEF Meets
  <2>4. HostIsOwn(t)'
    BY <1>1, <1>2, <2>1, <2>2 DEF HostIsOwn, KnowingHost
  <2>5. LeftIsRead'
    BY <2>1 DEF LeftIsRead
  <2> QED
    BY <1>0, <1>2, <1>3, <2>1, <2>2, <2>3, <2>4, <2>5, HostMoves
<1>7. CASE SizeNext(t)
  <2>1. /\ worker' = worker /\ worker[t].pc = "sizing" /\ page' = page
        /\ strtokLeft' = NULL /\ resolved' = resolved /\ crossed' = crossed
    BY <1>7 DEF SizeNext, cacheVars
  <2>2. HostIsOwn(t)'
    BY <1>1, <2>1 DEF HostIsOwn
  <2>3. LeftIsRead'
    BY <2>1 DEF LeftIsRead
  <2>4. worker[t].pc \in Strtoks
    BY <2>1 DEF Strtoks
  <2> QED
    BY <1>0, <1>2, <1>3, <2>1, <2>2, <2>3, <2>4, HostMoves
<1>8. CASE Fetch(t)
  <2> DEFINE fresh == init_node(worker[t].url, worker[t].host)
  <2>1. /\ worker' = [worker EXCEPT ![t].pc = "append", ![t].node = t] /\ worker[t].pc = "sizing"
        /\ page' = [page EXCEPT ![t] = fresh] /\ UNCHANGED staticVars
    BY <1>8 DEF Fetch
  <2>2. worker'[t].pc = "append" /\ \A u \in Nodes \ {t} : worker'[u] = worker[u]
    BY <1>0, <2>1 DEF Job
  <2>3. fresh.host = worker[t].host /\ fresh.request_url = worker[t].url
    BY DEF init_node
  <2> HIDE DEF fresh
  <2>4. t \notin crossed => worker[t].host = worker[t].url
    BY <1>1, <2>1 DEF HostIsOwn, KnowingHost
  <2>5. crossed' = crossed
    BY <2>1 DEF staticVars
  <2>6. PagesOfTheirHost
    BY DEF HostInv
  <2>7. ASSUME NEW n \in Nodes \ crossed PROVE page'[n].host = page'[n].request_url
    BY <1>0, <2>1, <2>3, <2>4, <2>6 DEF PagesOfTheirHost
  <2>8. PagesOfTheirHost'
    BY <2>5, <2>7 DEF PagesOfTheirHost, Nodes
  <2>9. /\ worker[t].pc # "lines" /\ worker'[t].pc \notin {"lines", "connect"}
        /\ worker'[t].pc \notin Strtoks /\ worker'[t].pc \notin KnowingHost
    BY <2>1, <2>2 DEF Strtoks, KnowingHost
  <2> QED
    BY <1>0, <2>1, <2>2, <2>8, <2>9, QuietMoves
<1> QED
  BY <1>4, <1>5, <1>6, <1>7, <1>8 DEF ProxyFetch

\* The other steps of a thread, from accept to close.
LEMMA WorkerHosts ==
    ASSUME ProxyInv, HostInv, NEW t \in Nodes,
           \/ ProxyCreate(t) \/ Begin(t) \/ ReadRequest(t) \/ FetchFails(t) \/ AppendHead(t)
           \/ SendPage(t) \/ PrintLine(t) \/ Final(t) \/ Hangup(t)
    PROVE  HostInv'
<1>1. worker \in [Nodes -> Job] /\ worker[t] \in Job /\ worker[t].pc # "lines" /\ UNCHANGED page /\ UNCHANGED staticVars
  BY DEF ProxyInv, ProxyTypeOK, ProxyCreate, Begin, ReadRequest, FetchFails, AppendHead, SendPage, PrintLine,
         Final, Hangup, cacheVars
<1>2. ProxyUp /\ ProxyUp'
  <2>1. CASE ProxyCreate(t)
    BY <2>1 DEF ProxyCreate, ProxyUp
  <2>2. CASE ~ProxyCreate(t)
    <3>1. worker[t].pc # "none" /\ proxyAcceptor' = proxyAcceptor
      BY <2>2 DEF Begin, ReadRequest, FetchFails, AppendHead, SendPage, PrintLine, Final, Hangup, socketVars
    <3> QED
      BY <3>1, ThreadIsUp DEF ProxyUp
  <2> QED
    BY <2>1, <2>2
<1>3. /\ worker'[t].pc \in {"start", "recv", "parse", "walk", "final", "print", "spin", "close", "done"}
      /\ \A u \in Nodes \ {t} : worker'[u] = worker[u]
  <2>1. CASE ProxyCreate(t)
    BY <1>1, <2>1 DEF ProxyCreate, NoWorker
  <2>2. CASE ReadRequest(t)
    BY <1>1, <2>2 DEF ReadRequest, Job
  <2>3. CASE Begin(t) \/ FetchFails(t) \/ AppendHead(t)
    BY <1>1, <2>3 DEF Begin, FetchFails, AppendHead, Job
  <2>4. CASE SendPage(t) \/ PrintLine(t)
    BY <1>1, <2>4 DEF SendPage, PrintLine, Job
  <2>5. CASE Final(t) \/ Hangup(t)
    BY <1>1, <2>5 DEF Final, Hangup, Job
  <2> QED
    BY <2>1, <2>2, <2>3, <2>4, <2>5
<1>4. worker'[t].pc \notin KnowingHost /\ worker'[t].pc \notin Strtoks /\ worker'[t].pc \notin {"lines", "connect"}
  BY <1>3 DEF KnowingHost, Strtoks
<1>5. PagesOfTheirHost'
  BY <1>1, SamePages DEF staticVars
<1> QED
  BY <1>1, <1>2, <1>3, <1>4, <1>5, QuietMoves

\* The steps along the list: they change a status or a link, never a page's host.
LEMMA ListHosts ==
    ASSUME ProxyInv, HostInv, NEW t \in Nodes, Lookup(t) \/ AppendWalk(t) \/ AppendLink(t)
    PROVE  HostInv'
<1>0. /\ ProxyUp /\ ProxyUp' /\ worker \in [Nodes -> Job] /\ worker[t] \in Job /\ page \in [Nodes -> Page]
      /\ worker[t].pc \in {"lookup", "walk", "link"} /\ UNCHANGED staticVars
  <2>1. worker[t].pc \in {"lookup", "walk", "link"} /\ proxyAcceptor' = proxyAcceptor /\ UNCHANGED staticVars
    BY DEF Lookup, AppendWalk, AppendLink, socketVars
  <2> QED
    BY <2>1, ThreadIsUp DEF ProxyUp, ProxyInv, ProxyTypeOK
<1>1. /\ worker'[t].pc \in {"lookup", "fetch", "send", "walk", "link"}
      /\ worker'[t].pc \in {"lookup", "fetch"} => worker[t].pc = "lookup"
      /\ worker'[t].host = worker[t].host /\ worker'[t].url = worker[t].url
      /\ \A u \in Nodes \ {t} : worker'[u] = worker[u]
  BY <1>0 DEF Lookup, AppendWalk, AppendLink, Job
<1>2. PagesOfTheirHost'
  <2>1. CASE UNCHANGED page
    BY <1>0, <2>1, SamePages DEF staticVars
  <2>2. CASE \E p \in Nodes : \/ page' = [page EXCEPT ![p].cache_status = 1]
                              \/ page' = [page EXCEPT ![p].next = worker[t].node]
    <3>1. PICK p \in Nodes : \/ page' = [page EXCEPT ![p].cache_status = 1]
                             \/ page' = [page EXCEPT ![p].next = worker[t].node]
      BY <2>2
    <3>2. page[p] \in Page /\ page'[p].host = page[p].host /\ page'[p].request_url = page[p].request_url
      BY <1>0, <3>1 DEF Page
    <3>3. \A n \in Nodes \ {p} : page'[n] = page[n]
      BY <1>0, <3>1
    <3> QED
      BY <1>0, <3>2, <3>3, SamePages DEF staticVars
  <2>3. worker[t].pc \in {"lookup", "link"} /\ worker[t].p # NULL => worker[t].p \in Nodes
    BY <1>0 DEF Job, MaybeNode
  <2>4. worker[t].pc = "link" => worker[t].p \in Nodes
    BY <1>0 DEF ProxyInv, PagesArePrivate
  <2> QED
    BY <2>1, <2>2, <2>3, <2>4 DEF Lookup, AppendWalk, AppendLink, cacheVars
<1>3. HostIsOwn(t)
  BY <1>0 DEF HostInv
<1>4. worker'[t].pc \in KnowingHost /\ t \notin crossed => worker'[t].host = worker'[t].url
  BY <1>1, <1>3 DEF HostIsOwn, KnowingHost
<1>5. worker'[t].pc \notin Strtoks /\ worker'[t].pc \notin {"lines", "connect"} /\ worker[t].pc # "lines"
  BY <1>0, <1>1 DEF Strtoks
<1> QED
  BY <1>0, <1>1, <1>2, <1>4, <1>5, QuietMoves

\* A step of the acceptor or of a browser.
LEMMA OtherHosts ==
    ASSUME HostInv, ProxyUp' => ProxyUp /\ worker' = worker, UNCHANGED <<page, strtokLeft, resolved, crossed>>
    PROVE  HostInv'
<1>1. PagesOfTheirHost'
  BY DEF HostInv, PagesOfTheirHost, Nodes
<1>2. ASSUME ProxyUp' PROVE (ThreadsMeet /\ LeftIsRead)' /\ \A t \in Nodes : HostIsOwn(t)'
  <2>1. worker' = worker /\ ThreadsMeet /\ LeftIsRead /\ \A t \in Nodes : HostIsOwn(t)
    BY <1>2 DEF HostInv
  <2>2. InStrtok' = InStrtok /\ InLookup' = InLookup
    BY <2>1 DEF InStrtok, InLookup, Nodes
  <2> QED
    BY <2>1, <2>2 DEF ThreadsMeet, LeftIsRead, HostIsOwn, Nodes
<1> QED
  BY <1>1, <1>2 DEF HostInv, Nodes

LEMMA StepHosts == ProxyInv /\ HostInv /\ [ProxyNext]_proxyVars => HostInv'
<1> SUFFICES ASSUME ProxyInv, HostInv, [ProxyNext]_proxyVars PROVE HostInv'
  OBVIOUS
<1>1. CASE UNCHANGED proxyVars
  BY <1>1, OtherHosts DEF proxyVars, socketVars, cacheVars, staticVars, ProxyUp
<1>2. CASE ProxyStart \/ ProxyAcceptFails \/ ProxyAdd \/ ProxyStartFails \/ ProxyCreateFails
  BY <1>2, OtherHosts DEF ProxyStart, ProxyAcceptFails, ProxyAdd, ProxyStartFails, ProxyCreateFails, ProxyEnds,
                          ProxyUp, cacheVars, staticVars
<1>3. ASSUME NEW b \in Browsers, Leave(b) \/ ProxyAccept(b) PROVE HostInv'
  BY <1>3, OtherHosts DEF Leave, ProxyAccept, ProxyUp, socketVars, cacheVars, staticVars
<1>4. ASSUME NEW t \in Nodes, ParseCrashes(t) \/ FetchCrashes(t) PROVE HostInv'
  BY <1>4, OtherHosts DEF ParseCrashes, FetchCrashes, ProxyEnds, ProxyUp, cacheVars, staticVars
<1>5. ASSUME NEW t \in Nodes, ProxyCreate(t) \/ ProxyWorker(t) \/ FetchFails(t) PROVE HostInv'
  BY <1>5, ParseHosts, FetchHosts, WorkerHosts, ListHosts DEF ProxyWorker
<1> QED
  BY <1>1, <1>2, <1>3, <1>4, <1>5 DEF ProxyNext

\* However many threads answer at once, whatever fails and however their calls of
\* strtok and gethostbyname fall between each other: as long as no thread was late
\* in reading its socket, a browser receives only pages for the url it asked for,
\* each fetched from that url's host unless the thread that fetched it crossed
\* others in those calls; and no thread reports a miss for a page that it found
\* (process_single_client, parse_request, get_from_cache and make_request).
THEOREM AnswersStayRight == ProxySpec => []AnswersAreRight
<1> DEFINE I == ProxyInv /\ AnswerInv /\ HostInv
<1>1. ProxyInit => I
  BY InitProxy, InitAnswer, InitHost
<1>2. I /\ [ProxyNext]_proxyVars => I'
  BY StepProxy, StepAnswers, StepHosts
<1>3. I => AnswersAreRight
  <2> SUFFICES ASSUME I PROVE AnswersAreRight
    OBVIOUS
  <2>1. UrlsAreRight /\ PagesOfTheirHost /\ \A b \in Browsers : got[b] \subseteq Nodes
    BY DEF AnswerInv, AnswerTypeOK, HostInv
  <2> QED
    BY <2>1 DEF UrlsAreRight, PagesOfTheirHost, AnswersAreRight
<1> HIDE DEF I
<1> QED
  BY <1>1, <1>2, <1>3, PTL DEF ProxySpec

-----------------------------------------------------------------------------
\* The list of processes: an order in which they started that the links keep to.

Tasks == Pids \cup {init_task}
View == [pc : {"start", "next", "pid", "rest", "read", "close", "done"},
         buffer : Seq(Tasks \X {StateOf[p] : p \in Tasks}), pid : Tasks]
Live == born \ dead

PslistTypeOK == /\ task_list \in Tasks
                /\ next_task \in [Tasks -> Tasks]
                /\ born \in SUBSET Pids
                /\ dead \in SUBSET born
                /\ viewer \in [Viewers -> View]
                /\ lasting \in [Viewers -> SUBSET Live]
                /\ alone \in [Viewers -> BOOLEAN]
                /\ DOMAIN shown = Viewers
                /\ \A v \in Viewers : /\ Len(viewer[v].buffer) <= MaxLines
                                      /\ viewer[v].pc = "start" => viewer[v].buffer = <<>>

\* A walk that overlaps no other is the only one.
WalksAlone == \A v \in Walking : alone[v] => Walking = {v}

IsOrder(ord, k) == /\ ord \in [Tasks -> Nat] /\ k \in Nat \ {0}
                   /\ ord[init_task] = 0
                   /\ \A p \in born : 0 < ord[p] /\ ord[p] < k
                   /\ \A p, q \in born : ord[p] = ord[q] => p = q

\* The link of p leads to the first member of S that started after p, if any.
LeadsOn(p, S, ord) ==
    LET q == next_task[p]
    IN  /\ q # init_task => ord[p] < ord[q]
        /\ \A r \in S : ord[p] < ord[r] => q # init_task /\ ord[q] <= ord[r]

LiveLinks(ord) == \A p \in Live \cup {init_task} :
                      next_task[p] \in Live \cup {init_task} /\ LeadsOn(p, Live, ord)

\* From the cursor a walk gets only to processes whose links pass by nobody that
\* lasts: those that have ended meanwhile are among them.
Reaches(v, ord) ==
    \E R \in SUBSET (born \cup {init_task}) :
        /\ task_list \in R
        /\ \A p \in R : next_task[p] \in R \cup {init_task} /\ LeadsOn(p, lasting[v], ord)

Listed(v) == {viewer[v].buffer[i][1] : i \in DOMAIN viewer[v].buffer}

\* The lines are in the order of the list, and each has its process's own state.
LinesInOrder(v, ord) ==
    LET b == viewer[v].buffer
    IN  /\ \A i \in DOMAIN b : b[i][1] \in born /\ b[i][2] = StateOf[b[i][1]]
        /\ \A i, j \in DOMAIN b : i < j => ord[b[i][1]] < ord[b[j][1]]

\* What has been listed: all up to the cursor, or all before it.
WalkIsDone(v, ord) ==
    /\ viewer[v].pc = "next" =>
         /\ \A p \in Listed(v) : ord[p] <= ord[task_list]
         /\ \A p \in lasting[v] : ord[p] <= ord[task_list] => p \in Listed(v)
    /\ viewer[v].pc \in {"pid", "rest"} =>
         /\ task_list # init_task
         /\ \A p \in Listed(v) : ord[p] < ord[task_list]
         /\ \A p \in lasting[v] : ord[p] < ord[task_list] => p \in Listed(v)
    /\ viewer[v].pc = "rest" => viewer[v].pid = task_list
    /\ viewer[v].pc = "read" => lasting[v] \subseteq Listed(v)

ViewIsRight(v, ord) ==
    /\ v \in Walking => Reaches(v, ord)
    /\ v \in Walking \/ viewer[v].pc = "read" => LinesInOrder(v, ord) /\ WalkIsDone(v, ord)

ListIsRight(ord, k) == /\ IsOrder(ord, k)
                       /\ LiveLinks(ord)
                       /\ \A v \in Viewers : alone[v] => ViewIsRight(v, ord)

PslistInv == /\ PslistTypeOK
             /\ WalksAlone
             /\ SnapshotIsWhole
             /\ \E ord, k : ListIsRight(ord, k)

-----------------------------------------------------------------------------
LEMMA InitLinks ==
    /\ Linked(FirstPids) \in [Tasks -> Tasks]
    /\ Linked(FirstPids)[init_task] = IF FirstPids = <<>> THEN init_task ELSE FirstPids[1]
    /\ \A i \in DOMAIN FirstPids :
         Linked(FirstPids)[FirstPids[i]] = IF i = Len(FirstPids) THEN init_task ELSE FirstPids[i + 1]
<1> DEFINE seq == FirstPids
           n == Len(FirstPids)
           ring == <<init_task>> \o seq \o <<init_task>>
           At(p) == {i \in DOMAIN ring : ring[i] = p}
<1>1. n \in Nat /\ seq \in Seq(Tasks) /\ DOMAIN seq = 1..n /\ \A i \in 1..n : seq[i] \in Pids
  BY PslistAssumption DEF Tasks
<1>2. /\ ring \in Seq(Tasks) /\ Len(ring) = n + 2
      /\ ring[1] = init_task /\ ring[n + 2] = init_task
      /\ \A i \in 2..(n + 1) : ring[i] = seq[i - 1]
  BY <1>1 DEF Tasks
<1> HIDE DEF ring, n
<1>3. DOMAIN ring = 1..(n + 2) /\ \A i \in 1..(n + 2) : ring[i] \in Tasks
  BY <1>1, <1>2
<1>4. Min(At(init_task)) = 1
  <2>1. At(init_task) \in SUBSET Nat /\ 1 \in At(init_task)
    BY <1>1, <1>2, <1>3
  <2>2. \A i \in At(init_task) : i >= 1
    BY <1>3
  <2> HIDE DEF At
  <2> QED
    BY <2>1, <2>2, LeastIsMember
<1>5. \A i \in 1..n : Min(At(seq[i])) = i + 1
  <2> SUFFICES ASSUME NEW i \in 1..n PROVE Min(At(seq[i])) = i + 1
    OBVIOUS
  <2>1. i + 1 \in At(seq[i])
    <3>1. i + 1 \in 2..(n + 1) /\ i + 1 \in 1..(n + 2) /\ (i + 1) - 1 = i
      BY <1>1
    <3>2. ring[i + 1] = seq[i]
      BY <1>2, <3>1
    <3>3. i + 1 \in DOMAIN ring
      BY <1>3, <3>1
    <3> QED
      BY <3>2, <3>3
  <2>2. ASSUME NEW j \in At(seq[i]) PROVE j = i + 1
    <3>1. j \in 1..(n + 2) /\ ring[j] = seq[i] /\ seq[i] # init_task
      BY <1>1, <1>3, PslistAssumption
    <3>a. j # 1 /\ j # n + 2
      BY <1>2, <3>1
    <3>b. j \in 2..(n + 1)
      BY <1>1, <3>1, <3>a
    <3>2. j \in 2..(n + 1) /\ seq[j - 1] = seq[i]
      BY <1>2, <3>1, <3>b
    <3>3. j - 1 \in 1..n
      BY <1>1, <3>2
    <3>4. j - 1 = i
      BY <1>1, <3>2, <3>3, PslistAssumption
    <3> QED
      BY <3>1, <3>4
  <2>3. At(seq[i]) \in SUBSET Nat /\ At(seq[i]) # {}
    BY <1>3, <2>1
  <2> HIDE DEF At
  <2> QED
    BY <2>2, <2>3, LeastIsMember
<1>6. \A p \in Tasks : Linked(seq)[p] = IF p \in Range(ring) THEN ring[Min(At(p)) + 1] ELSE init_task
  BY DEF Linked, Tasks, ring
<1>7. Range(ring) = {ring[i] : i \in 1..(n + 2)}
  BY <1>3 DEF Range
<1>8. init_task \in Range(ring) /\ \A i \in 1..n : seq[i] \in Range(ring)
  <2>1. \A i \in 1..n : ring[i + 1] = seq[i] /\ i + 1 \in 1..(n + 2)
    BY <1>1, <1>2
  <2>2. 1 \in 1..(n + 2)
    BY <1>1
  <2> QED
    BY <1>2, <1>7, <2>1, <2>2
<1>9. \A p \in Range(ring) : p = init_task \/ \E i \in 1..n : p = seq[i]
  <2> SUFFICES ASSUME NEW j \in 1..(n + 2) PROVE ring[j] = init_task \/ \E i \in 1..n : ring[j] = seq[i]
    BY <1>7
  <2>1. CASE j = 1 \/ j = n + 2
    BY <1>2, <2>1
  <2>2. CASE j \in 2..(n + 1)
    <3>1. ring[j] = seq[j - 1] /\ j - 1 \in 1..n
      BY <1>1, <1>2, <2>2
    <3> QED
      BY <3>1
  <2> QED
    BY <1>1, <2>1, <2>2
<1> HIDE DEF At
<1>10. Linked(seq)[init_task] = IF n = 0 THEN init_task ELSE seq[1]
  <2>1. Linked(seq)[init_task] = ring[2]
    BY <1>4, <1>6, <1>8 DEF Tasks
  <2> QED
    BY <1>1, <1>2, <2>1
<1>11. ASSUME NEW i \in 1..n PROVE Linked(seq)[seq[i]] = IF i = n THEN init_task ELSE seq[i + 1]
  <2>1. Linked(seq)[seq[i]] = ring[i + 2]
    BY <1>1, <1>5, <1>6, <1>8 DEF Tasks
  <2>2. CASE i = n
    BY <1>2, <2>1, <2>2
  <2>3. CASE i # n
    <3>1. i + 2 \in 2..(n + 1) /\ (i + 2) - 1 = i + 1
      BY <1>1, <2>3
    <3> QED
      BY <1>2, <2>1, <2>3, <3>1
  <2> QED
    BY <2>2, <2>3
<1>12. ASSUME NEW p \in Tasks PROVE Linked(seq)[p] \in Tasks
  <2>1. CASE p \notin Range(ring)
    BY <1>6, <2>1 DEF Tasks
  <2>2. CASE p = init_task
    BY <1>1, <1>10, <2>2 DEF Tasks
  <2>3. ASSUME NEW i \in 1..n, p = seq[i] PROVE Linked(seq)[p] \in Tasks
    <3>1. i # n => i + 1 \in 1..n
      BY <1>1
    <3> QED
      BY <1>1, <1>11, <2>3, <3>1 DEF Tasks
  <2> QED
    BY <1>9, <2>1, <2>2, <2>3
<1>13. Linked(seq) \in [Tasks -> Tasks]
  BY <1>12 DEF Linked, Tasks
<1>14. n = 0 <=> seq = <<>>
  BY <1>1, EmptySeq DEF n
<1> QED
  BY <1>1, <1>10, <1>11, <1>13, <1>14 DEF n

LEMMA InitPslist == PslistInit => PslistInv
<1> SUFFICES ASSUME PslistInit PROVE PslistInv
  OBVIOUS
<1> DEFINE n == Len(FirstPids)
<1>1. n \in Nat /\ DOMAIN FirstPids = 1..n /\ \A i \in 1..n : FirstPids[i] \in Pids
  BY PslistAssumption
<1> HIDE DEF n
<1>2. born = {FirstPids[i] : i \in 1..n} /\ dead = {} /\ Live = born /\ next_task = Linked(FirstPids)
  BY <1>1 DEF PslistInit, Range, Live
<1>3. \A v \in Viewers : /\ viewer[v].pc = "start" /\ viewer[v].buffer = <<>> /\ viewer[v] = NoView
                         /\ lasting[v] = {} /\ alone[v] = TRUE
  BY DEF PslistInit, NoView
<1>4. PslistTypeOK
  <2>1. NoView \in View
    BY DEF NoView, View, Tasks
  <2>2. task_list \in Tasks /\ next_task \in [Tasks -> Tasks] /\ born \in SUBSET Pids /\ dead \in SUBSET born
    BY <1>1, <1>2, InitLinks DEF PslistInit, Tasks
  <2>3. /\ viewer \in [Viewers -> View] /\ lasting \in [Viewers -> SUBSET Live]
        /\ alone \in [Viewers -> BOOLEAN] /\ DOMAIN shown = Viewers
    BY <2>1 DEF PslistInit
  <2>4. \A v \in Viewers : Len(viewer[v].buffer) <= MaxLines
    BY <1>3, PslistAssumption
  <2> QED
    BY <1>3, <2>2, <2>3, <2>4 DEF PslistTypeOK
<1>5. WalksAlone /\ SnapshotIsWhole
  BY <1>3 DEF WalksAlone, Walking, SnapshotIsWhole
<1>6. \E ord, k : ListIsRight(ord, k)
  <2> DEFINE ord == [p \in Tasks |-> IF p \in born THEN CHOOSE i \in 1..n : FirstPids[i] = p ELSE 0]
  <2>1. \A i \in 1..n : ord[FirstPids[i]] = i
    <3> SUFFICES ASSUME NEW i \in 1..n PROVE ord[FirstPids[i]] = i
      OBVIOUS
    <3>1. \A j \in 1..n : FirstPids[j] = FirstPids[i] => j = i
      BY <1>1, PslistAssumption
    <3>2. (CHOOSE j \in 1..n : FirstPids[j] = FirstPids[i]) = i
      BY <3>1
    <3> QED
      BY <1>1, <1>2, <3>2 DEF Tasks
  <2>2. ord[init_task] = 0
    BY <1>1, <1>2, PslistAssumption DEF Tasks
  <2>3. ord \in [Tasks -> Nat]
    <3>1. ASSUME NEW p \in Tasks PROVE ord[p] \in Nat
      BY <1>1, <1>2, <2>1 DEF Tasks
    <3> QED
      BY <3>1
  <2> HIDE DEF ord
  <2>4. IsOrder(ord, n + 1)
    BY <1>1, <1>2, <2>1, <2>2, <2>3 DEF IsOrder
  <2>5. LiveLinks(ord)
    <3>1. ASSUME NEW p \in born PROVE next_task[p] \in Live \cup {init_task} /\ LeadsOn(p, Live, ord)
      <4>1. PICK i \in 1..n : p = FirstPids[i]
        BY <1>2
      <4>2. CASE i = n
        <5>1. next_task[p] = init_task /\ \A r \in Live : ~(ord[p] < ord[r])
          BY <1>1, <1>2, <2>1, <4>1, <4>2, InitLinks
        <5> QED
          BY <5>1 DEF LeadsOn
      <4>3. CASE i # n
        <5>1. i + 1 \in 1..n
          BY <1>1, <4>3
        <5>2. next_task[p] = FirstPids[i + 1] /\ ord[next_task[p]] = i + 1 /\ ord[p] = i
          BY <1>1, <1>2, <2>1, <4>1, <4>3, <5>1, InitLinks DEF n
        <5>3. next_task[p] \in Live /\ next_task[p] # init_task
          BY <1>1, <1>2, <5>1, <5>2, PslistAssumption
        <5>4. \A r \in Live : ord[p] < ord[r] => i + 1 <= ord[r]
          BY <1>1, <1>2, <2>1, <5>2
        <5> QED
          BY <5>2, <5>3, <5>4 DEF LeadsOn
      <4> QED
        BY <4>2, <4>3
    <3>2. next_task[init_task] \in Live \cup {init_task} /\ LeadsOn(init_task, Live, ord)
      <4>1. CASE FirstPids = <<>>
        <5>1. n = 0
          BY <4>1, EmptySeq DEF n
        <5>2. Live = {} /\ next_task[init_task] = init_task
          BY <1>2, <4>1, <5>1, InitLinks
        <5> QED
          BY <5>2 DEF LeadsOn
      <4>2. CASE FirstPids # <<>>
        <5>1. 1 \in 1..n
          BY <1>1, <4>2, EmptySeq, PslistAssumption DEF n
        <5>2. next_task[init_task] = FirstPids[1] /\ FirstPids[1] \in Live /\ ord[FirstPids[1]] = 1
              /\ FirstPids[1] # init_task
          BY <1>1, <1>2, <2>1, <4>2, <5>1, InitLinks, PslistAssumption
        <5>3. \A r \in Live : 1 <= ord[r]
          BY <1>1, <1>2, <2>1
        <5> QED
          BY <2>2, <5>2, <5>3 DEF LeadsOn
      <4> QED
        BY <4>1, <4>2
    <3> QED
      BY <1>2, <3>1, <3>2 DEF LiveLinks
  <2>6. \A v \in Viewers : ViewIsRight(v, ord)
    BY <1>3 DEF ViewIsRight, Walking
  <2> QED
    BY <2>4, <2>5, <2>6 DEF ListIsRight
<1> QED
  BY <1>4, <1>5, <1>6 DEF PslistInv

-----------------------------------------------------------------------------
\* What is true of a viewer stays true while only others move.
LEMMA ViewStays ==
    ASSUME NEW v \in Viewers, NEW ord, ViewIsRight(v, ord), UNCHANGED <<next_task, born>>,
           viewer'[v] = viewer[v], lasting'[v] = lasting[v], v \in Walking => task_list' = task_list
    PROVE  ViewIsRight(v, ord)'
<1>1. v \in Walking <=> (v \in Walking)'
  BY DEF Walking
<1>2. CASE v \in Walking
  <2>1. task_list' = task_list
    BY <1>2
  <2>2. Reaches(v, ord)'
    BY <1>2, <2>1 DEF ViewIsRight, Reaches, LeadsOn
  <2>3. LinesInOrder(v, ord)'
    BY <1>2 DEF ViewIsRight, LinesInOrder
  <2>4. WalkIsDone(v, ord)'
    BY <1>2, <2>1 DEF ViewIsRight, WalkIsDone, Listed
  <2> QED
    BY <2>2, <2>3, <2>4 DEF ViewIsRight
<1>3. CASE v \notin Walking
  <2>1. viewer[v].pc \notin {"next", "pid", "rest"}
    BY <1>3 DEF Walking
  <2>2. viewer[v].pc = "read" => LinesInOrder(v, ord)' /\ WalkIsDone(v, ord)'
    BY <2>1 DEF ViewIsRight, LinesInOrder, WalkIsDone, Listed
  <2> QED
    BY <1>1, <1>3, <2>2 DEF ViewIsRight
<1> QED
  BY <1>2, <1>3

LEMMA ViewerMoves ==
    ASSUME NEW v \in Viewers, NEW ord, NEW k, ListIsRight(ord, k), UNCHANGED <<next_task, born, dead>>,
           \A w \in Viewers \ {v} :
               /\ viewer'[w] = viewer[w] /\ lasting'[w] = lasting[w]
               /\ alone'[w] => alone[w] /\ (w \in Walking => task_list' = task_list),
           alone'[v] => ViewIsRight(v, ord)'
    PROVE  ListIsRight(ord, k)'
<1>1. IsOrder(ord, k)'
  BY DEF ListIsRight, IsOrder
<1>2. LiveLinks(ord)'
  BY DEF ListIsRight, LiveLinks, LeadsOn, Live
<1>3. ASSUME NEW w \in Viewers, alone'[w] PROVE ViewIsRight(w, ord)'
  <2>1. CASE w # v
    <3>1. ViewIsRight(w, ord)
      BY <1>3, <2>1 DEF ListIsRight
    <3> QED
      BY <1>3, <2>1, <3>1, ViewStays
  <2> QED
    BY <1>3, <2>1
<1> QED
  BY <1>1, <1>2, <1>3 DEF ListIsRight

LEMMA SnapshotsStay ==
    ASSUME SnapshotIsWhole,
           \A w \in Viewers : viewer'[w].pc = "close" /\ alone'[w] =>
               viewer[w].pc = "close" /\ alone[w] /\ shown'[w] = shown[w] /\ lasting'[w] \subseteq lasting[w]
    PROVE  SnapshotIsWhole'
BY DEF SnapshotIsWhole

LEMMA StepOpenFails ==
    ASSUME PslistInv, NEW v \in Viewers, OpenFails(v)
    PROVE  PslistInv'
<1> DEFINE r == [viewer[v] EXCEPT !.pc = "done"]
<1>1. viewer' = [viewer EXCEPT ![v] = r] /\ PslistTypeOK
  BY DEF OpenFails, PslistInv
<1>2. r \in View /\ r.pc = "done" /\ r.buffer = viewer[v].buffer
  BY <1>1 DEF View, PslistTypeOK
<1> HIDE DEF r
<1>3. viewer'[v] = r /\ \A w \in Viewers \ {v} : viewer'[w] = viewer[w]
  BY <1>1 DEF PslistTypeOK
<1>4. UNCHANGED <<task_list, next_task, born, dead, shown, lasting, alone>>
  BY DEF OpenFails, taskVars
<1>5. PslistTypeOK'
  BY <1>1, <1>2, <1>3, <1>4 DEF PslistTypeOK, Live
<1>6. Walking' = Walking \ {v}
  BY <1>2, <1>3 DEF Walking
<1>7. WalksAlone'
  BY <1>4, <1>6 DEF WalksAlone, PslistInv
<1>8. SnapshotIsWhole'
  BY <1>2, <1>3, <1>4 DEF SnapshotIsWhole, PslistInv
<1>9. ASSUME NEW ord, NEW k, ListIsRight(ord, k) PROVE ListIsRight(ord, k)'
  <2>1. ViewIsRight(v, ord)'
    BY <1>2, <1>3, <1>6 DEF ViewIsRight
  <2> QED
    BY <1>3, <1>4, <1>9, <2>1, ViewerMoves
<1> QED
  BY <1>5, <1>7, <1>8, <1>9 DEF PslistInv

LEMMA StepOpen ==
    ASSUME PslistInv, NEW v \in Viewers, Open(v)
    PROVE  PslistInv'
<1> DEFINE r == [viewer[v] EXCEPT !.pc = "next"]
<1>1. viewer' = [viewer EXCEPT ![v] = r] /\ PslistTypeOK /\ viewer[v].pc = "start" /\ viewer[v].buffer = <<>>
  BY DEF Open, PslistInv, PslistTypeOK
<1>2. r \in View /\ r.pc = "next" /\ r.buffer = viewer[v].buffer
  BY <1>1 DEF View, PslistTypeOK
<1> HIDE DEF r
<1>3. viewer'[v] = r /\ \A w \in Viewers \ {v} : viewer'[w] = viewer[w]
  BY <1>1 DEF PslistTypeOK
<1>4. UNCHANGED <<next_task, born, dead, shown>> /\ task_list' = init_task
  BY DEF Open, taskVars
<1>5. lasting'[v] = Live /\ \A w \in Viewers \ {v} : lasting'[w] = lasting[w]
  BY <1>1 DEF Open, PslistTypeOK, Live
<1>6. alone' = [w \in Viewers |-> alone[w] /\ (w \in Walking \cup {v} => Walking = {})]
  BY DEF Open
<1>7. PslistTypeOK'
  <2>1. viewer' \in [Viewers -> View] /\ alone' \in [Viewers -> BOOLEAN] /\ lasting' \in [Viewers -> SUBSET Live']
    BY <1>1, <1>2, <1>4, <1>6 DEF PslistTypeOK, Live, Open
  <2> QED
    BY <1>1, <1>2, <1>3, <1>4, <2>1 DEF PslistTypeOK, Tasks
<1>8. Walking' = Walking \cup {v} /\ v \notin Walking
  BY <1>1, <1>2, <1>3 DEF Walking
<1>9. WalksAlone'
  BY <1>6, <1>8 DEF WalksAlone, Walking
<1>10. SnapshotIsWhole'
  <2>1. \A w \in Viewers : viewer'[w].pc = "close" => w # v
    BY <1>2, <1>3
  <2>2. \A w \in Viewers : alone'[w] => alone[w]
    BY <1>6
  <2> QED
    BY <1>3, <1>4, <1>5, <2>1, <2>2, SnapshotsStay DEF PslistInv
<1>11. ASSUME NEW ord, NEW k, ListIsRight(ord, k) PROVE ListIsRight(ord, k)'
  <2>1. Reaches(v, ord)'
    <3> DEFINE R == Live \cup {init_task}
    <3>1. R \in SUBSET (born' \cup {init_task}) /\ task_list' \in R
      BY <1>4 DEF Live
    <3>2. \A p \in R : next_task'[p] \in R \cup {init_task} /\ LeadsOn(p, lasting[v], ord)'
      BY <1>4, <1>5, <1>11 DEF ListIsRight, LiveLinks, LeadsOn
    <3> QED
      BY <3>1, <3>2 DEF Reaches
  <2>2. viewer'[v].buffer = <<>> /\ Listed(v)' = {}
    BY <1>1, <1>2, <1>3 DEF Listed
  <2>3. LinesInOrder(v, ord)'
    BY <2>2 DEF LinesInOrder
  <2>4. \A p \in Live : ~(ord[p] <= ord[init_task])
    BY <1>1, <1>11 DEF ListIsRight, IsOrder, Live, Tasks, PslistTypeOK
  <2>5. WalkIsDone(v, ord)'
    BY <1>2, <1>3, <1>4, <1>5, <2>2, <2>4 DEF WalkIsDone
  <2>6. ViewIsRight(v, ord)'
    BY <2>1, <2>3, <2>5 DEF ViewIsRight
  <2>7. \A w \in Viewers \ {v} : alone'[w] => alone[w] /\ w \notin Walking
    BY <1>6
  <2> QED
    BY <1>3, <1>4, <1>5, <1>11, <2>6, <2>7, ViewerMoves
<1> QED
  BY <1>7, <1>9, <1>10, <1>11 DEF PslistInv

\* A viewer in its walk that is alone is the only one that moves the cursor.
LEMMA StepNextTask ==
    ASSUME PslistInv, NEW v \in Viewers, Next_task(v)
    PROVE  PslistInv'
<1> DEFINE q == next_task[task_list]
           r == [viewer[v] EXCEPT !.pc = IF q = init_task THEN "read" ELSE "pid"]
<1>1. viewer' = [viewer EXCEPT ![v] = r] /\ PslistTypeOK /\ viewer[v].pc = "next" /\ task_list' = q
  BY DEF Next_task, PslistInv
<1>2. r \in View /\ r.pc = (IF q = init_task THEN "read" ELSE "pid") /\ r.buffer = viewer[v].buffer
  BY <1>1 DEF View, PslistTypeOK
<1> HIDE DEF r
<1>3. viewer'[v] = r /\ \A w \in Viewers \ {v} : viewer'[w] = viewer[w]
  BY <1>1 DEF PslistTypeOK
<1>4. UNCHANGED <<next_task, born, dead, shown, lasting, alone>>
  BY DEF Next_task, taskVars
<1>5. PslistTypeOK'
  <2>1. q \in Tasks /\ viewer' \in [Viewers -> View]
    BY <1>1, <1>2 DEF PslistTypeOK
  <2> QED
    BY <1>1, <1>2, <1>3, <1>4, <2>1 DEF PslistTypeOK, Live
<1>6. v \in Walking /\ Walking' \in SUBSET Walking
  BY <1>1, <1>2, <1>3 DEF Walking
<1>7. WalksAlone'
  BY <1>4, <1>6 DEF WalksAlone, PslistInv
<1>8. SnapshotIsWhole'
  BY <1>2, <1>3, <1>4 DEF SnapshotIsWhole, PslistInv
<1>9. ASSUME NEW ord, NEW k, ListIsRight(ord, k) PROVE ListIsRight(ord, k)'
  <2>1. ASSUME alone[v] PROVE ViewIsRight(v, ord)'
    <3>1. Reaches(v, ord) /\ LinesInOrder(v, ord) /\ WalkIsDone(v, ord)
      BY <1>6, <1>9, <2>1 DEF ListIsRight, ViewIsRight
    <3>2. PICK R \in SUBSET (born \cup {init_task}) :
            /\ task_list \in R
            /\ \A p \in R : next_task[p] \in R \cup {init_task} /\ LeadsOn(p, lasting[v], ord)
      BY <3>1 DEF Reaches
    <3>3. LeadsOn(task_list, lasting[v], ord) /\ q \in R \cup {init_task}
      BY <3>2
    <3>4. LinesInOrder(v, ord)'
      BY <1>2, <1>3, <1>4, <3>1 DEF LinesInOrder
    <3>5. Listed(v)' = Listed(v)
      BY <1>2, <1>3 DEF Listed
    <3>o. ord \in [Tasks -> Nat] /\ Listed(v) \in SUBSET Tasks /\ lasting[v] \in SUBSET Tasks /\ task_list \in Tasks
      BY <1>1, <1>9, <3>1 DEF ListIsRight, IsOrder, Listed, LinesInOrder, PslistTypeOK, Tasks, Live
    <3>6. /\ \A p \in Listed(v) : ord[p] <= ord[task_list]
          /\ \A p \in lasting[v] : ord[p] <= ord[task_list] => p \in Listed(v)
      BY <1>1, <3>1 DEF WalkIsDone
    <3>7. CASE q = init_task
      <4>1. \A p \in lasting[v] : p \in Listed(v)
        BY <3>3, <3>6, <3>7, <3>o DEF LeadsOn
      <4>2. WalkIsDone(v, ord)'
        BY <1>2, <1>3, <1>4, <3>5, <3>7, <4>1 DEF WalkIsDone
      <4>3. (v \notin Walking)'
        BY <1>2, <1>3, <3>7 DEF Walking
      <4> QED
        BY <3>4, <4>2, <4>3 DEF ViewIsRight
    <3>8. CASE q # init_task
      <4>1. q \in Tasks /\ ord[task_list] < ord[q] /\ \A p \in lasting[v] : ord[task_list] < ord[p] => ord[q] <= ord[p]
        BY <1>1, <3>3, <3>8 DEF LeadsOn, PslistTypeOK
      <4>2. /\ \A p \in Listed(v) : ord[p] < ord[q]
            /\ \A p \in lasting[v] : ord[p] < ord[q] => p \in Listed(v)
        BY <3>6, <3>o, <4>1
      <4>3. WalkIsDone(v, ord)'
        BY <1>1, <1>2, <1>3, <1>4, <3>5, <3>8, <4>2 DEF WalkIsDone
      <4>4. Reaches(v, ord)'
        <5>1. task_list' \in R /\ R \in SUBSET (born' \cup {init_task})
          BY <1>1, <1>4, <3>2, <3>3, <3>8
        <5>2. \A p \in R : next_task'[p] \in R \cup {init_task} /\ LeadsOn(p, lasting[v], ord)'
          BY <1>4, <3>2 DEF LeadsOn
        <5> QED
          BY <5>1, <5>2 DEF Reaches
      <4> QED
        BY <3>4, <4>3, <4>4 DEF ViewIsRight
    <3> QED
      BY <3>7, <3>8
  <2>2. \A w \in Viewers \ {v} : alone[w] => w \notin Walking
    BY <1>6 DEF PslistInv, WalksAlone
  <2> QED
    BY <1>3, <1>4, <1>9, <2>1, <2>2, ViewerMoves
<1> QED
  BY <1>5, <1>7, <1>8, <1>9 DEF PslistInv

LEMMA StepLoadPid ==
    ASSUME PslistInv, NEW v \in Viewers, LoadPid(v)
    PROVE  PslistInv'
<1> DEFINE r == [viewer[v] EXCEPT !.pc = "rest", !.pid = task_list]
<1>1. viewer' = [viewer EXCEPT ![v] = r] /\ PslistTypeOK /\ viewer[v].pc = "pid"
  BY DEF LoadPid, PslistInv
<1>2. r \in View /\ r.pc = "rest" /\ r.buffer = viewer[v].buffer /\ r.pid = task_list
  BY <1>1 DEF View, PslistTypeOK
<1> HIDE DEF r
<1>3. viewer'[v] = r /\ \A w \in Viewers \ {v} : viewer'[w] = viewer[w]
  BY <1>1 DEF PslistTypeOK
<1>4. UNCHANGED <<task_list, next_task, born, dead, shown, lasting, alone>>
  BY DEF LoadPid, taskVars
<1>5. PslistTypeOK'
  BY <1>1, <1>2, <1>3, <1>4 DEF PslistTypeOK, Live
<1>6. Walking' = Walking /\ v \in Walking
  BY <1>1, <1>2, <1>3 DEF Walking
<1>7. WalksAlone'
  BY <1>4, <1>6 DEF WalksAlone, PslistInv
<1>8. SnapshotIsWhole'
  BY <1>2, <1>3, <1>4, SnapshotsStay DEF PslistInv
<1>9. ASSUME NEW ord, NEW k, ListIsRight(ord, k) PROVE ListIsRight(ord, k)'
  <2>1. ASSUME alone[v] PROVE ViewIsRight(v, ord)'
    <3>1. Reaches(v, ord) /\ LinesInOrder(v, ord) /\ WalkIsDone(v, ord)
      BY <1>6, <1>9, <2>1 DEF ListIsRight, ViewIsRight
    <3>2. Reaches(v, ord)'
      BY <1>4, <3>1 DEF Reaches, LeadsOn
    <3>3. LinesInOrder(v, ord)'
      BY <1>2, <1>3, <1>4, <3>1 DEF LinesInOrder
    <3>4. WalkIsDone(v, ord)'
      BY <1>1, <1>2, <1>3, <1>4, <3>1 DEF WalkIsDone, Listed
    <3> QED
      BY <3>2, <3>3, <3>4 DEF ViewIsRight
  <2> QED
    BY <1>3, <1>4, <1>9, <2>1, ViewerMoves
<1> QED
  BY <1>5, <1>7, <1>8, <1>9 DEF PslistInv

LEMMA StepPrintTask ==
    ASSUME PslistInv, NEW v \in Viewers, PrintTask(v)
    PROVE  PslistInv'
<1> DEFINE b == viewer[v].buffer
           line == <<viewer[v].pid, StateOf[task_list]>>
           r == [viewer[v] EXCEPT !.pc = "next", !.buffer = Append(b, line)]
           n == Len(b)
<1>1. viewer' = [viewer EXCEPT ![v] = r] /\ PslistTypeOK /\ viewer[v].pc = "rest" /\ Len(b) < MaxLines
  BY DEF PrintTask, PslistInv
<1>a. b \in Seq(Tasks \X {StateOf[p] : p \in Tasks}) /\ line \in Tasks \X {StateOf[p] : p \in Tasks}
      /\ viewer[v] \in View
  BY <1>1 DEF View, PslistTypeOK
<1>b. /\ n \in Nat /\ DOMAIN b = 1..n
      /\ Append(b, line) \in Seq(Tasks \X {StateOf[p] : p \in Tasks})
      /\ Len(Append(b, line)) = n + 1 /\ DOMAIN Append(b, line) = 1..(n + 1)
      /\ Append(b, line)[n + 1] = line
      /\ \A i \in 1..n : Append(b, line)[i] = b[i]
  <2> HIDE DEF line, b
  <2> QED
    BY <1>a DEF n
<1> HIDE DEF n
<1>2. r \in View /\ r.pc = "next" /\ r.buffer = Append(b, line)
  BY <1>a, <1>b DEF View
<1> HIDE DEF r
<1>3. viewer'[v] = r /\ \A w \in Viewers \ {v} : viewer'[w] = viewer[w]
  BY <1>1 DEF PslistTypeOK
<1>4. UNCHANGED <<task_list, next_task, born, dead, shown, lasting, alone>>
  BY DEF PrintTask, taskVars
<1>5. PslistTypeOK'
  <2>1. viewer' \in [Viewers -> View]
    BY <1>1, <1>2 DEF PslistTypeOK
  <2>2. Len(viewer'[v].buffer) <= MaxLines /\ viewer'[v].pc # "start"
    BY <1>1, <1>2, <1>3, <1>b, PslistAssumption DEF n
  <2> QED
    BY <1>1, <1>3, <1>4, <2>1, <2>2 DEF PslistTypeOK, Live
<1>6. Walking' = Walking /\ v \in Walking
  BY <1>1, <1>2, <1>3 DEF Walking
<1>7. WalksAlone'
  BY <1>4, <1>6 DEF WalksAlone, PslistInv
<1>8. SnapshotIsWhole'
  BY <1>2, <1>3, <1>4, SnapshotsStay DEF PslistInv
<1>9. ASSUME NEW ord, NEW k, ListIsRight(ord, k) PROVE ListIsRight(ord, k)'
  <2>1. ASSUME alone[v] PROVE ViewIsRight(v, ord)'
    <3>1. Reaches(v, ord) /\ LinesInOrder(v, ord) /\ WalkIsDone(v, ord)
      BY <1>6, <1>9, <2>1 DEF ListIsRight, ViewIsRight
    <3>2. Reaches(v, ord)'
      BY <1>4, <3>1 DEF Reaches, LeadsOn
    <3>3. /\ task_list \in born /\ viewer[v].pid = task_list
          /\ \A p \in Listed(v) : ord[p] < ord[task_list]
          /\ \A p \in lasting[v] : ord[p] < ord[task_list] => p \in Listed(v)
      BY <1>1, <3>1 DEF WalkIsDone, Reaches
    <3>o. /\ ord \in [Tasks -> Nat] /\ \A p, q \in born : ord[p] = ord[q] => p = q
          /\ Listed(v) \in SUBSET Tasks /\ lasting[v] \in SUBSET born /\ born \in SUBSET Tasks
      BY <1>1, <1>9, <3>1 DEF ListIsRight, IsOrder, Listed, LinesInOrder, PslistTypeOK, Tasks, Live
    <3>4. Listed(v)' = Listed(v) \cup {task_list}
      <4>1. Listed(v)' = {Append(b, line)[i][1] : i \in 1..(n + 1)}
        <5> DEFINE c == Append(b, line)
        <5>1. viewer'[v].buffer = c /\ DOMAIN c = 1..(n + 1)
          BY <1>2, <1>3, <1>b
        <5> HIDE DEF c
        <5>2. Listed(v)' = {c[i][1] : i \in 1..(n + 1)}
          BY <5>1 DEF Listed
        <5> QED
          BY <5>2 DEF c
      <4>2. Listed(v) = {b[i][1] : i \in 1..n}
        BY <1>b DEF Listed
      <4>3. Append(b, line)[n + 1][1] = task_list
        BY <1>b, <3>3
      <4> HIDE DEF b, line
      <4>4. \A i \in 1..(n + 1) : i = n + 1 \/ i \in 1..n
        BY <1>b
      <4>5. n + 1 \in 1..(n + 1) /\ \A i \in 1..n : i \in 1..(n + 1)
        BY <1>b
      <4> QED
        BY <1>b, <4>1, <4>2, <4>3, <4>4, <4>5
    <3>5. LinesInOrder(v, ord)'
      <4>1. /\ \A i \in 1..n : b[i][1] \in born /\ b[i][2] = StateOf[b[i][1]] /\ b[i][1] \in Listed(v)
            /\ \A i, j \in 1..n : i < j => ord[b[i][1]] < ord[b[j][1]]
        BY <1>b, <3>1 DEF LinesInOrder, Listed
      <4>2. line[1] = task_list /\ line[2] = StateOf[task_list]
        BY <3>3
      <4> DEFINE c == Append(b, line)
      <4>3. viewer'[v].buffer = c /\ DOMAIN c = 1..(n + 1) /\ c[n + 1] = line /\ \A i \in 1..n : c[i] = b[i]
        BY <1>2, <1>3, <1>b
      <4> HIDE DEF c, b, line
      <4>4. \A i \in 1..(n + 1) : c[i][1] \in born /\ c[i][2] = StateOf[c[i][1]]
        BY <1>b, <3>3, <4>1, <4>2, <4>3
      <4>5. \A i, j \in 1..(n + 1) : i < j => ord[c[i][1]] < ord[c[j][1]]
        <5> SUFFICES ASSUME NEW i \in 1..(n + 1), NEW j \in 1..(n + 1), i < j
                     PROVE  ord[c[i][1]] < ord[c[j][1]]
          OBVIOUS
        <5>1. i \in 1..n /\ c[i] = b[i]
          BY <1>b, <4>3
        <5>2. CASE j = n + 1
          BY <3>3, <4>1, <4>2, <4>3, <5>1, <5>2
        <5>3. CASE j \in 1..n
          BY <4>1, <4>3, <5>1, <5>3
        <5>4. j = n + 1 \/ j \in 1..n
          BY <1>b
        <5> QED
          BY <5>2, <5>3, <5>4
      <4> QED
        BY <1>4, <4>3, <4>4, <4>5 DEF LinesInOrder
    <3>6. WalkIsDone(v, ord)'
      <4>1. \A p \in Listed(v)' : ord[p] <= ord[task_list]
        BY <3>3, <3>4, <3>o
      <4>2. \A p \in lasting[v] : ord[p] <= ord[task_list] => p \in Listed(v)'
        BY <3>3, <3>4, <3>o
      <4> QED
        BY <1>2, <1>3, <1>4, <4>1, <4>2 DEF WalkIsDone
    <3> QED
      BY <3>2, <3>5, <3>6 DEF ViewIsRight
  <2> QED
    BY <1>3, <1>4, <1>9, <2>1, ViewerMoves
<1> QED
  BY <1>5, <1>7, <1>8, <1>9 DEF PslistInv

\* dev_read and print_ps give each line of the buffer, and no other.
LEMMA StepReadAndPrint ==
    ASSUME PslistInv, NEW v \in Viewers, ReadAndPrint(v)
    PROVE  PslistInv'
<1> DEFINE b == viewer[v].buffer
           n == Len(b)
           r == [viewer[v] EXCEPT !.pc = "close"]
<1>1. viewer' = [viewer EXCEPT ![v] = r] /\ PslistTypeOK /\ viewer[v].pc = "read"
  BY DEF ReadAndPrint, PslistInv
<1>2. r \in View /\ r.pc = "close" /\ r.buffer = b
  BY <1>1 DEF View, PslistTypeOK
<1> HIDE DEF r
<1>3. viewer'[v] = r /\ \A w \in Viewers \ {v} : viewer'[w] = viewer[w]
  BY <1>1 DEF PslistTypeOK
<1>4. UNCHANGED <<task_list, next_task, born, dead, lasting, alone>>
  BY DEF ReadAndPrint, taskVars
<1>b. n \in Nat /\ n <= MaxLines /\ DOMAIN b = 1..n
  BY <1>1 DEF View, PslistTypeOK
<1>6. Walking' = Walking
  BY <1>1, <1>2, <1>3 DEF Walking
<1>7. WalksAlone'
  BY <1>4, <1>6 DEF WalksAlone, PslistInv
<1>8. /\ shown' = [shown EXCEPT ![v] = [i \in 1..n |-> <<b[i][1], StateNames(b[i][2])>>]]
  <2> DEFINE size == Dev_read(n, 0, MaxLines + 1).result
  <2>1. shown' = [shown EXCEPT ![v] = [i \in 1..(size - 1) |-> <<b[i][1], StateNames(b[i][2])>>]]
    BY DEF ReadAndPrint, Lines
  <2>2. 1..(size - 1) = 1..n
    <3> HIDE DEF n
    <3>1. CASE n = 0
      <4>1. size = 0
        BY <3>1 DEF Dev_read
      <4> QED
        BY <3>1, <4>1
    <3>2. CASE n # 0
      <4>1. ~(0 >= n) /\ (n - 0 >= (MaxLines + 1) - 1 => n = MaxLines)
        BY <1>b, <3>2, PslistAssumption
      <4>2. size = n + 1
        BY <1>b, <3>2, <4>1, PslistAssumption DEF Dev_read
      <4> QED
        BY <1>b, <4>2
    <3> QED
      BY <3>1, <3>2
  <2> HIDE DEF size, n, b
  <2> QED
    BY <2>1, <2>2
<1>9. shown'[v] = [i \in 1..n |-> <<b[i][1], StateNames(b[i][2])>>]
      /\ \A w \in Viewers \ {v} : shown'[w] = shown[w]
  BY <1>1, <1>8 DEF PslistTypeOK
<1>10. PslistTypeOK'
  <2> HIDE DEF b, n
  <2>1. DOMAIN shown' = Viewers
    BY <1>1, <1>8 DEF PslistTypeOK
  <2>2. viewer' \in [Viewers -> View] /\ Len(viewer'[v].buffer) <= MaxLines
    BY <1>1, <1>2, <1>3, <1>b DEF PslistTypeOK, b, n
  <2> QED
    BY <1>1, <1>2, <1>3, <1>4, <2>1, <2>2 DEF PslistTypeOK, Live
<1>11. PICK ord, k : ListIsRight(ord, k)
  BY DEF PslistInv
<1>12. ListIsRight(ord, k)'
  <2>1. alone[v] => ViewIsRight(v, ord)'
    BY <1>2, <1>3 DEF ViewIsRight, Walking
  <2> QED
    BY <1>3, <1>4, <1>11, <2>1, ViewerMoves
<1>13. SnapshotIsWhole'
  <2>1. ASSUME alone[v]
        PROVE  /\ \A i, j \in 1..n : b[i][1] = b[j][1] => i = j
               /\ lasting[v] \subseteq {b[i][1] : i \in 1..n}
               /\ \A i \in 1..n : b[i][2] = StateOf[b[i][1]]
    <3>1. LinesInOrder(v, ord) /\ WalkIsDone(v, ord)
      BY <1>1, <1>11, <2>1 DEF ListIsRight, ViewIsRight
    <3>2. /\ \A i \in 1..n : b[i][1] \in born /\ b[i][2] = StateOf[b[i][1]]
          /\ \A i, j \in 1..n : i < j => ord[b[i][1]] < ord[b[j][1]]
      BY <1>b, <3>1 DEF LinesInOrder
    <3>3. lasting[v] \subseteq {b[i][1] : i \in 1..n}
      BY <1>1, <1>b, <3>1 DEF WalkIsDone, Listed
    <3>4. \A i \in 1..n : ord[b[i][1]] \in Nat
      BY <1>1, <1>11, <3>2 DEF ListIsRight, IsOrder, PslistTypeOK, Tasks
    <3>5. \A i, j \in 1..n : b[i][1] = b[j][1] => ~(i < j) /\ ~(j < i)
      BY <3>2, <3>4
    <3> QED
      BY <1>b, <3>2, <3>3, <3>5
  <2>2. DOMAIN shown'[v] = 1..n /\ \A i \in 1..n : shown'[v][i] = <<b[i][1], StateNames(b[i][2])>>
    BY <1>9
  <2> HIDE DEF b, n
  <2>3. \A i \in 1..n : shown'[v][i][1] = b[i][1] /\ shown'[v][i][2] = StateNames(b[i][2])
    BY <2>2
  <2>4. ASSUME alone[v]
        PROVE  /\ \A i, j \in DOMAIN shown'[v] : shown'[v][i][1] = shown'[v][j][1] => i = j
               /\ lasting[v] \subseteq {shown'[v][i][1] : i \in DOMAIN shown'[v]}
               /\ \A i \in DOMAIN shown'[v] : shown'[v][i][2] = StateNames(StateOf[shown'[v][i][1]])
    BY <2>1, <2>2, <2>3, <2>4
  <2>5. ASSUME NEW w \in Viewers \ {v}, viewer'[w].pc = "close" /\ alone'[w]
        PROVE  viewer[w].pc = "close" /\ alone[w] /\ shown'[w] = shown[w] /\ lasting'[w] = lasting[w]
    BY <1>3, <1>4, <1>9, <2>5
  <2> QED
    BY <1>4, <2>4, <2>5 DEF SnapshotIsWhole, PslistInv
<1> QED
  BY <1>7, <1>10, <1>12, <1>13 DEF PslistInv

LEMMA StepRelease ==
    ASSUME PslistInv, NEW v \in Viewers, Release(v)
    PROVE  PslistInv'
<1> DEFINE r == [NoView EXCEPT !.pc = "done"]
<1>1. viewer' = [viewer EXCEPT ![v] = r] /\ PslistTypeOK /\ viewer[v].pc = "close"
  BY DEF Release, PslistInv
<1>2. r \in View /\ r.pc = "done" /\ r.buffer = <<>>
  <2>1. r = [pc |-> "done", buffer |-> <<>>, pid |-> init_task]
    BY DEF NoView
  <2> HIDE DEF r
  <2> QED
    BY <2>1 DEF View, Tasks
<1> HIDE DEF r
<1>3. viewer'[v] = r /\ \A w \in Viewers \ {v} : viewer'[w] = viewer[w]
  BY <1>1 DEF PslistTypeOK
<1>4. UNCHANGED <<task_list, next_task, born, dead, alone>>
  BY DEF Release, taskVars
<1>5. /\ lasting'[v] = {} /\ lasting' \in [Viewers -> SUBSET Live]
      /\ \A w \in Viewers \ {v} : lasting'[w] = lasting[w] /\ shown'[w] = shown[w]
      /\ DOMAIN shown' = Viewers
  BY <1>1 DEF Release, PslistTypeOK
<1>6. PslistTypeOK'
  <2>1. viewer' \in [Viewers -> View] /\ Len(viewer'[v].buffer) = 0
    BY <1>1, <1>2, <1>3 DEF PslistTypeOK
  <2> QED
    BY <1>1, <1>2, <1>3, <1>4, <1>5, <2>1, PslistAssumption DEF PslistTypeOK, Live
<1>7. Walking' = Walking
  BY <1>1, <1>2, <1>3 DEF Walking
<1>8. WalksAlone'
  BY <1>4, <1>7 DEF WalksAlone, PslistInv
<1>9. SnapshotIsWhole'
  BY <1>2, <1>3, <1>4, <1>5, SnapshotsStay DEF PslistInv
<1>10. ASSUME NEW ord, NEW k, ListIsRight(ord, k) PROVE ListIsRight(ord, k)'
  <2>1. ViewIsRight(v, ord)'
    BY <1>2, <1>3 DEF ViewIsRight, Walking
  <2> QED
    BY <1>3, <1>4, <1>5, <1>10, <2>1, ViewerMoves
<1> QED
  BY <1>6, <1>8, <1>9, <1>10 DEF PslistInv

-----------------------------------------------------------------------------
\* A new process comes after all others; the last one that lives gets a link to it.
LEMMA StepFork ==
    ASSUME PslistInv, NEW p \in Pids, Fork(p)
    PROVE  PslistInv'
<1>1. /\ PslistTypeOK /\ p \notin born /\ born' = born \cup {p} /\ p # init_task
      /\ UNCHANGED <<task_list, dead, viewer, shown, lasting, alone>>
  BY PslistAssumption DEF Fork, PslistInv
<1>2. PICK last \in Live \cup {init_task} :
        /\ next_task[last] = init_task
        /\ last # init_task \/ Live = {}
        /\ next_task' = [next_task EXCEPT ![last] = p, ![p] = init_task]
  BY <1>1 DEF Fork, Live, PslistTypeOK
<1>3. PICK ord, k : ListIsRight(ord, k)
  BY DEF PslistInv
<1>t. /\ p \in Tasks /\ last \in Tasks /\ init_task \in Tasks /\ born \in SUBSET Tasks /\ Live \in SUBSET born
      /\ last # p /\ ord \in [Tasks -> Nat] /\ k \in Nat \ {0} /\ ord[init_task] = 0
      /\ \A q \in born : 0 < ord[q] /\ ord[q] < k
      /\ \A q, r \in born : ord[q] = ord[r] => q = r
  BY <1>1, <1>3 DEF Live, Tasks, PslistTypeOK, ListIsRight, IsOrder
<1>4. /\ next_task' \in [Tasks -> Tasks] /\ next_task'[last] = p /\ next_task'[p] = init_task
      /\ \A q \in Tasks \ {last, p} : next_task'[q] = next_task[q]
  BY <1>1, <1>2, <1>t DEF PslistTypeOK
<1>5. Live' = Live \cup {p}
  BY <1>1, <1>t DEF Live, PslistTypeOK
<1>6. PslistTypeOK'
  BY <1>1, <1>4, <1>5 DEF PslistTypeOK
<1>7. Walking' = Walking /\ WalksAlone' /\ SnapshotIsWhole'
  BY <1>1, SnapshotsStay DEF Walking, WalksAlone, PslistInv
<1> DEFINE new == [ord EXCEPT ![p] = k]
<1>8. /\ new \in [Tasks -> Nat] /\ new[p] = k /\ \A q \in Tasks \ {p} : new[q] = ord[q]
  BY <1>t
<1> HIDE DEF new
<1>9. IsOrder(new, k + 1)'
  BY <1>1, <1>8, <1>t DEF IsOrder
<1>10. \A q \in Live : ord[q] <= ord[last]
  BY <1>2, <1>3, <1>t DEF ListIsRight, LiveLinks, LeadsOn
<1>11. LiveLinks(new)'
  <2>1. ASSUME NEW q \in (Live \cup {init_task}) \ {last}
        PROVE  next_task'[q] \in Live' \cup {init_task} /\ LeadsOn(q, Live, new)'
    <3>1. q # p /\ next_task'[q] = next_task[q] /\ new[q] = ord[q]
      BY <1>1, <1>4, <1>8, <1>t, <2>1
    <3>2. next_task[q] \in Live \cup {init_task} /\ LeadsOn(q, Live, ord)
      BY <1>3 DEF ListIsRight, LiveLinks
    <3>3. last \in Live /\ ord[q] < ord[last]
      <4>1. last \in Live
        BY <1>2, <2>1
      <4>2. CASE q = init_task
        BY <1>t, <4>1, <4>2
      <4>3. CASE q \in Live
        BY <1>10, <1>t, <2>1, <4>1, <4>3
      <4> QED
        BY <4>1, <4>2, <4>3
    <3>4. next_task[q] # init_task /\ next_task[q] \in Live /\ next_task[q] # p
      BY <1>1, <1>t, <3>2, <3>3 DEF LeadsOn
    <3>5. new[next_task[q]] = ord[next_task[q]] /\ ord[next_task[q]] < k
      BY <1>8, <1>t, <3>4
    <3>6. \A r \in Live : new[r] = ord[r]
      BY <1>1, <1>8, <1>t
    <3> QED
      BY <1>5, <1>8, <1>t, <3>1, <3>2, <3>4, <3>5, <3>6 DEF LeadsOn
  <2>2. next_task'[last] \in Live' /\ LeadsOn(last, Live, new)'
    <3>1. new[last] = ord[last] /\ ord[last] < k /\ \A r \in Live : new[r] = ord[r]
      BY <1>1, <1>8, <1>t, <1>2
    <3>2. \A r \in Live : ~(new[last] < new[r])
      BY <1>10, <1>t, <3>1
    <3> QED
      BY <1>1, <1>4, <1>5, <1>8, <1>t, <3>1, <3>2 DEF LeadsOn
  <2>3. next_task'[p] = init_task /\ LeadsOn(p, Live, new)'
    <3>1. \A r \in Live' : ~(new[p] < new[r])
      BY <1>5, <1>8, <1>t
    <3> QED
      BY <1>4, <3>1 DEF LeadsOn
  <2> QED
    BY <1>2, <1>5, <2>1, <2>2, <2>3 DEF LiveLinks
<1>12. ASSUME NEW v \in Viewers, alone'[v] PROVE ViewIsRight(v, new)'
  <2>1. ViewIsRight(v, ord)
    BY <1>1, <1>3, <1>12 DEF ListIsRight
  <2>2. \A q \in born \cup {init_task} : new[q] = ord[q]
    BY <1>1, <1>8, <1>t
  <2>3. lasting[v] \in SUBSET Live
    BY <1>1 DEF PslistTypeOK
  <2>4. ASSUME v \in Walking PROVE Reaches(v, new)'
    <3>1. PICK R \in SUBSET (born \cup {init_task}) :
            /\ task_list \in R
            /\ \A q \in R : next_task[q] \in R \cup {init_task} /\ LeadsOn(q, lasting[v], ord)
      BY <2>1, <2>4 DEF ViewIsRight, Reaches
    <3> DEFINE S == R \cup {p}
    <3>2. S \in SUBSET (born' \cup {init_task}) /\ task_list' \in S
      BY <1>1, <3>1
    <3>3. \A r \in lasting[v] : new[r] = ord[r] /\ ord[r] <= ord[last] /\ ord[r] < k
      BY <1>10, <1>t, <2>2, <2>3
    <3>4. ASSUME NEW q \in R \ {last}
          PROVE  next_task'[q] \in S \cup {init_task} /\ LeadsOn(q, lasting[v], new)'
      <4>1. q \in born \cup {init_task} /\ q # p /\ q \in Tasks
        BY <1>1, <1>t, <3>1, <3>4
      <4>2. next_task'[q] = next_task[q] /\ new[q] = ord[q]
        BY <1>4, <2>2, <3>4, <4>1
      <4>3. next_task[q] \in R \cup {init_task} /\ LeadsOn(q, lasting[v], ord)
        BY <3>1, <3>4
      <4>4. new[next_task[q]] = ord[next_task[q]]
        BY <2>2, <3>1, <4>3
      <4> QED
        BY <1>1, <3>3, <4>2, <4>3, <4>4 DEF LeadsOn
    <3>5. next_task'[last] \in S /\ LeadsOn(last, lasting[v], new)'
      <4>1. new[last] = ord[last] /\ ord[last] < k
        BY <1>2, <1>t, <2>2
      <4>2. \A r \in lasting[v] : ~(new[last] < new[r])
        BY <1>t, <2>3, <3>3, <4>1
      <4> QED
        BY <1>1, <1>4, <1>8, <4>1, <4>2 DEF LeadsOn
    <3>6. next_task'[p] = init_task /\ LeadsOn(p, lasting[v], new)'
      <4>1. \A r \in lasting[v] : ~(new[p] < new[r])
        BY <1>8, <1>t, <2>3, <3>3
      <4> QED
        BY <1>1, <1>4, <4>1 DEF LeadsOn
    <3>7. \A q \in S : next_task'[q] \in S \cup {init_task} /\ LeadsOn(q, lasting[v], new)'
      BY <3>4, <3>5, <3>6
    <3> QED
      BY <1>1, <3>2, <3>7 DEF Reaches
  <2>5. ASSUME v \in Walking \/ viewer[v].pc = "read" PROVE LinesInOrder(v, new)' /\ WalkIsDone(v, new)'
    <3>1. LinesInOrder(v, ord) /\ WalkIsDone(v, ord)
      BY <2>1, <2>5 DEF ViewIsRight
    <3>2. LinesInOrder(v, new)'
      BY <1>1, <2>2, <3>1 DEF LinesInOrder
    <3>3. Listed(v)' = Listed(v) /\ Listed(v) \in SUBSET born
      BY <1>1, <3>1 DEF Listed, LinesInOrder
    <3>4. v \in Walking => task_list \in born \cup {init_task}
      BY <2>1 DEF ViewIsRight, Reaches
    <3>5. viewer[v].pc \in {"next", "pid", "rest"} => new[task_list] = ord[task_list]
      BY <2>2, <3>4 DEF Walking
    <3>6. WalkIsDone(v, new)'
      BY <1>1, <1>t, <2>2, <2>3, <3>1, <3>3, <3>5 DEF WalkIsDone
    <3> QED
      BY <3>2, <3>6
  <2> QED
    BY <1>1, <1>7, <2>4, <2>5 DEF ViewIsRight
<1>13. ListIsRight(new, k + 1)'
  BY <1>9, <1>11, <1>12 DEF ListIsRight
<1> QED
  BY <1>6, <1>7, <1>13 DEF PslistInv

\* The link to a process that ends goes past it; its own link stays.
LEMMA StepExit ==
    ASSUME PslistInv, NEW p \in Pids, Exit(p)
    PROVE  PslistInv'
<1>1. /\ PslistTypeOK /\ p \in Live /\ dead' = dead \cup {p} /\ p # init_task
      /\ lasting' = [v \in Viewers |-> lasting[v] \ {p}]
      /\ UNCHANGED <<task_list, born, viewer, shown, alone>>
  BY PslistAssumption DEF Exit, PslistInv, Live
<1>2. PICK before \in Live \cup {init_task} :
        /\ next_task[before] = p
        /\ next_task' = [next_task EXCEPT ![before] = next_task[p]]
  BY DEF Exit, Live
<1>3. PICK ord, k : ListIsRight(ord, k)
  BY DEF PslistInv
<1>t. /\ p \in Tasks /\ before \in Tasks /\ init_task \in Tasks /\ born \in SUBSET Tasks /\ Live \in SUBSET born
      /\ ord \in [Tasks -> Nat] /\ ord[init_task] = 0
      /\ \A q \in born : 0 < ord[q]
      /\ \A q, r \in born : ord[q] = ord[r] => q = r
  BY <1>1, <1>2, <1>3 DEF Live, Tasks, PslistTypeOK, ListIsRight, IsOrder
<1>4. /\ next_task' \in [Tasks -> Tasks] /\ next_task'[before] = next_task[p]
      /\ \A q \in Tasks \ {before} : next_task'[q] = next_task[q]
  BY <1>1, <1>2, <1>t DEF PslistTypeOK
<1>5. Live' = Live \ {p} /\ \A v \in Viewers : lasting'[v] = lasting[v] \ {p}
  BY <1>1 DEF Live
<1>6. PslistTypeOK'
  <2>1. lasting' \in [Viewers -> SUBSET Live'] /\ dead' \in SUBSET born'
    BY <1>1, <1>5 DEF PslistTypeOK, Live
  <2> QED
    BY <1>1, <1>4, <2>1 DEF PslistTypeOK
<1>7. Walking' = Walking /\ WalksAlone' /\ SnapshotIsWhole'
  BY <1>1, <1>5, SnapshotsStay DEF Walking, WalksAlone, PslistInv
<1>8. IsOrder(ord, k)'
  BY <1>1, <1>3 DEF ListIsRight, IsOrder
\* Going past p passes by nobody but p.
<1>9. ASSUME NEW S \in SUBSET Live, LeadsOn(before, S, ord), LeadsOn(p, S, ord)
      PROVE  /\ next_task[p] # init_task => ord[before] < ord[next_task[p]]
             /\ \A r \in S \ {p} : ord[before] < ord[r] => next_task[p] # init_task /\ ord[next_task[p]] <= ord[r]
  <2>1. ord[before] < ord[p] /\ next_task[p] \in Tasks
    BY <1>1, <1>2, <1>9, <1>t DEF LeadsOn, PslistTypeOK
  <2>2. next_task[p] # init_task => ord[before] < ord[next_task[p]]
    BY <1>9, <1>t, <2>1 DEF LeadsOn
  <2>3. ASSUME NEW r \in S \ {p}, ord[before] < ord[r]
        PROVE  next_task[p] # init_task /\ ord[next_task[p]] <= ord[r]
    <3>1. ord[p] <= ord[r] /\ ord[p] # ord[r]
      BY <1>1, <1>2, <1>9, <1>t, <2>3 DEF LeadsOn
    <3>2. ord[p] < ord[r]
      BY <1>t, <2>3, <3>1
    <3> QED
      BY <1>9, <2>3, <3>2 DEF LeadsOn
  <2> QED
    BY <2>2, <2>3
<1>10. LiveLinks(ord)'
  <2>0. \A q \in Live \cup {init_task} : next_task[q] \in Live \cup {init_task} /\ LeadsOn(q, Live, ord)
    BY <1>3 DEF ListIsRight, LiveLinks
  <2>1. ASSUME NEW q \in Live' \cup {init_task}, q # before
        PROVE  next_task'[q] \in Live' \cup {init_task} /\ LeadsOn(q, Live, ord)'
    <3>1. q \in Live \cup {init_task} /\ next_task'[q] = next_task[q]
      BY <1>4, <1>5, <1>t, <2>1
    <3>2. next_task[q] # p
      <4> SUFFICES ASSUME next_task[q] = p PROVE FALSE
        OBVIOUS
      <4>1. ord[q] < ord[p] /\ ord[before] < ord[p] /\ ord[q] # ord[before]
        BY <1>1, <1>2, <1>t, <2>0, <2>1, <3>1 DEF LeadsOn
      <4>2. CASE ord[q] < ord[before]
        BY <1>1, <1>2, <1>t, <2>0, <3>1, <4>1, <4>2 DEF LeadsOn
      <4>3. CASE ord[before] < ord[q]
        BY <1>1, <1>2, <1>t, <2>0, <3>1, <4>1, <4>3 DEF LeadsOn
      <4> QED
        BY <1>t, <3>1, <4>1, <4>2, <4>3
    <3> QED
      BY <1>5, <2>0, <3>1, <3>2 DEF LeadsOn
  <2>2. next_task'[before] \in Live' \cup {init_task} /\ LeadsOn(before, Live, ord)'
    <3>1. next_task[p] \in Live \cup {init_task} /\ next_task[p] # p
      BY <1>1, <1>t, <2>0 DEF LeadsOn
    <3>2. /\ next_task[p] # init_task => ord[before] < ord[next_task[p]]
          /\ \A r \in Live \ {p} : ord[before] < ord[r] => next_task[p] # init_task /\ ord[next_task[p]] <= ord[r]
      BY <1>1, <1>2, <1>9, <2>0
    <3> QED
      BY <1>4, <1>5, <3>1, <3>2 DEF LeadsOn
  <2> QED
    BY <2>1, <2>2 DEF LiveLinks
<1>11. ASSUME NEW v \in Viewers, alone'[v] PROVE ViewIsRight(v, ord)'
  <2>1. ViewIsRight(v, ord)
    BY <1>1, <1>3, <1>11 DEF ListIsRight
  <2>2. ASSUME v \in Walking PROVE Reaches(v, ord)'
    <3>1. PICK R \in SUBSET (born \cup {init_task}) :
            /\ task_list \in R
            /\ \A q \in R : next_task[q] \in R \cup {init_task} /\ LeadsOn(q, lasting[v], ord)
      BY <2>1, <2>2 DEF ViewIsRight, Reaches
    <3>2. ASSUME NEW q \in R PROVE next_task'[q] \in R \cup {init_task} /\ LeadsOn(q, lasting[v], ord)'
      <4>1. CASE q # before
        <5>1. next_task'[q] = next_task[q]
          BY <1>4, <1>t, <4>1
        <5> QED
          BY <1>5, <3>1, <5>1 DEF LeadsOn
      <4>2. CASE q = before
        <5>1. p \in R
          BY <1>1, <1>2, <3>1, <4>2
        <5>2. LeadsOn(before, lasting[v], ord) /\ LeadsOn(p, lasting[v], ord) /\ next_task[p] \in R \cup {init_task}
          BY <3>1, <4>2, <5>1
        <5>3. lasting[v] \in SUBSET Live
          BY <1>1 DEF PslistTypeOK
        <5>4. /\ next_task[p] # init_task => ord[before] < ord[next_task[p]]
              /\ \A r \in lasting[v] \ {p} :
                   ord[before] < ord[r] => next_task[p] # init_task /\ ord[next_task[p]] <= ord[r]
          BY <1>9, <5>2, <5>3
        <5> QED
          BY <1>4, <1>5, <4>2, <5>2, <5>4 DEF LeadsOn
      <4> QED
        BY <4>1, <4>2
    <3> QED
      BY <1>1, <3>1, <3>2 DEF Reaches
  <2>3. ASSUME v \in Walking \/ viewer[v].pc = "read" PROVE LinesInOrder(v, ord)' /\ WalkIsDone(v, ord)'
    <3>1. LinesInOrder(v, ord) /\ WalkIsDone(v, ord)
      BY <2>1, <2>3 DEF ViewIsRight
    <3> QED
      BY <1>1, <1>5, <3>1 DEF LinesInOrder, WalkIsDone, Listed
  <2> QED
    BY <1>1, <1>7, <2>2, <2>3 DEF ViewIsRight
<1>12. ListIsRight(ord, k)'
  BY <1>8, <1>10, <1>11 DEF ListIsRight
<1> QED
  BY <1>6, <1>7, <1>12 DEF PslistInv

LEMMA StepPslist == PslistInv /\ [PslistNext]_pslistVars => PslistInv'
<1> SUFFICES ASSUME PslistInv, [PslistNext]_pslistVars PROVE PslistInv'
  OBVIOUS
<1>1. ASSUME NEW p \in Pids, Fork(p) \/ Exit(p) PROVE PslistInv'
  BY <1>1, StepFork, StepExit
<1>2. ASSUME NEW v \in Viewers,
             \/ OpenFails(v) \/ Open(v) \/ Next_task(v) \/ LoadPid(v)
             \/ PrintTask(v) \/ ReadAndPrint(v) \/ Release(v)
      PROVE  PslistInv'
  BY <1>2, StepOpenFails, StepOpen, StepNextTask, StepLoadPid, StepPrintTask, StepReadAndPrint, StepRelease
<1>3. CASE UNCHANGED pslistVars
  <2>1. UNCHANGED <<task_list, next_task, born, dead, viewer, shown, lasting, alone>>
    BY <1>3 DEF pslistVars, taskVars
  <2>2. PslistTypeOK' /\ WalksAlone' /\ SnapshotIsWhole'
    BY <2>1 DEF PslistInv, PslistTypeOK, Live, WalksAlone, Walking, SnapshotIsWhole
  <2>3. PICK ord, k : ListIsRight(ord, k)
    BY DEF PslistInv
  <2>4. ListIsRight(ord, k)'
    <3>1. Live' = Live /\ Walking' = Walking
      BY <2>1 DEF Live, Walking
    <3>2. IsOrder(ord, k)'
      BY <2>1, <2>3 DEF ListIsRight, IsOrder
    <3>3. LiveLinks(ord)'
      BY <2>1, <2>3, <3>1 DEF ListIsRight, LiveLinks, LeadsOn
    <3>4. ASSUME NEW v \in Viewers, alone'[v] PROVE ViewIsRight(v, ord)'
      <4>1. ViewIsRight(v, ord)
        BY <2>1, <2>3, <3>4 DEF ListIsRight
      <4>2. Reaches(v, ord)' <=> Reaches(v, ord)
        BY <2>1 DEF Reaches, LeadsOn
      <4>3. LinesInOrder(v, ord)' <=> LinesInOrder(v, ord)
        BY <2>1 DEF LinesInOrder
      <4>4. WalkIsDone(v, ord)' <=> WalkIsDone(v, ord)
        BY <2>1 DEF WalkIsDone, Listed
      <4> QED
        BY <2>1, <3>1, <4>1, <4>2, <4>3, <4>4 DEF ViewIsRight
    <3> QED
      BY <3>2, <3>3, <3>4 DEF ListIsRight
  <2>5. \E o, c : ListIsRight(o, c)'
    BY <2>4
  <2> QED
    <3> HIDE DEF PslistTypeOK, WalksAlone, SnapshotIsWhole, ListIsRight
    <3>1. (\E o, c : ListIsRight(o, c))'
      BY <2>5
    <3> QED
      BY <2>2, <3>1, Zenon DEF PslistInv
<1> QED
  BY <1>1, <1>2, <1>3 DEF PslistNext

\* For any processes that come and go during the walk, a snapshot that overlaps
\* no other lists every process that lived all through it, each once and with its
\* own state (dev_open, dev_read and print_ps).
THEOREM SnapshotStaysWhole == PslistSpec => []SnapshotIsWhole
<1>1. PslistInv => SnapshotIsWhole
  BY DEF PslistInv
<1> QED
  BY <1>1, InitPslist, StepPslist, PTL DEF PslistSpec
=============================================================================
