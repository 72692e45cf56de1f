-------------------------------- MODULE Moesi --------------------------------
(***************************************************************************)
(* The MOESI cache simulator (computer_arch/third_project/Moesi/main.c).   *)
(* A trace of reads and writes is applied to a few caches that snoop a     *)
(* bus. An access that misses probes every other cache; a write to a       *)
(* shared line invalidates the others. The simulator is sequential, so one *)
(* access with all its probes is one step.                                 *)
(***************************************************************************)
EXTENDS Naturals

CONSTANTS Caches,       \* 0 .. MAXCACHE - 1
          AddressLines  \* 0 .. MAXADDRESSLINES - 1

ASSUME LinesAssumption == AddressLines # {}

VARIABLES current_state,  \* current_state[c][l]: state of line l in cache c
          running         \* main's loop has not met a bad input

vars == <<current_state, running>>

States == {"M", "O", "E", "S", "I"}

TypeOK == /\ current_state \in [Caches -> [AddressLines -> States]]
          /\ running \in BOOLEAN

\* initializeCaches
Init == /\ current_state = [c \in Caches |-> [l \in AddressLines |-> "I"]]
        /\ running = TRUE

-----------------------------------------------------------------------------
\* Mistaken variants: a probe forgets that the copy is dirty (MESI without the
\* write-back), or leaves an exclusive copy exclusive.
AfterProbeForgets(s) == IF s \in {"M", "E"} THEN "S" ELSE s

AfterProbeKeeps(s) == IF s = "M" THEN "O" ELSE s

\* What a cache makes of its copy when another cache's read probe hits it,
\* and whether it answers with a hit.
AfterProbeRead(s) == CASE s = "M" -> "O"
                       [] s = "E" -> "S"
                       [] OTHER -> s

HitsElsewhere(c, l) == \E d \in Caches \ {c} : current_state[d][l] # "I"

\* Every cache d passes to step(d) on line l.
Update(l, step(_)) ==
    current_state' = [d \in Caches |-> [current_state[d] EXCEPT ![l] = step(d)]]

\* readLine: a copy in any valid state is a hit and nothing changes.
ReadHit(c, l) == /\ current_state[c][l] # "I"
                 /\ UNCHANGED current_state

\* Mistaken variant: the line is always filled shared.
ReadMissShared(c, l) ==
    /\ current_state[c][l] = "I"
    /\ Update(l, LAMBDA d : IF d = c THEN "S" ELSE AfterProbeRead(current_state[d][l]))

\* readLine on an invalid copy: busRead probes all the others, and the line
\* is filled shared if one of them had it and exclusive if none had.
ReadMiss(c, l) ==
    /\ current_state[c][l] = "I"
    /\ Update(l, LAMBDA d : IF d # c THEN AfterProbeRead(current_state[d][l])
                            ELSE IF HitsElsewhere(c, l) THEN "S" ELSE "E")

\* writeLine on M or E: the only copy, so no bus traffic.
WriteOwned(c, l) == /\ current_state[c][l] \in {"M", "E"}
                    /\ Update(l, LAMBDA d : IF d = c THEN "M" ELSE current_state[d][l])

\* writeLine on S or O: invalidate() every other copy.
WriteShared(c, l) == /\ current_state[c][l] \in {"S", "O"}
                     /\ Update(l, LAMBDA d : IF d = c THEN "M" ELSE "I")

\* writeLine on an invalid copy: busWrite probes, and every valid copy it
\* finds becomes invalid.
WriteMiss(c, l) == /\ current_state[c][l] = "I"
                   /\ Update(l, LAMBDA d : IF d = c THEN "M" ELSE "I")

\* One line of input names a cache, an access and a line.
Access(c, l) == /\ running
                /\ \/ ReadHit(c, l)
                   \/ ReadMiss(c, l)
                   \/ WriteOwned(c, l)
                   \/ WriteShared(c, l)
                   \/ WriteMiss(c, l)
                /\ UNCHANGED running

\* getInput fails to parse, or the cache or the line is out of range.
BadInput == /\ running
            /\ running' = FALSE
            /\ UNCHANGED current_state

Next == \/ \E c \in Caches, l \in AddressLines : Access(c, l)
        \/ BadInput

Spec == Init /\ [][Next]_vars
-----------------------------------------------------------------------------
\* A modified or exclusive copy is the only one: its cache may write without
\* telling the others (main.c:137 and 146 send no probe).
SoleOwner ==
    \A c, d \in Caches, l \in AddressLines :
        c # d /\ current_state[c][l] \in {"M", "E"} => current_state[d][l] = "I"

\* At most one cache answers for a line that memory does not hold: an owned
\* copy has only shared copies beside it, after any history of probes.
OneOwner ==
    \A c, d \in Caches, l \in AddressLines :
        c # d /\ current_state[c][l] = "O" => current_state[d][l] \in {"S", "I"}

\* Whoever may write silently is alone, and whoever answers for memory has no
\* rival: the two claims that every probe of main.c has to keep together.
OwnersExclude == SoleOwner /\ OneOwner

\* A shared or owned copy is never the last one. A cache in S or O pays for
\* an invalidation when it writes, which would be waste if it were alone.
SharedIsShared ==
    \A c \in Caches, l \in AddressLines :
        current_state[c][l] \in {"S", "O"} => HitsElsewhere(c, l)

\* The simulator implements CoherentLines: no access leaves a stale copy
\* behind, and the last dirty copy of a line (M or O) never vanishes although
\* there is no write-back anywhere in main.c.
Coherent == INSTANCE CoherentLines WITH
    copies <- [l \in AddressLines |-> {c \in Caches : current_state[c][l] # "I"}],
    dirty <- [l \in AddressLines |->
                 \E c \in Caches : current_state[c][l] \in {"M", "O"}]
IsCoherent == Coherent!Spec
=============================================================================
