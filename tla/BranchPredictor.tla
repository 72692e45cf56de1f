--------------------------- MODULE BranchPredictor ---------------------------
(***************************************************************************)
(* branch_predictor.c: a tournament of a local predictor, with a counter   *)
(* per branch, and a global one, with a counter per history of outcomes.   *)
(* selector_states is never initialised: its first contents are any.       *)
(***************************************************************************)
EXTENDS Integers, Sequences, FiniteSetsExt

CONSTANTS Ids,          \* the branches, below MAXIMUM_BRANCHES
          HistoryBits,  \* the global table has 2^HistoryBits counters: 6 in the code
          Garbage,      \* what selector_states may hold at first
          MaxBranches   \* bound: the branches of the input file

ASSUME HistoryAssumption == HistoryBits \in Nat

VARIABLES local_predictor_states, global_predictor_states, selector_states,
          last_global_predictor_index,
          counts,    \* the predictions that were correct: local, global, tournament
          agreed,    \* history: how often both predictors were right, and wrong
          executed   \* history: the branches so far, <<id, taken>>

predictorVars == <<local_predictor_states, global_predictor_states, selector_states,
                   last_global_predictor_index, counts, agreed, executed>>

\* 2^n, in a form that can be reasoned about.
PowerOfTwo(n) == LET power[k \in 0..n] == IF k = 0 THEN 1 ELSE 2 * power[k - 1] IN power[n]

MAXIMUM_GLOBAL_PREDICTOR_STATES == PowerOfTwo(HistoryBits)

PredictorInit == /\ local_predictor_states = [b \in Ids |-> 0]
                 /\ global_predictor_states = [h \in 0..(MAXIMUM_GLOBAL_PREDICTOR_STATES - 1) |-> 0]
                 /\ selector_states = [b \in Ids |-> 0]
                 /\ last_global_predictor_index = 0
                 /\ counts = [local |-> 0, global |-> 0, tournament |-> 0]
                 /\ agreed = [right |-> 0, wrong |-> 0]
                 /\ executed = <<>>

\* The declaration of the table, which the code never fills.
Uninitialised == /\ executed = <<>>
                 /\ selector_states' \in [Ids -> Garbage]
                 /\ UNCHANGED <<local_predictor_states, global_predictor_states,
                                last_global_predictor_index, counts, agreed, executed>>

Predict(state) == IF state > 1 THEN 1 ELSE 0
do_local_prediction(b) == Predict(local_predictor_states[b])
do_global_prediction == Predict(global_predictor_states[last_global_predictor_index])
do_selection(b) == Predict(selector_states[b])
do_tournament_prediction(selection, global, local) == IF selection = 0 THEN local ELSE global

\* Mistaken variant: the counter goes round.
Wrapped(state, taken) == IF taken = 1 THEN (state + 1) % 4 ELSE (state + 3) % 4

\* A counter of two bits.
Saturated(state, taken) == IF taken = 1 /\ state < 3 THEN state + 1
                           ELSE IF taken = 0 /\ state > 0 THEN state - 1 ELSE state

update_local_predictor(b, taken) ==
    local_predictor_states' = [local_predictor_states EXCEPT ![b] = Saturated(@, taken)]

update_global_predictor(taken) ==
    /\ global_predictor_states' =
         [global_predictor_states EXCEPT ![last_global_predictor_index] = Saturated(@, taken)]
    /\ last_global_predictor_index' = (2 * last_global_predictor_index + taken) % MAXIMUM_GLOBAL_PREDICTOR_STATES

\* The selector moves to the predictor that was right when the other was not.
update_selector(b, local, global, taken) ==
    selector_states' =
        IF local = global THEN selector_states
        ELSE [selector_states EXCEPT
                ![b] = IF local = taken /\ @ > 0 THEN @ - 1
                       ELSE IF global = taken /\ @ < 3 THEN @ + 1 ELSE @]

Hit(prediction, taken) == IF prediction = taken THEN 1 ELSE 0

\* One turn of main's loop.
Branch(b, taken) ==
    LET local == do_local_prediction(b)
        global == do_global_prediction
        prediction == do_tournament_prediction(do_selection(b), global, local)
    IN  /\ Len(executed) < MaxBranches
        /\ counts' = [local |-> counts.local + Hit(local, taken),
                      global |-> counts.global + Hit(global, taken),
                      tournament |-> counts.tournament + Hit(prediction, taken)]
        /\ update_local_predictor(b, taken)
        /\ update_global_predictor(taken)
        /\ update_selector(b, local, global, taken)
        /\ agreed' = [right |-> agreed.right + Min({Hit(local, taken), Hit(global, taken)}),
                      wrong |-> agreed.wrong + 1 - Max({Hit(local, taken), Hit(global, taken)})]
        /\ executed' = Append(executed, <<b, taken>>)

PredictorNext == Uninitialised \/ \E b \in Ids, taken \in {0, 1} : Branch(b, taken)

PredictorSpec == PredictorInit /\ [][PredictorNext]_predictorVars

----------------------------------------------------------------------------
\* The last two outcomes of b were both taken.
Repeated(b, taken) ==
    \E i, j \in DOMAIN executed :
      /\ i < j /\ executed[i] = <<b, taken>> /\ executed[j] = <<b, taken>>
      /\ \A k \in DOMAIN executed : k > i /\ executed[k][1] = b => k = j

\* Two equal outcomes of a branch in a row are what its counter predicts next;
\* the index of the global table spells the latest outcomes of all branches;
\* and the tournament is right at least where both are, wrong where both are,
\* whatever its table held at the start.
PredictorsLearn ==
    /\ \A b \in Ids, taken \in {0, 1} :
         Repeated(b, taken) => do_local_prediction(b) = taken
    /\ \A k \in 0..(HistoryBits - 1) :
         (last_global_predictor_index \div PowerOfTwo(k)) % 2 =
            IF k < Len(executed) THEN executed[Len(executed) - k][2] ELSE 0
    /\ counts.tournament \in agreed.right..(Len(executed) - agreed.wrong)
=============================================================================
