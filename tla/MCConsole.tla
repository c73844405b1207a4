------------------------------ MODULE MCConsole ------------------------------
(***************************************************************************)
(* The parts of the console, each on its own.  They share no state, so a    *)
(* behaviour moves one of them only and the others stay as they begin.      *)
(***************************************************************************)
EXTENDS Console, TLC

MCSeed == [f \in Fields |-> CHOOSE v \in Values : TRUE]

VARIABLE part   \* which of them this behaviour is about

MCInit ==
    /\ part \in {"policies", "explorer", "accounts"}
    /\ Init /\ ExplorerInit /\ AccountsInit
    /\ part # "policies" => kind = "classification"
    /\ part # "explorer" => asked = Everything /\ walk = NotWalking
    /\ part # "accounts" => setting = NotANumber /\ provider = "local"

MCNext ==
    /\ UNCHANGED part
    /\ \/ part = "policies" /\ Next /\ UNCHANGED <<explorerVars, accountVars>>
       \/ part = "explorer" /\ ExplorerNext /\ UNCHANGED <<vars, accountVars>>
       \/ part = "accounts" /\ AccountsNext /\ UNCHANGED <<vars, explorerVars>>

MCSpec == MCInit /\ [][MCNext]_<<part, vars, explorerVars, accountVars>>

Symmetry == Permutations(Updates) \cup Permutations(Runs)
=============================================================================
