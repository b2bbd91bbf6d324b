------------------------------ MODULE MCRaces ------------------------------
(***************************************************************************)
(* The outbox and the machine at sizes that only their safety is checked   *)
(* at, for TLC.  They share no table: `at` says of which a behaviour is.   *)
(***************************************************************************)
EXTENDS NoteOutbox, MachineLease, TLC

VARIABLE at

racesVars == <<at, outboxVars, machineVars>>

RacesSymmetry ==
    Permutations(Requests) \cup Permutations(Drains) \cup Permutations(Jobs) \cup Permutations(Paths)

\* A service that does not run has one initial state.
RacesInit ==
    /\ at \in {"outbox", "machine"}
    /\ OutboxInit /\ MachineInit
    /\ at # "outbox" => \A p \in Paths : note[p] = 0
    /\ at # "machine" => hours = CHOOSE n \in Allowances : TRUE

OutboxRaces == at = "outbox" /\ OutboxNext /\ UNCHANGED <<at, machineVars>>

MachineRaces == at = "machine" /\ MachineNext /\ UNCHANGED <<at, outboxVars>>

RacesSpec == RacesInit /\ [][OutboxRaces \/ MachineRaces]_racesVars
=============================================================================
