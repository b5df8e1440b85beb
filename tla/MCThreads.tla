------------------------------ MODULE MCThreads ------------------------------
(* Three threads beside the client's, each in an instance of its own: the     *)
(* dump thread of LayerDump, for one display, the timer of Recomposition and  *)
(* the event thread of ComposerService.  They share nothing here, so a        *)
(* behaviour is one of the three.                                             *)
EXTENDS LayerDump, Recomposition, ComposerService

CONSTANT pri

VARIABLE moves  \* "dump", "timer" or "events"

ThreadsInit ==
  /\ Init /\ RecompositionInit /\ ServiceInit
  /\ moves \in {"dump", "timer", "events"}
  /\ moves # "timer" => ~use

ThreadsNext ==
  /\ UNCHANGED moves
  /\ \/ moves = "dump" /\ Next /\ UNCHANGED <<recompositionVars, serviceVars>>
     \/ moves = "timer" /\ RecompositionNext /\ UNCHANGED <<vars, serviceVars>>
     \/ moves = "events" /\ ServiceNext /\ UNCHANGED <<vars, recompositionVars>>

ThreadsSpec ==
  /\ ThreadsInit /\ [][ThreadsNext]_<<vars, recompositionVars, serviceVars, moves>>
  /\ moves = "dump" => Fairness
  /\ moves = "timer" => RecompositionFairness
=============================================================================
