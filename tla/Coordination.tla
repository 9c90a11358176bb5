----------------------------- MODULE Coordination -----------------------------
(* The three programs of coordination/, one after the other in one run: the  *)
(* initial state picks the exercise, and the others stand still.             *)
EXTENDS Barrier

CONSTANTS Men, Women, BATH_MAX, MaxValue \* Bathrooms

VARIABLES exercise,
          sem, ocpp, inside, loaded, wpc, \* Bathrooms
          value, at, spoken               \* Robots

bathVars  == <<sem, ocpp, inside, loaded, wpc>>
robotVars == <<value, at, spoken>>
allVars   == <<exercise, vars, bathVars, robotVars>>

B == INSTANCE Bathrooms
       WITH count <- inside, pc <- wpc
R == INSTANCE Robots

ASSUME PeopleAssumption == B!BathroomsAssumption

CoordInit ==
  /\ exercise \in {"barrier", "bathrooms", "robots"}
  /\ Init /\ B!Init /\ R!Init
  /\ exercise # "barrier" => paced

CoordNext ==
  /\ UNCHANGED exercise
  /\ \/ exercise = "barrier" /\ Next /\ UNCHANGED <<bathVars, robotVars>>
     \/ exercise = "bathrooms" /\ B!Next /\ UNCHANGED <<vars, robotVars>>
     \/ exercise = "robots" /\ R!Next /\ UNCHANGED <<vars, bathVars>>

CoordSpec == CoordInit /\ [][CoordNext]_allVars

-----------------------------------------------------------------------------
(* bathrooms.c: the count is that of the threads inside, and bounded.        *)
CountExact == B!CountExact

(* robots.c: the three speak in turn.                                        *)
SpokenInTurn == R!SpokenInTurn

(* bathrooms.c, not achieved: men and women are never inside together.       *)
Apart == B!Apart
=============================================================================
