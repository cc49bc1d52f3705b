------------------------------ MODULE RegionLife ------------------------------
(***************************************************************************)
(* A region from the editor's canvas to the application that serves it:    *)
(* what one window has on its canvas, the reviews and manual edits inside  *)
(* its graph, and the database it is published to.  A behaviour is one of  *)
(* the three; the package on disk between them is NetworkEditor's.  The    *)
(* canvas sees of a package the revision and the network, the database a   *)
(* package whose hashes have been checked.                                 *)
(***************************************************************************)
EXTENDS RegionStore, EditorCanvas, Refinement

VARIABLE level

lifeVars == <<level, storeVars, canvasVars, refinementVars>>

LifeInit ==
    /\ level \in {"canvas", "review", "store"}
    /\ StoreInit /\ CanvasInit /\ RefinementInit
    /\ level # "store" => \A r \in Regions : stored[r] = {}

LifeNext ==
    \/ level = "canvas" /\ CanvasNext /\ UNCHANGED <<level, storeVars, refinementVars>>
    \/ level = "review" /\ RefinementNext /\ UNCHANGED <<level, storeVars, canvasVars>>
    \/ level = "store" /\ StoreNext /\ UNCHANGED <<level, canvasVars, refinementVars>>

LifeSpec == LifeInit /\ [][LifeNext]_lifeVars
-----------------------------------------------------------------------------
\* A reviewer can rely on what the editor says of its questions: which reviews still
\* hold, what an answer would change and that it changes nothing else.
RefinementSound == level = "review" => ReviewHolds /\ ScenariosComeTrue /\ DecisionsAreLocal

\* What a person has drawn is what is kept and saved: on the canvas the history leads
\* back to what was there, a clean canvas is the saved revision and a save takes back
\* nothing others have saved; of the reviews and edits in a graph exactly what was
\* drawn is written, and never onto another generated network.
EditsKept ==
    [][/\ level = "canvas" => CanvasKept
       /\ level = "review" => SavedIsDrawn]_<<canvasVars, refinementVars>>
==============================================================================
