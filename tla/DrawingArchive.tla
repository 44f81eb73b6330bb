--------------------------- MODULE DrawingArchive ---------------------------
(***************************************************************************)
(* What the browser history of drawings promises an account, whatever the  *)
(* number of tabs: drawings are added, the oldest may be dropped, and a    *)
(* clear is final.  Nothing that is dead is ever kept again.               *)
(***************************************************************************)
CONSTANT Drawings

VARIABLES kept,   \* the drawings of the account
          dead    \* drawings that a clear has ended

Init == kept = {} /\ dead = {}

Keep == /\ \E S \in SUBSET (Drawings \ dead) : kept' \subseteq kept \cup S
        /\ dead' = dead

Clear == /\ kept' = {}
         /\ dead \cup kept \subseteq dead'

\* A drawing that is not kept may be given up.
Abandon == /\ dead \subseteq dead'
           /\ dead' \cap kept = {}
           /\ kept' = kept

Next == Keep \/ Clear \/ Abandon

Spec == Init /\ [][Next]_<<kept, dead>>
=============================================================================
