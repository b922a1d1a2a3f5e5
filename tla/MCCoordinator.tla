----------------------------- MODULE MCCoordinator -----------------------------
(***************************************************************************)
(* One command that meets the poll, again and again.  Nothing tells the    *)
(* bolt's two positions apart, so that one of them will do to begin with.  *)
(***************************************************************************)
EXTENDS Coordinator

OneCommand == {"command"}

BeginsLocked == CoordinatorInit /\ bolt = "locked"

FairFromLocked == BeginsLocked /\ [][CoordinatorNext]_cvars /\ CoordinatorFairness
===============================================================================
