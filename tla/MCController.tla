---------------------------- MODULE MCController ----------------------------
(* Two workers, a gateway and a controller that may restart: the constants  *)
(* are given in MCController.cfg and the instances beside it.               *)
EXTENDS Controller
=============================================================================
