----------------------------- MODULE MCRegistry -----------------------------
(***************************************************************************)
(* The application may create servo stages (one slot allowed, so a second  *)
(* one finds none), hardware inverse stages (five slots) and a software    *)
(* inverse stage; three threads in all.                                    *)
(***************************************************************************)
EXTENDS Registry

MCFunctions == {HwtServo, HwtInverse, SwtInverse}
=============================================================================
