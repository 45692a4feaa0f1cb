--------------------------- MODULE MCGraceDbCache ---------------------------
(***************************************************************************)
(* GraceDbCache with one run after another: a first skymap by BAYESTAR and *)
(* a later one by Bilby, the p_astro of one pipeline or of two.            *)
(***************************************************************************)
EXTENDS GraceDbCache

CONSTANT r1

Bayestar == [producer |-> "bayestar", format |-> "multiorder.fits"]
Bilby == [producer |-> "bilby", format |-> "multiorder.fits"]

TwoSkymaps == {Bayestar, Bilby}
OneSkymap == {Bayestar}

(* BAYESTAR is revised once, p_astro as well; Bilby comes late.            *)
RevisedListing ==
  [skymap  |-> [n \in Skymaps |-> IF n = Bayestar THEN 2 ELSE 1],
   p_astro |-> [n \in PAstros |-> IF n = Generic THEN 0 ELSE 2]]

(* Each file comes once.                                                   *)
FirstListing ==
  [skymap  |-> [n \in Skymaps |-> 1],
   p_astro |-> [n \in PAstros |-> IF n = Generic THEN 0 ELSE 1]]

FirstPasses == {<<"gstlal", 1>>}
BothPass == {<<"gstlal", 1>>, <<"mbta", 1>>}
=============================================================================
