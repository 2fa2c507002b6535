------------------------------- MODULE MCRouter -------------------------------
(* Router with values for TLC. *)
EXTENDS Router

CONSTANTS m1, m2, m3

Usable(self, health, price) ==
  [capable |-> TRUE, allowed |-> TRUE, selfHosted |-> self, health |-> health, price |-> price]

\* Three prices, a self-hosted model that is dearer than some, and a card for each
\* reason to be passed over.
MCCards ==
  { Usable(FALSE, "healthy", 1), Usable(FALSE, "healthy", 2), Usable(FALSE, "degraded", 3),
    Usable(TRUE, "healthy", 2), Usable(FALSE, "down", 1),
    [Usable(FALSE, "healthy", 1) EXCEPT !.allowed = FALSE],
    [Usable(TRUE, "healthy", 1) EXCEPT !.capable = FALSE] }

\* No model, one, and a chain that names a model twice.
MCAsked == { <<>>, <<m3>>, <<m2, m3, m2>> }

MCDefaults == <<m1>>
=============================================================================
