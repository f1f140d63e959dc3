--------------------------- MODULE MCBaseDriver ---------------------------
(***************************************************************************)
(* Instances of BaseDriver for TLC.                                        *)
(***************************************************************************)
EXTENDS BaseDriver

TwoCalls == {"c1", "c2"}

Asking(s1, a1, s2, a2) ==
  [c \in TwoCalls |-> IF c = "c1" THEN [service |-> s1, arg |-> a1]
                                  ELSE [service |-> s2, arg |-> a2]]

\* The same service twice, or two services with a value that fits a byte only
\* once it is cut.
SomeAsks ==
  {Asking("set_digital_output", 1, "set_digital_output", 1),
   Asking("set_led_color", 257, "get_digital_input", 257)}
=============================================================================
