--------------------------- MODULE MCGpioMapping ----------------------------
(* Instances of GpioMapping for TLC. *)
EXTENDS GpioMapping

PlainNames == {<<"led">>, <<"fan">>, <<"door">>}

\* A pin, and a list.
SomeTexts == {<<"6">>, <<"led", "door">>}

\* A build that allows all pins, and one that allows fewer.
TwoPolicies == {{"4", "5", "6"}, {"4", "5"}}
=============================================================================
