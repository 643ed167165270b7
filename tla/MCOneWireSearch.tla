--------------------------- MODULE MCOneWireSearch ---------------------------
(* Model checking of OneWireSearch with codes of four bits: two of the family, *)
(* one of the serial number, and one of check sum, the parity of the others.   *)
EXTENDS SearchEnumeration

MCValidCodes ==
  {c \in [1 .. 4 -> {0, 1}] : c[4] = (c[1] + c[2] + c[3]) % 2}
MCDevices    == {<<1, 0, 0, 1>>, <<1, 0, 1, 0>>, <<0, 1, 0, 1>>, <<1, 1, 0, 0>>}
ThreeDevices == {<<1, 0, 0, 1>>, <<1, 0, 1, 0>>, <<0, 1, 0, 1>>}
Ones         == {<<1, 1>>}
NoTargets    == {}

============================================================================
