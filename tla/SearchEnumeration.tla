------------------------- MODULE SearchEnumeration -------------------------
(* The search implements Enumeration: while it reads bits it is one call    *)
(* under way, and the code it puts together counts when the call is over.   *)
EXTENDS OneWireSearch

CONSTANT NoCode

CallOf == IF at \in {"id", "cmp"} THEN "search" ELSE at
CodeOf == IF at = "report" THEN ROM_NO ELSE NoCode

Promise == INSTANCE Enumeration WITH call <- CallOf, code <- CodeOf, Codes <- Code

(* Bit by bit, the calls of search are one enumeration of the bus: every    *)
(* step is one that Enumeration allows (onewire.cpp 206-230, 248-362).      *)
ImplementsEnumeration == Promise!EnumerationSpec

(* Once the bus is quiet a round ends, whatever was upset before            *)
(* (onewire.cpp 266, 345): otherwise new devices would never be found.      *)
RoundsEnd == calm ~> at = "none"

============================================================================
