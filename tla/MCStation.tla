------------------------------ MODULE MCStation ------------------------------
EXTENDS Station
Make(cmd, value) ==
    [cmd |-> cmd, value |-> value, bit |-> 1, on |-> TRUE, reset |-> FALSE, address |-> TRUE]
(* One request of every kind, the hard reset and a wrong address.          *)
EveryKind ==
    { Make("DIRECT_WRITE_BYTE", {0}), Make("DIRECT_WRITE_BIT", {}),
      Make("DIRECT_READ_BYTE", {}), Make("DIRECT_READ_BIT", {}),
      Make("PAGED_WRITE_BYTE", {1}), Make("PAGED_VERIFY_BYTE", {0}),
      [Make("PAGED_WRITE_BYTE", {0, 1}) EXCEPT !.reset = TRUE],
      Make("PAGED_READ_BYTE", {}), Make("POM_READ_BYTE", {}),
      [Make("POM_READ_BYTE", {}) EXCEPT !.address = FALSE],
      Make("POM_WRITE_BYTE", {1}) }

Find(digits) == [kind |-> "find", digits |-> digits, exact |-> FALSE, allocate |-> FALSE]
Create(digits) == [Find(digits) EXCEPT !.exact = TRUE, !.allocate = TRUE]
(* A find, and an allocation of a train that it finds as well and that     *)
(* adds a digit to it.                                                     *)
SomeQueries == {Find(1), Create(13)}
OneConst == <<2>>
(* One train, and a slot after a factory reset. *)
Empty == [address |-> 0, mode |-> "unused"]
FileOfTwo == <<Dcc(12), Empty>>
(* The train is given another address or cleared; the slot gets the        *)
(* address first and the protocol second.                                  *)
SomeEdits == <<{Dcc(12), Dcc(13), Dcc(0)}, {Empty, [Empty EXCEPT !.address = 13], Dcc(13)}>>
=============================================================================
