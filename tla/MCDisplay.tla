------------------------------ MODULE MCDisplay -----------------------------
(***************************************************************************)
(* Two sources whose entries interleave in every order that is sorted by,  *)
(* and lists that are too short for all of them.                           *)
(***************************************************************************)
EXTENDS Display

H(id, online) == [id |-> id, online |-> online]
G(id, pinned) == [id |-> id, pinned |-> pinned, running |-> pinned]
T(id, started) == [id |-> id, started |-> started]
I(id, created) == [id |-> id, created |-> created]
A(id, severity) == [id |-> id, severity |-> severity]

MCInventories ==
  [s \in Sources |->
     IF s = 1
     THEN {None,
           [hosts |-> {H(1, TRUE), H(4, FALSE)}, guests |-> {G(1, FALSE), G(4, TRUE)},
            tasks |-> {T(1, 5), T(4, 1)}, items |-> {I(1, 1), I(4, 1)},
            alerts |-> {A(1, "warning"), A(4, "critical")}],
           [hosts |-> {H(1, TRUE)}, guests |-> {G(1, FALSE), G(4, FALSE)},
            tasks |-> {T(1, 2), T(4, 2)}, items |-> {I(1, 3), I(4, 2)},
            alerts |-> {A(1, "warning")}]}
     ELSE {None,
           [hosts |-> {H(2, TRUE), H(3, TRUE)}, guests |-> {G(2, TRUE), G(3, FALSE)},
            tasks |-> {T(2, 1), T(3, 3)}, items |-> {I(2, 2), I(3, 1)},
            alerts |-> {A(2, "critical"), A(3, "warning")}],
           [hosts |-> {H(2, TRUE), H(3, TRUE)}, guests |-> {G(2, FALSE), G(3, FALSE)},
            tasks |-> {T(2, 5), T(3, 4)}, items |-> {I(2, 1), I(3, 4)},
            alerts |-> {}]}]
=============================================================================
