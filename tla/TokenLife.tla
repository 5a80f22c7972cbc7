------------------------------ MODULE TokenLife ------------------------------
(***************************************************************************)
(* What the auth service promises of a session token: it is issued once,   *)
(* is accepted while its row is valid and may linger for a while after,    *)
(* and once it is refused it is refused for good.                          *)
(***************************************************************************)
CONSTANT Keys
VARIABLE phase

Phases == {"unissued", "live", "lingering", "dead"}

\* A rotation moves several tokens in one step.
Moves == {<<p, p>> : p \in Phases} \union
         {<<"unissued", "live">>, <<"live", "lingering">>, <<"live", "dead">>,
          <<"lingering", "dead">>}

Init == phase = [k \in Keys |-> "unissued"]

Next == /\ phase' \in [Keys -> Phases]
        /\ \A k \in Keys : <<phase[k], phase'[k]>> \in Moves

Spec == Init /\ [][Next]_phase
=============================================================================
