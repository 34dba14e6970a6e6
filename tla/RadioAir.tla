------------------------------ MODULE RadioAir ------------------------------
(* What a transparent radio promises: the bytes that the microcontroller of  *)
(* a modem gives it reach the microcontrollers of the others in that order,  *)
(* each at most once, and never come back to the first.  Any of them may be  *)
(* lost.  (A byte that nobody sent is no step here: see RadioModem.)         *)
EXTENDS Naturals

CONSTANT Stations

VARIABLES
    given,      \* number of bytes every station was given
    reached     \* last byte of every station that reached every other

airVars == <<given, reached>>

AirTypeOK ==
    /\ given \in [Stations -> Nat]
    /\ reached \in [Stations -> [Stations -> Nat]]

AirInit ==
    /\ given = [n \in Stations |-> 0]
    /\ reached = [m \in Stations |-> [n \in Stations |-> 0]]

\* Several stations may act at the same instant: a step gives bytes to some
\* and delivers a byte to some others.
AirNext ==
    /\ \A n \in Stations : given'[n] \in {given[n], given[n] + 1}
    /\ DOMAIN given' = Stations /\ DOMAIN reached' = Stations
    /\ \A m \in Stations :
         /\ DOMAIN reached'[m] = Stations
         /\ reached'[m] # reached[m] =>
              \E n \in Stations \ {m} : \E k \in 1..given[n] :
                /\ k > reached[m][n]
                /\ reached'[m] = [reached[m] EXCEPT ![n] = k]

AirSpec == AirInit /\ [][AirNext]_airVars
=============================================================================
