----------------------------- MODULE MCServices -----------------------------
(***************************************************************************)
(* Small instances of LiveDelivery, GammaSimulation, RunStores and         *)
(* PointInTime for TLC.  The four share nothing: a behaviour has steps of  *)
(* one of them, and the others stay as they began.                         *)
(***************************************************************************)
EXTENDS LiveDelivery, GammaSimulation, RunStores, PointInTime, TLC

Market(c, p, f, d, b) == [call |-> c, put |-> p, futures |-> f, delta |-> d, band |-> b]

\* The futures move against the options' delta, and far enough to breach the limits.
MCScenarios ==
  { Market(1003, 1006, 50005, 0, 2), Market(1505, 704, 50604, 14, 3), Market(705, 1501, 49505, -20, 20),
    Market(1203, 1205, 50117, 5, 3), Market(904, 1303, 49806, -12, 1) }

MCCosts ==
  [option |-> [half_spread |-> 3, slippage |-> 2, rate_bps |-> 5, fixed |-> 25],
   futures |-> [half_spread |-> 4, slippage |-> 1, rate_bps |-> 2, fixed |-> 15]]

MCContract == [units |-> 1, multiplier |-> 2, futuresMultiplier |-> 3, futuresDelta |-> 10]

MCLimits ==
  [nav |-> 5000, premium |-> 600, theta |-> 10, position |-> 70, daily |-> 70, delta |-> 4, hedges |-> 2]

MCHedging == [interval |-> 2, target |-> 0, threshold |-> 3, lower |-> -2, upper |-> 4, cap |-> 4]

Horizon(d, e, x, s, h, l) ==
  [decisions |-> d, entry |-> e, expiry |-> x, safety |-> s, holding |-> h, last |-> l]

\* One ends with its holding horizon, one near the expiry, one with its path.
MCClocks == {Horizon(3, 1, 4, 1, 2, 5), Horizon(2, 1, 3, 1, 3, 5), Horizon(2, 0, 5, 1, 3, 3)}

Quote(i, contract, exchange, available, corrects) ==
  [id |-> i, contract |-> contract, type |-> "quote", version |-> <<contract, 1>>,
   mapping |-> <<contract, 1>>, exchange |-> exchange, available |-> available,
   basis |-> "received", order |-> 0, corrects |-> corrects]

\* Quotes 2 and 3 correct 1, or each other in a row or in a circle with 1; 4 is of
\* another contract or corrects across; 5 is imported; 6 has the new listing.
MCQuotes ==
  {Quote(1, "x", 1, 1, Unset), Quote(1, "x", 1, 3, 3), Quote(2, "x", 1, 2, 1),
   Quote(3, "x", 2, 3, 2), Quote(3, "x", 2, 2, 1), Quote(4, "y", 1, 2, 1), Quote(4, "y", 2, 2, Unset),
   [Quote(5, "x", 1, 1, Unset) EXCEPT !.basis = "historical_import", !.order = 1],
   [Quote(6, "x", 3, 3, 5) EXCEPT !.version = <<"x", 2>>, !.mapping = <<"x", 2>>]}

Judged(i, event, accepted, recorded) ==
  [id |-> i, event |-> event, policy |-> "strict", accepted |-> accepted, recorded |-> recorded]

MCAssessments ==
  {Judged(1, q, TRUE, 2) : q \in {1, 2, 3, 4, 6}} \cup
  {Judged(2, 5, TRUE, 1), Judged(3, 1, FALSE, 3), Judged(3, 2, FALSE, 3), Judged(0, 3, FALSE, 2)}

Listing(contract, n, until, recorded) ==
  [version |-> [id |-> <<contract, n>>, contract |-> contract, from |-> 1, until |-> until,
                recorded |-> recorded, superseded |-> Unset],
   mapping |-> [id |-> <<contract, n>>, version |-> <<contract, n>>, from |-> 1, until |-> Unset,
                recorded |-> recorded, superseded |-> Unset]]

MCIds == {"x", "y"} \X (1..2)

MCListed == ("x" :> Listing("x", 1, Unset, 1)) @@ ("y" :> Listing("y", 1, 3, 1))
MCRelisted == "x" :> Listing("x", 2, Unset, 3)

MCQueries == [market : 1..3, known : {Unset} \cup 1..3, policy : {"strict"}, defensible : BOOLEAN]

\* A part that stays as it began.
DeliveryAside == DeliveryInit /\ quotes = 0

SimulationAside ==
  /\ SimulationInit
  /\ policy = "no_hedge" /\ ~kill /\ clock = Horizon(2, 0, 5, 1, 3, 3)
  /\ observed = Market(1003, 1006, 50005, 0, 2)

StoresAside == StoresInit /\ store = "simulation"

EvidenceAside == EvidenceInit

ServicesInit ==
  \/ DeliveryInit /\ SimulationAside /\ StoresAside /\ EvidenceAside
  \/ DeliveryAside /\ SimulationInit /\ StoresAside /\ EvidenceAside
  \/ DeliveryAside /\ SimulationAside /\ StoresInit /\ EvidenceAside

ServicesNext ==
  \/ /\ SimulationAside /\ StoresAside /\ EvidenceAside
     /\ DeliveryNext /\ UNCHANGED <<simulationVars, storeVars, evidence>>
  \/ /\ DeliveryAside /\ StoresAside /\ EvidenceAside
     /\ SimulationNext /\ UNCHANGED <<deliveryVars, storeVars, evidence>>
  \/ /\ DeliveryAside /\ SimulationAside /\ EvidenceAside
     /\ StoresNext /\ UNCHANGED <<deliveryVars, simulationVars, evidence>>
  \/ /\ DeliveryAside /\ SimulationAside /\ StoresAside
     /\ EvidenceNext /\ UNCHANGED <<deliveryVars, simulationVars, storeVars>>

ServicesVars == <<deliveryVars, simulationVars, storeVars, evidence>>

ServicesSpec == ServicesInit /\ [][ServicesNext]_ServicesVars /\ DeliveryFairness
=============================================================================
