------------------------------- MODULE MCOta --------------------------------
(* Ota with partitions in the proportions of partitions.csv: the factory      *)
(* image fits only its own partition, "big" only that and ota_0.              *)
EXTENDS Ota, TLC

MCBlocks == [base |-> 4, big |-> 3, app1 |-> 2, app2 |-> 1]
MCImages == DOMAIN MCBlocks
MCRoom == [factory |-> 4, ota_0 |-> 3, ota_1 |-> 2]
MCServes == [u0 |-> "base", u1 |-> "app1", u2 |-> "app2", u3 |-> "big", u4 |-> "none"]
AllUrls == DOMAIN MCServes
SmallUrls == {"u1", "u2"}
Serves_AllUrls == MCServes
Serves_SmallUrls == [u \in SmallUrls |-> MCServes[u]]
=============================================================================
