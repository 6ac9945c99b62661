------------------------------ MODULE MCServices ------------------------------
(* Values for a small instance of Services that a .cfg cannot write. *)
EXTENDS Services, TLC

(* A company without any result yet, and one that won once and lost twice. *)
WinsAndLosses == {[ganhos |-> 0, total |-> 0, recente |-> FALSE],
                  [ganhos |-> 1, total |-> 3, recente |-> TRUE]}

AdapterList == <<"pncp", "bll", "comprasnet">>

(* Three weeks of opening dates, and every notice up to more than two. *)
OpeningDates == 0..20
BusinessDays == 0..12

(* Every price at which a cent of rounding is large, and some others. *)
BasePrices == 0..99 \cup {333, 9999}

(* Only billing knows tenants and plans, and it treats each like another.  *)
Symmetry == Permutations(Tenants) \cup Permutations(Plans)
=============================================================================
