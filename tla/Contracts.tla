------------------------------ MODULE Contracts ------------------------------
(***************************************************************************)
(* The contracts of a company and the three pages computed from them: the  *)
(* contract dashboard, the alerts and the health score.  The store is the  *)
(* only state; nothing in it changes with time, but every page reads the   *)
(* date, so what a page shows changes while nobody does anything.  The     *)
(* store's methods suspend nowhere and are one action each.                *)
(***************************************************************************)
EXTENDS Absent, Integers, FiniteSets

CONSTANTS
  ContractIds,
  Days,      \* bound: the dates that occur, of which today goes through some
  Organs,    \* orgao_cnpj
  Statuses,  \* bound: the statuses used, among StatusContrato
  RunResults \* bound: what the health score may be told of the runs

(* The payment term of every contract, the default of prazo_pagamento_dias. *)
PrazoPagamento == 30

StatusContrato == {"ativo", "vencido", "encerrado", "renovado"}
StatusEmpenho == {"emitido", "liquidado", "pago", "cancelado"}

(* What Services assumes of these constants. *)
ContractsFit ==
  /\ Days \subseteq Nat /\ Days # {}
  /\ {"ativo", "encerrado"} \subseteq Statuses /\ Statuses \subseteq StatusContrato
  /\ RunResults \subseteq [ganhos: Nat, total: Nat, recente: BOOLEAN]

VARIABLES
  hoje,      \* date.today()
  contracts  \* ContractStore._contracts, with at most one empenho each

ContractsVars == <<hoje, contracts>>

Empenho == [status: StatusEmpenho, emissao: Days]
ContractRecord == [status: Statuses, vencimento: Days, orgao: Organs,
             empenhos: {{}} \cup {{e} : e \in Empenho}]

ContractsInit ==
  /\ hoje \in {d \in Days : \A e \in Days : d <= e}
  /\ contracts = [c \in ContractIds |-> None]

Stored == {c \in ContractIds : contracts[c] # None}
-----------------------------------------------------------------------------
DaysPass ==
  /\ hoje' \in {d \in Days : d > hoje}
  /\ UNCHANGED contracts

Create(c, vencimento, orgao) ==
  /\ c \notin Stored
  /\ contracts' = [contracts EXCEPT ![c] =
       [status |-> "ativo", vencimento |-> vencimento, orgao |-> orgao, empenhos |-> {}]]
  /\ UNCHANGED hoje

(* Any field to any value: a status may contradict the due date.           *)
Patch(c, status, vencimento) ==
  /\ c \in Stored
  /\ contracts' = [contracts EXCEPT ![c].status = status, ![c].vencimento = vencimento]
  /\ UNCHANGED hoje

Delete(c) ==
  /\ c \in Stored
  /\ contracts' = [contracts EXCEPT ![c].status = "encerrado"]
  /\ UNCHANGED hoje

AddEmpenho(c, emissao) ==
  /\ c \in Stored
  /\ contracts[c].empenhos = {}
  /\ contracts' = [contracts EXCEPT ![c].empenhos =
       {[status |-> "emitido", emissao |-> emissao]}]
  /\ UNCHANGED hoje

PatchEmpenho(c, status) ==
  /\ c \in Stored
  /\ \E e \in contracts[c].empenhos :
       contracts' = [contracts EXCEPT ![c].empenhos = {[e EXCEPT !.status = status]}]
  /\ UNCHANGED hoje

ContractsNext ==
  \/ DaysPass
  \/ \E c \in ContractIds :
       \/ \E d \in Days : \E o \in Organs : Create(c, d, o)
       \/ \E d \in Days : \E s \in Statuses : Patch(c, s, d)
       \/ Delete(c)
       \/ \E d \in Days : AddEmpenho(c, d)
       \/ \E s \in StatusEmpenho : PatchEmpenho(c, s)

ContractsSpec == ContractsInit /\ [][ContractsNext]_ContractsVars
-----------------------------------------------------------------------------
Open == {c \in Stored : contracts[c].status \in {"ativo", "renovado"}}
Dias(c, day) == contracts[c].vencimento - day
Unpaid(c) == {e \in contracts[c].empenhos : e.status \in {"emitido", "liquidado"}}
Overdue(c, day) == {e \in Unpaid(c) : day - e.emissao > PrazoPagamento}

(* GET /contracts/dashboard. *)
ContractsDashboard ==
  [vencendo_30d |-> Cardinality({c \in Open : 0 <= Dias(c, hoje) /\ Dias(c, hoje) <= 30}),
   em_atraso |-> Cardinality(UNION {{c} \X Overdue(c, hoje) : c \in Stored})]

(* Fault: a contract that has lapsed is alerted as well. *)
AboutToLapseOrLapsed == {c \in Open : Dias(c, hoje) <= 90}

AboutToLapse == {c \in Open : 0 <= Dias(c, hoje) /\ Dias(c, hoje) <= 90}

(* GET /contracts/alerts. *)
ContractsAlerts ==
  LET Severity(dias) == IF dias <= 15 THEN "critical"
                        ELSE IF dias <= 30 THEN "warning" ELSE "info"
  IN {[contract |-> c, tipo |-> "vencimento_contrato", severity |-> Severity(Dias(c, hoje))] :
        c \in AboutToLapse}
     \cup
     {[contract |-> c, tipo |-> "pagamento_atrasado", severity |-> "critical"] :
        c \in {d \in Stored : Overdue(d, hoje) # {}}}

(* Fault: what is due within a fortnight is taken to be in hand. *)
CriticosInHand(day) == {c \in Open : 15 < Dias(c, day) /\ Dias(c, day) <= 30}

Criticos(day) == {c \in Open : 0 <= Dias(c, day) /\ Dias(c, day) <= 30}

(* What the health score is computed from, given what it knows of the runs: *)
(* among the rest, the largest share one organ has in the open contracts.  *)
BuildInputs(runs, day) ==
  LET PorOrgao(o) == Cardinality({c \in Open : contracts[c].orgao = o})
  IN [ganhos |-> runs.ganhos,
      total |-> runs.total,
      recente |-> runs.recente,
      criticos |-> Cardinality(Criticos(day)),
      atrasados |-> Cardinality(UNION {{c} \X Overdue(c, day) : c \in Stored}),
      valor |-> Cardinality(Open),
      maior |-> CHOOSE n \in {PorOrgao(o) : o \in Organs} :
                  \A o \in Organs : PorOrgao(o) <= n]
-----------------------------------------------------------------------------
(* round(): to the nearest, a tie to the even neighbour.                   *)
Round(num, den) ==
  LET q == num \div den
      r == 2 * (num % den)
  IN IF r > den \/ (r = den /\ q % 2 = 1) THEN q + 1 ELSE q

AtLeastZero(n) == IF n < 0 THEN 0 ELSE n

(* The components, in tenths of a point as they are rounded.  The          *)
(* certificates are never given to the score and count as in order.        *)
Valores(inp) ==
  [taxa_vitoria |-> IF inp.total > 0 THEN Round(1000 * inp.ganhos, inp.total) ELSE 500,
   pipeline     |-> IF inp.recente THEN 1000 ELSE 200,
   contratos    |-> AtLeastZero(1000 - 250 * inp.criticos),
   certidoes    |-> 1000,
   pagamentos   |-> AtLeastZero(1000 - 200 * inp.atrasados),
   concentracao |-> IF 2 * inp.maior < inp.valor \/ inp.valor = 0 THEN 1000
                    ELSE Round(2000 * (inp.valor - inp.maior), inp.valor)]

(* Weights in hundredths. *)
CalcularScore(inp) ==
  LET v == Valores(inp)
  IN Round(25 * v.taxa_vitoria + 20 * v.pipeline + 20 * v.contratos
           + 15 * v.certidoes + 10 * v.pagamentos + 10 * v.concentracao, 1000)

HealthScore(runs, day) == CalcularScore(BuildInputs(runs, day))
-----------------------------------------------------------------------------
ContractsTypeOK ==
  /\ hoje \in Days
  /\ contracts \in [ContractIds -> ContractRecord \cup {None}]

Alerted(tipo, severities) ==
  Cardinality({a \in ContractsAlerts : a.tipo = tipo /\ a.severity \in severities})

(* Three pages count the contracts about to lapse and the overdue          *)
(* payments, each with its own copy of the conditions, and agree on every  *)
(* date and after every edit: also on a lapsed contract (none shows it)    *)
(* and on the overdue payment of a closed one (all do).                    *)
ReportsAgree ==
  \A runs \in RunResults :
    LET dashboard == ContractsDashboard
        health    == BuildInputs(runs, hoje)
    IN /\ dashboard.vencendo_30d = Alerted("vencimento_contrato", {"critical", "warning"})
       /\ dashboard.vencendo_30d = health.criticos
       /\ dashboard.em_atraso = Alerted("pagamento_atrasado", {"critical"})
       /\ dashboard.em_atraso = health.atrasados

LapsedBy(day) == {c \in Open : Dias(c, hoje) >= 0 /\ Dias(c, day) < 0}

(* The passing of days improves the health score in one case only, and it  *)
(* is the wrong one: a contract was allowed to lapse, and is no longer     *)
(* counted as about to.  Payments only grow more overdue.                  *)
ScoreRisesByTimeOnlyOnLapse ==
  \A day \in {d \in Days : d > hoje /\ LapsedBy(d) = {}} : \A runs \in RunResults :
    HealthScore(runs, day) <= HealthScore(runs, hoje)
=============================================================================
