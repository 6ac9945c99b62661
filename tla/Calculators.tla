----------------------------- MODULE Calculators -----------------------------
(***************************************************************************)
(* The pure calculations behind prices and deadlines, in whole cents and   *)
(* whole days: the deadline to object to an edital, counted back in        *)
(* working days; the taxes on a contract; the price scenarios.  A question *)
(* is asked, and its answer compared with what the answer has to satisfy.  *)
(***************************************************************************)
EXTENDS Absent, Integers, FiniteSets

CONSTANTS
  Dates,    \* bound: opening dates, in days since a Monday
  Notices,  \* bound: numbers of working days
  Prices,   \* bound: base prices, in cents
  Costs,    \* bound: direct costs, in cents
  Terms,    \* bound: payment terms, in days
  Revenues  \* bound: annual revenues, in reais

(* What Services assumes of these constants. *)
CalculatorsFit ==
  \A S \in {Dates, Notices, Prices, Costs, Terms, Revenues} : S \subseteq Nat

Regimes == {"simples", "lucro_presumido"}

Question ==
  [ask: {"prazo"}, d: Dates, n: Notices]
  \cup [ask: {"cenarios"}, preco: Prices, custos: Costs, prazo: Terms,
        regime: Regimes, faturamento: Revenues]

VARIABLE question

CalculatorsInit == question = None

Ask(q) == question = None /\ question' = q

CalculatorsNext == \E q \in Question : Ask(q)

CalculatorsSpec == CalculatorsInit /\ [][CalculatorsNext]_question
-----------------------------------------------------------------------------
Weekday(d) == d % 7 < 5

(* Fault: the weekend ends a day early. *)
SubtractBusinessDaysSunday(d, n) ==
  LET back[c \in Int, remaining \in Nat] ==
        IF remaining = 0 THEN c
        ELSE back[c - 1, IF (c - 1) % 7 < 6 THEN remaining - 1 ELSE remaining]
  IN back[d, n]

(* One day back at a time, until no working day remains. *)
Back[at \in Int \X Nat] ==
  LET current   == at[1]
      remaining == at[2]
  IN IF remaining = 0 THEN current
     ELSE Back[<<current - 1, IF Weekday(current - 1) THEN remaining - 1 ELSE remaining>>]

SubtractBusinessDays(d, n) == Back[<<d, n>>]
-----------------------------------------------------------------------------
(* quantize(0.01, ROUND_HALF_UP) of num / den cents, num not negative.     *)
Q(num, den) == (2 * num + den) \div (2 * den)

(* Rates in ten-thousandths. *)
SimplesServicos ==
  {[limite |-> 180000, aliquota |-> 600],   [limite |-> 360000, aliquota |-> 1120],
   [limite |-> 720000, aliquota |-> 1350],  [limite |-> 1800000, aliquota |-> 1600],
   [limite |-> 3600000, aliquota |-> 2100], [limite |-> 4800000, aliquota |-> 3300]}

LucroPresumido == [pis |-> 65, cofins |-> 300, csll |-> 288, irpj |-> 480, iss |-> 500]

(* The first bracket the revenue fits in, the last one beyond them all.    *)
AliquotaSimples(faturamento) ==
  LET fitting == {b \in SimplesServicos : faturamento <= b.limite}
  IN IF fitting = {} THEN 3300
     ELSE (CHOOSE b \in fitting : \A x \in fitting : b.limite <= x.limite).aliquota

Componentes(t) == t.pis + t.cofins + t.csll + t.irpj + t.iss

(* Each tax is rounded for itself, and so is their total. *)
CalcularImpostos(valor, regime, faturamento) ==
  IF regime = "simples"
  THEN LET total == Q(valor * AliquotaSimples(faturamento), 10000)
       IN [detalhamento |-> [simples_nacional |-> total], total |-> total]
  ELSE [detalhamento |-> [t \in DOMAIN LucroPresumido |-> Q(valor * LucroPresumido[t], 10000)],
        total |-> Q(valor * Componentes(LucroPresumido), 10000)]

(* A year's 11.75 % on 360 days: 47 in 400. *)
CustoFinanceiro(valor, prazo) == Q(valor * 47 * prazo, 400 * 360)

Ajustes == {-10, -5, 0, 5, 10}
Valor(preco, ajuste) == Q(preco * (100 + ajuste), 100)

(* gerar_cenarios: margem_liquida_brl of each scenario. *)
MargemLiquida(q, ajuste) ==
  LET valor == Valor(q.preco, ajuste)
  IN valor - q.custos - CalcularImpostos(valor, q.regime, q.faturamento).total
           - CustoFinanceiro(valor, q.prazo)
-----------------------------------------------------------------------------
CalculatorsTypeOK == question \in Question \cup {None}

(* The latest day with n working days between it and d, itself included.   *)
IsDeadline(r, d, n) ==
  /\ r <= d
  /\ Cardinality({x \in r..(d - 1) : Weekday(x)}) = n
  /\ n = 0 => r = d
  /\ n > 0 => Weekday(r)

(* The deadline is the latest day that leaves n working days, whatever     *)
(* weekday the edital opens on.                                            *)
DeadlineIsLatest ==
  question # None /\ question.ask = "prazo" =>
    IsDeadline(SubtractBusinessDays(question.d, question.n), question.d, question.n)

(* Under every regime and bracket, paid within four years, a scenario with *)
(* a higher price leaves no less; only below 40 cents two roundings may    *)
(* fall together and take a cent.                                          *)
HigherPriceLeavesMore ==
  question # None /\ question.ask = "cenarios" /\ question.prazo <= 4 * 365 =>
    \A a, b \in Ajustes : a < b =>
      MargemLiquida(question, a) <= MargemLiquida(question, b) + (IF question.preco < 40 THEN 1 ELSE 0)

(* The taxes listed one by one sum up to the total within two cents.       *)
TaxesSumUp ==
  question # None /\ question.ask = "cenarios" =>
    \A a \in Ajustes :
      LET impostos == CalcularImpostos(Valor(question.preco, a), question.regime, question.faturamento)
          listed   == IF question.regime = "simples" THEN impostos.detalhamento.simples_nacional
                      ELSE Componentes(impostos.detalhamento)
      IN listed - impostos.total \in -2..2

(* What is asked is answered as it should be, by the reference for each:   *)
(* deadlines, scenarios in order, taxes that sum up.                       *)
AnswersMatchReference == DeadlineIsLatest /\ HigherPriceLeavesMore /\ TaxesSumUp
=============================================================================
