------------------------------- MODULE Verdicts -------------------------------
(***************************************************************************)
(* compute_fallback_verdict of utils/verdict_calc.py: what the service     *)
(* concludes from the stances of the sources without a language model.     *)
(* Confidence, reasoning and the penalties that change only the confidence *)
(* are left out; the quality of a source is counted in tenths.             *)
(***************************************************************************)
EXTENDS Integers, Sequences, FiniteSetsExt

Stances == {"SUPPORTS", "REFUTES", "NEUTRAL", "UNCLEAR"}

Source == [stance : Stances, quality : Nat]

ClaimValues == {"SUPPORTED", "REFUTED", "CONTESTED", "UNVERIFIABLE"}

OverallValues == {"MOSTLY_TRUE", "MOSTLY_FALSE", "MIXTURE", "UNVERIFIABLE"}

\* In what follows ev is a sequence of sources.
Taking(ev, stance) == {i \in DOMAIN ev : ev[i].stance = stance}

Count(ev, stance) == Cardinality(Taking(ev, stance))

Weight(ev, stance) == MapThenSumSet(LAMBDA i : ev[i].quality, Taking(ev, stance))

Distance(m, n) == IF m < n THEN n - m ELSE m - n

\* The sides are about even: |s - r| / (s + r) < 0.2.
Conflicting(s, r) == s > 0 /\ r > 0 /\ 5 * Distance(s, r) < s + r

ClaimVerdict(ev) ==
  LET s == Count(ev, "SUPPORTS")
      r == Count(ev, "REFUTES")
  IN  IF s = 0 /\ r = 0 THEN "UNVERIFIABLE"
      ELSE IF Conflicting(s, r) THEN "CONTESTED"
      ELSE IF Weight(ev, "SUPPORTS") > Weight(ev, "REFUTES") THEN "SUPPORTED"
      ELSE "REFUTED"

\* From the verdicts of the claims, a sequence of ClaimValues.
OverallVerdict(vs) ==
  LET Of(v) == Cardinality({i \in DOMAIN vs : vs[i] = v})
      total == Cardinality(DOMAIN vs)
  IN  IF Of("UNVERIFIABLE") = total THEN "UNVERIFIABLE"
      ELSE IF 10 * Of("SUPPORTED") > 7 * total THEN "MOSTLY_TRUE"
      ELSE IF 10 * Of("REFUTED") > 7 * total THEN "MOSTLY_FALSE"
      ELSE "MIXTURE"
===============================================================================
