-------------------------------- MODULE Tax ---------------------------------
(***************************************************************************)
(* common/utils/tax.ts: what a line of an order or of a sale costs and the *)
(* tax in it.  Amounts are in hundredths of a peso, rates whole percents;  *)
(* the code computes with floating point numbers, here they are exact.     *)
(***************************************************************************)
EXTENDS Integers, FiniteSetsExt

TaxModes == {"NONE", "INCLUDED", "EXCLUDED"}

\* Math.round(a / b) for b > 0: half is rounded up.
RoundDiv(a, b) == (2 * a + b) \div (2 * b)

\* Mutant of LineTax: included tax is computed as if it came on top of the price.
LineTaxOnTop(price, qty, mode, rate) ==
    IF mode = "NONE" \/ rate <= 0 THEN [unit |-> price, total |-> price * qty, tax |-> 0]
    ELSE LET unit == RoundDiv(price * (100 + rate), 10000) * 100
         IN  IF mode = "EXCLUDED"
             THEN [unit |-> unit, total |-> unit * qty, tax |-> unit * qty - price * qty]
             ELSE [unit |-> price, total |-> price * qty,
                   tax |-> RoundDiv(price * qty * rate, 100)]
\* computeLineTax: with EXCLUDED the unit price charged is rounded to whole pesos.
LineTax(price, qty, mode, rate) ==
    IF mode = "NONE" \/ rate <= 0 THEN [unit |-> price, total |-> price * qty, tax |-> 0]
    ELSE LET unit == RoundDiv(price * (100 + rate), 10000) * 100
         IN  IF mode = "EXCLUDED"
             THEN [unit |-> unit, total |-> unit * qty, tax |-> unit * qty - price * qty]
             ELSE [unit |-> price, total |-> price * qty,
                   tax |-> RoundDiv(price * qty * rate, 100 + rate)]

\* summarizeTax: a discount takes its share of the tax with it.
SummarizeTax(lines, discount) ==
    LET gross == MapThenSumSet(LAMBDA i : lines[i].total, DOMAIN lines)
        tax == MapThenSumSet(LAMBDA i : lines[i].tax, DOMAIN lines)
        total == Max({0, gross - discount})
    IN  [total |-> total, tax |-> IF gross > 0 THEN RoundDiv(tax * total, gross) ELSE 0]
=============================================================================
